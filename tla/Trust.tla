------------------------------- MODULE Trust -------------------------------
(***************************************************************************)
(* What a correspondent learns of a user and a domain, and why it believes *)
(* it: device directories, identity rotation after a compromise, the       *)
(* transparency log, discovery and partitions, sealed envelopes, and the   *)
(* work asked of strangers. They share the signed documents and no state,  *)
(* so a behaviour exercises one of them.                                   *)
(***************************************************************************)
EXTENDS DeviceDirectory, Rotation, Transparency, Discovery, Envelopes, Challenges

VARIABLE area

Areas == {"directory", "rotation", "log", "discovery", "partition", "envelope", "challenge"}

trustVars == <<area, directoryVars, rotationVars, logVars, discoveryVars, partitionVars, envelopeVars, powVars>>

TrustInit ==
  /\ area \in Areas
  /\ DirectoryInit /\ RotationInit /\ LogInit /\ DiscoveryInit /\ PartitionInit
  /\ EnvelopeInit /\ ChallengeInit

TrustNext ==
  /\ \/ /\ area = "directory" /\ DirectoryNext
        /\ UNCHANGED <<rotationVars, logVars, discoveryVars, partitionVars, envelopeVars, powVars>>
     \/ /\ area = "rotation" /\ RotationNext
        /\ UNCHANGED <<directoryVars, logVars, discoveryVars, partitionVars, envelopeVars, powVars>>
     \/ /\ area = "log" /\ LogNext
        /\ UNCHANGED <<directoryVars, rotationVars, discoveryVars, partitionVars, envelopeVars, powVars>>
     \/ /\ area = "discovery" /\ DiscoveryNext
        /\ UNCHANGED <<directoryVars, rotationVars, logVars, partitionVars, envelopeVars, powVars>>
     \/ /\ area = "partition" /\ PartitionNext
        /\ UNCHANGED <<directoryVars, rotationVars, logVars, discoveryVars, envelopeVars, powVars>>
     \/ /\ area = "envelope" /\ EnvelopeNext
        /\ UNCHANGED <<directoryVars, rotationVars, logVars, discoveryVars, partitionVars, powVars>>
     \/ /\ area = "challenge" /\ ChallengeNext
        /\ UNCHANGED <<directoryVars, rotationVars, logVars, discoveryVars, partitionVars, envelopeVars>>
  /\ UNCHANGED area

TrustSpec == TrustInit /\ [][TrustNext]_trustVars
=============================================================================
