------------------------------ MODULE Rotation ------------------------------
(***************************************************************************)
(* How an account gets from a lost or compromised identity key to a new    *)
(* one: the recovery set of a backup bundle and the shares its devices     *)
(* keep (recovery/*.ts), the rotation cascade that a device submits        *)
(* (keys/compromise.ts, keys/key_revocation.ts), and the home server and   *)
(* correspondents that verify it. The callers that string these functions  *)
(* together are outside the library.                                       *)
(***************************************************************************)
EXTENDS RecoveryRecords, TLC

CONSTANTS
  RecoverySets,        \* sequence of [secret, randoms, threshold]: one per bundle the user makes
  RecoveryDevices,     \* sequence of directory entries: device i keeps share i
  ReplacedDevices,     \* the same devices after one of them got a new key
  IdentityChain,       \* sequence of the identity keys the account goes through
  DomainKeys           \* the keys of the home domain

VARIABLES
  bundles,         \* the bundles and manifests made so far, the last one current
  shareRecords,    \* the records the devices keep, of every bundle
  devices,         \* the device directory, a set of entries
  held,            \* the manifest the recovering user works from, 0 if none
  collected,       \* the shares it accepted
  recovered,       \* what it reconstructed, -1 before
  active,          \* place of the active identity key in IdentityChain
  domainKey,
  submitted,       \* cascades and successor records on their way to the home server
  published        \* successor records the home server completed

rotationVars == <<bundles, shareRecords, devices, held, collected, recovered, active, domainKey,
                  submitted, published>>
recoveryVars == <<bundles, shareRecords, held, collected, recovered>>
serverVars == <<active, domainKey, submitted, published>>

Identity == IdentityChain[active]
SetOf(seq) == {seq[i] : i \in DOMAIN seq}

\* deriveBundleKey() and deriveRecoverySignKey(): the signing key follows from
\* the secret alone.
RecoverySignKey(secret) == "recovery-" \o ToString(secret)

\* The user makes a bundle, splits its secret and hands each device its share.
\* splitSecret() refuses a threshold of 1, though a manifest may carry it.
MakeBundle ==
  LET id == Len(bundles) + 1
      set == RecoverySets[id]
      total == Len(RecoveryDevices)
      bundle == [bundle_id |-> id, kdf |-> [acceptable |-> TRUE, cost |-> 1],
                 recovery_verify_pk |-> RecoverySignKey(set.secret), signature |-> NoSignature]
      manifest == [bundle_id |-> id, threshold |-> set.threshold, total_shares |-> total,
                   contributors |-> {[share_index |-> i, device_id |-> RecoveryDevices[i].device_id,
                                      public_key |-> RecoveryDevices[i].device_public_key] : i \in 1..total},
                   signature |-> NoSignature]
      recordOf(s) == [bundle_id |-> id, share_index |-> s.index, threshold |-> set.threshold, total_shares |-> total,
                      device_id |-> RecoveryDevices[s.index].device_id, share_value |-> s.value,
                      signature |-> NoSignature]
  IN  /\ id \in DOMAIN RecoverySets
      /\ CanSplit(set.threshold, total)
      /\ ValidateBundle(bundle) /\ ValidateManifest(manifest)
      /\ bundles' = Append(bundles, [bundle |-> SignBundle(bundle, Identity),
                                     manifest |-> SignManifest(manifest, Identity), signer |-> Identity])
      /\ shareRecords' = shareRecords \cup
           {SignShareRecord(recordOf(s), RecoveryDevices[s.index].device_public_key) :
              s \in SplitSecret(set.secret, set.randoms, total)}
      /\ UNCHANGED <<devices, held, collected, recovered, serverVars>>

\* A device of the account is replaced by one with another key.
ReplaceDevice ==
  /\ devices = SetOf(RecoveryDevices)
  /\ devices' = SetOf(ReplacedDevices)
  /\ UNCHANGED <<recoveryVars, serverVars>>

\* The user, without a device, fetches a bundle and its manifest.
StartRecovery(id) ==
  LET b == bundles[id]
  IN  /\ held = 0
      /\ VerifyBundle(b.bundle, b.signer) /\ VerifyManifest(b.manifest, b.signer)
      /\ CrossCheckManifestContributors(b.manifest, "user", devices, "user")
      /\ held' = id
      /\ UNCHANGED <<bundles, shareRecords, devices, collected, recovered, serverVars>>

\* A device answers with one of the records it keeps.
CollectShare(s) ==
  LET m == bundles[held].manifest
  IN  /\ held # 0 /\ recovered = -1 /\ s \notin collected
      /\ CheckShareMatchesManifest(s, m)
      /\ \E c \in m.contributors : c.device_id = s.device_id /\ VerifyShareRecord(s, c.public_key)
      /\ collected' = collected \cup {s}
      /\ UNCHANGED <<bundles, shareRecords, devices, held, recovered, serverVars>>

\* The caller counts the shares against the manifest; combineShares() does not.
CombineCollected ==
  LET shares == {[index |-> s.share_index, value |-> s.share_value] : s \in collected}
  IN  /\ held # 0 /\ recovered = -1
      /\ Cardinality(collected) >= bundles[held].manifest.threshold
      /\ CanCombine(shares)
      /\ recovered' = CombineShares(shares)
      /\ UNCHANGED <<bundles, shareRecords, devices, held, collected, serverVars>>

-----------------------------------------------------------------------------

\* A record whose two device-side signatures are in place.
Successor(recoveryKey, newKey, domainKeyId) ==
  LET prepared == PrepareSuccessorSignatures(Identity, newKey, recoveryKey, domainKeyId)
  IN  SignOneOfThree(SignOneOfThree(prepared, "recovery", recoveryKey), "new_key", newKey)

\* The prior identity key revokes itself in favour of the new one.
RevocationOf(prior, new) ==
  [revoked_key |-> prior, reason |-> "key_compromise", replacement_key_id |-> new, signature |-> NoSignature]

ValidateRevocationPublication(pub) ==
  /\ pub.revoked_key # NoKey
  /\ pub.reason \in {"key_compromise", "superseded", "cessation_of_operation", "temporary_hold"}
SignRevocationPublication(pub, key) == SignSignedDoc(pub, key, "SEMP-REVOCATION:")
VerifyRevocationPublication(pub, publisher) ==
  ValidateRevocationPublication(pub) /\ VerifySignedDoc(pub, publisher, "SEMP-REVOCATION:")

\* buildCompromiseRotation(): a device that still has the identity key revokes
\* another. The successor record is prepared with an empty domain key_id.
BuildCompromiseRotation(compromised, by, recoveryKey, newKey) ==
  [device_revocation |->
     SignDeviceRevocation([device_id |-> compromised, revoked_by_device_id |-> by, reason |-> "key_compromise",
                           replacement_device_id |-> NoKey, signature |-> NoSignature], Identity),
   successor |-> Successor(recoveryKey, newKey, NoKey),
   new_identity_key_id |-> newKey,
   prior_identity_revocation |-> SignRevocationPublication(RevocationOf(Identity, newKey), Identity)]

\* verifyCompromiseRotation(): it does not compare the key the successor record
\* names with the key that the revocation names.
VerifyCompromiseRotation(c, priorPub, recoveryPub) ==
  /\ c.device_revocation.reason = "key_compromise"
  /\ VerifyDeviceRevocation(c.device_revocation, priorPub)
  /\ VerifySuccessorTwoSignatures(c.successor, recoveryPub, c.successor.new_key_id)
  /\ VerifyRevocationPublication(c.prior_identity_revocation, priorPub)
  /\ c.prior_identity_revocation.reason = "key_compromise"
  /\ c.prior_identity_revocation.replacement_key_id = c.new_identity_key_id

\* The user submits a cascade from a device, or a successor record it prepared
\* for the domain key of the day after it reconstructed the secret.
Submit ==
  LET newKey == IdentityChain[active + 1]
  IN  /\ active < Len(IdentityChain) /\ bundles # <<>>
      /\ \E d \in devices, by \in devices :
           \/ /\ d # by
              /\ LET key == bundles[Len(bundles)].bundle.recovery_verify_pk
                     cascade == BuildCompromiseRotation(d.device_id, by.device_id, key, newKey)
                 IN  /\ VerifyCompromiseRotation(cascade, Identity, key)
                     /\ submitted' = submitted \cup {cascade.successor}
           \/ /\ recovered # -1
              /\ CanSignOneOfThree(PrepareSuccessorSignatures(Identity, newKey, RecoverySignKey(recovered), domainKey),
                                   "recovery", RecoverySignKey(recovered))
              /\ submitted' = submitted \cup {Successor(RecoverySignKey(recovered), newKey, domainKey)}
      /\ UNCHANGED <<recoveryVars, devices, active, domainKey, published>>

\* The home server completes a record: it fills in the key_id that was left
\* empty, signs, and the new key becomes the account's.
Complete(r) ==
  LET filled == IF r.keys["domain"] = NoKey THEN [r EXCEPT !.keys["domain"] = domainKey] ELSE r
      recoveryPub == bundles[Len(bundles)].bundle.recovery_verify_pk
  IN  /\ r.prior_key_id = Identity
      /\ VerifySuccessorTwoSignatures(r, recoveryPub, r.new_key_id)
      /\ CanSignOneOfThree(filled, "domain", domainKey)
      /\ published' = published \cup
           {[record |-> SignOneOfThree(filled, "domain", domainKey), named |-> r.keys["domain"] # NoKey,
             recoveryPub |-> recoveryPub, domainPub |-> domainKey]}
      /\ active' = active + 1
      /\ UNCHANGED <<recoveryVars, devices, domainKey, submitted>>

RotateDomainKey(key) ==
  /\ key # domainKey
  /\ domainKey' = key
  /\ UNCHANGED <<recoveryVars, devices, active, submitted, published>>

RotationInit ==
  /\ bundles = <<>> /\ shareRecords = {} /\ devices = SetOf(RecoveryDevices)
  /\ held = 0 /\ collected = {} /\ recovered = -1
  /\ active = 1 /\ domainKey = CHOOSE key \in DomainKeys : TRUE
  /\ submitted = {} /\ published = {}

RotationNext ==
  \/ MakeBundle \/ ReplaceDevice \/ CombineCollected \/ Submit
  \/ \E id \in DOMAIN bundles : StartRecovery(id)
  \/ \E s \in shareRecords : CollectShare(s)
  \/ \E r \in submitted : Complete(r)
  \/ \E key \in DomainKeys : RotateDomainKey(key)

-----------------------------------------------------------------------------

VerifiesAsPublished(p) == VerifySuccessorRecord(p.record, p.recoveryPub, p.record.new_key_id, p.domainPub)

\* The recovery as a whole: whatever shares the devices still keep of older
\* bundles, a user that gathered as many as the manifest asks for reconstructs
\* the secret of the bundle it holds (shamir.ts, manifest_crosscheck.ts), and
\* the successor record it goes on to prepare for the domain's key, once the
\* home server has completed it, convinces correspondents.
RecoverySound ==
  /\ recovered # -1 => recovered = RecoverySets[held].secret
  /\ \A p \in published : p.named => VerifiesAsPublished(p)

\* compromise.ts: "domain_signature slot's key_id is left empty for the home
\* server to fill in", so that also a cascade's successor record, once the home
\* server has completed it, convinces correspondents. The code breaks this: the
\* two signatures of the device cover the key_id that is filled in after them.
CompletedRecordsVerify == \A p \in published : VerifiesAsPublished(p)
=============================================================================
