------------------------------ MODULE MCTrust ------------------------------
(***************************************************************************)
(* A small world for Trust: four devices, one with an incomplete           *)
(* registration and one with a role there is not, two recovery sets, three *)
(* identity keys, a log of seven entries that comes back from a restart    *)
(* with another third entry, a domain that changes its key once, partition *)
(* records on both sides of every bound, four drafts of which two share a  *)
(* postmark id and one is too long, and first contacts from a new, a       *)
(* hostile and a trusted domain.                                           *)
(***************************************************************************)
EXTENDS Trust

Device(id, role, certificate, key, complete) ==
  [device_id |-> id, role |-> role, certificate_id |-> certificate, device_public_key |-> key, complete |-> complete]
Full(id, key) == Device(id, "full_access", "", key, TRUE)

MCDirectoryEntries == {Full("d1", "p1"), Device("d2", "delegated", "c2", "p2", TRUE),
                       Device("d3", "full_access", "", "p3", FALSE),
                       Device("d4", "reader", "", "p4", TRUE)}

MCRecoverySets == <<[secret |-> 83, randoms |-> <<202>>, threshold |-> 2],
                    [secret |-> 0, randoms |-> <<255>>, threshold |-> 2]>>
MCRecoveryDevices == <<Full("d1", "p1"), Full("d2", "p2"), Full("d3", "p3")>>
MCReplacedDevices == <<Full("d1", "p1"), Full("d2", "p2"), Full("d3", "p4")>>
MCIdentityChain == <<"i1", "i2", "i3">>

Publish(user) == [event |-> "publish", user |-> user, supersedes |-> "", revoked_at |-> ""]
Rotate(user) == [event |-> "rotate", user |-> user, supersedes |-> "k", revoked_at |-> ""]
MCLogSubmissions ==
  LET before == [i \in 1..7 |-> Publish(i)]
  IN  <<before, [before EXCEPT ![3] = Rotate(3)]>>

MCDomainKeyIds == <<"k1", "k2">>

Record(strategy, servers) == [version |-> "semp1", strategy |-> strategy, servers |-> servers]
MCPartitionRecords ==
  {Record("alpha", n) : n \in {0, 1, 4, 7, 25, 30}} \cup {Record("hash", n) : n \in {0, 2, 3}}
    \cup {Record("lookup", 0), NoPartition}
MCPartitionUsers == {[char |-> c, hash |-> h] : c \in {1, 7, 22, 26, 27}, h \in {5, 6}}

Draft(n, id, suite, brief, to, enclosed, length, buckets) ==
  [n |-> n, id |-> id, suite |-> suite, brief |-> brief, enclosure |-> <<brief, "body">>,
   briefRecipients |-> to, enclosureRecipients |-> enclosed, randomness |-> to, enclosureRandomness |-> {},
   length |-> length, buckets |-> buckets, expires |-> IF n = 1 THEN 2 ELSE 1, timeSensitive |-> n = 3]
MCDrafts ==
  {Draft(1, "p1", "x25519", "hello", {"ks", "k1"}, {"k1"}, 3964, <<>>),
   Draft(2, "p1", "x25519", "hello again", {"ks", "k2"}, {"k2"}, 3965, <<4096, 6000>>),
   Draft(3, "p2", "x25519", "bye", {"ks", "k1", "k2"}, {"k2"}, 8000, <<>>),
   Draft(4, "p2", "pq", "secret", {"ks", "k1"}, {"k1"}, 9900, <<>>)}
MCCandidates == <<"k1", "k2">>
MCSealKeys == <<"s1", "s2">>

Contact(sender, postmark) == [sender |-> sender, recipient |-> "u", postmark |-> postmark]
MCFirstContacts == {Contact("new", "m1"), Contact("new", "m2"), Contact("bad", "m1"), Contact("good", "m3")}
MCProfiles == [new |-> [assessment |-> "", age |-> 29], bad |-> [assessment |-> "hostile", age |-> 400],
               good |-> [assessment |-> "trusted", age |-> 400]]
=============================================================================
