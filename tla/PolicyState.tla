---------------------------- MODULE PolicyState ----------------------------
(***************************************************************************)
(* A user's policy on the home server: src/src/delivery/policy_state.ts    *)
(* and the validation of src/src/delivery/user_policy.ts.                  *)
(*                                                                         *)
(* Messages that verify against the keys of the user's devices reach apply *)
(* in any order, any number of times or not at all. apply is synchronous,  *)
(* so it is one action. A bucket of entries is a JavaScript Map: insertion *)
(* order, and setting an existing id keeps its place.                      *)
(***************************************************************************)
EXTENDS Integers, Sequences, SequencesExt

CONSTANTS
  UserId,            \* the account the state belongs to
  SupportedKinds,    \* kinds the constructor registers
  PolicyMessages,    \* verified messages of the user's devices
  NoEntry            \* undefined

FirstContact == "semp.dev/first_contact"

ASSUME PolicyAssumption ==
  \A m \in PolicyMessages :
    /\ m.policy_version \in Int /\ m.timestamp \in Nat
    /\ Len(m.operations) \in Nat /\ DOMAIN m.operations = 1..Len(m.operations)

VARIABLES
  policyVersion, lastTimestamp,
  listEntries,    \* list-shaped kind -> sequence of [id, entry]
  singleton,      \* the first_contact entry, or NoEntry
  applied         \* history: the messages applied, in order

policyVars == <<policyVersion, lastTimestamp, listEntries, singleton, applied>>

ListKinds == SupportedKinds \ {FirstContact}

PolicyInit ==
  /\ policyVersion = 0
  /\ lastTimestamp = -1
  /\ listEntries = [k \in ListKinds |-> <<>>]
  /\ singleton = NoEntry
  /\ applied = <<>>

-----------------------------------------------------------------------------
(* validateUserPolicyMessage *)

ValidateOp(op) ==
  /\ op.op \in {"add", "remove", "modify"}
  /\ op.kind # ""
  /\ op.kind = FirstContact => op.op = "modify" /\ op.entry_id = "" /\ op.entry # NoEntry
  /\ op.op = "remove" => op.entry_id # ""
  /\ op.op = "add" => op.entry # NoEntry

ValidateHeader(m) == m.policy_version >= 1 /\ m.operations # <<>>
ValidateOps(m) == \A i \in DOMAIN m.operations : ValidateOp(m.operations[i])

-----------------------------------------------------------------------------
(* apply *)

\* Mutant: equal timestamps are not stale.
StaleLater(m) ==
  \/ m.policy_version < policyVersion
  \/ m.policy_version = policyVersion /\ m.timestamp < lastTimestamp

\* Not strictly after the current version and timestamp.
Stale(m) ==
  \/ m.policy_version < policyVersion
  \/ m.policy_version = policyVersion /\ m.timestamp <= lastTimestamp

AllSupported(m) == \A i \in DOMAIN m.operations : m.operations[i].kind \in SupportedKinds

\* Every check before the first mutation; a message that fails one is thrown
\* back with an error and changes nothing.
Accepts(m) ==
  ValidateHeader(m) /\ ValidateOps(m) /\ m.user_id = UserId /\ ~Stale(m) /\ AllSupported(m)

\* The op's own entry_id, else the id inside the entry.
EntryIdFor(op) ==
  IF op.entry_id # "" THEN op.entry_id ELSE IF op.entry = NoEntry THEN "" ELSE op.entry.id

\* Map.set and Map.delete.
MapSet(bucket, id, entry) ==
  LET i == SelectInSeq(bucket, LAMBDA x : x.id = id) IN
  IF i = 0 THEN Append(bucket, [id |-> id, entry |-> entry])
  ELSE ReplaceAt(bucket, i, [id |-> id, entry |-> entry])
MapDelete(bucket, id) ==
  LET i == SelectInSeq(bucket, LAMBDA x : x.id = id) IN
  IF i = 0 THEN bucket ELSE RemoveAt(bucket, i)

\* Mutant: an add keeps an entry that is already there.
ApplyToBucketKeep(bucket, op) ==
  IF op.op = "remove" THEN MapDelete(bucket, op.entry_id)
  ELSE IF EntryIdFor(op) = "" \/ \E i \in DOMAIN bucket : bucket[i].id = EntryIdFor(op) THEN bucket
  ELSE MapSet(bucket, EntryIdFor(op), op.entry)

\* applyOp on a list-shaped kind; an entry without an id is skipped.
ApplyToBucket(bucket, op) ==
  IF op.op = "remove" THEN MapDelete(bucket, op.entry_id)
  ELSE IF EntryIdFor(op) = "" THEN bucket
  ELSE MapSet(bucket, EntryIdFor(op), op.entry)

\* applyOp for every operation; the first-contact entry is replaced.
ApplyOps(m) ==
  /\ listEntries' = [k \in ListKinds |->
       FoldLeft(LAMBDA bucket, op : IF op.kind = k THEN ApplyToBucket(bucket, op) ELSE bucket,
                listEntries[k], m.operations)]
  /\ singleton' =
       FoldLeft(LAMBDA old, op : IF op.kind = FirstContact THEN op.entry ELSE old, singleton, m.operations)

\* Every operation, then the version and the timestamp.
Apply(m) ==
  /\ Accepts(m)
  /\ ApplyOps(m)
  /\ policyVersion' = m.policy_version
  /\ lastTimestamp' = m.timestamp
  /\ applied' = Append(applied, m)

PolicyNext == \E m \in PolicyMessages : Apply(m)

PolicySpec == PolicyInit /\ [][PolicyNext]_policyVars

-----------------------------------------------------------------------------
(* Properties *)

Before(m, n) ==
  m.policy_version < n.policy_version
  \/ (m.policy_version = n.policy_version /\ m.timestamp < n.timestamp)

\* However messages of several devices are delayed, repeated and reordered,
\* they are applied in the order of version and timestamp, so none is applied
\* twice and none undoes a newer one.
AppliedInOrder ==
  \A i, j \in DOMAIN applied : i < j => Before(applied[i], applied[j])

\* The operations of a kind in the applied messages, by message and place.
Spoken(kind) ==
  UNION {{<<i, j>> : j \in {j \in DOMAIN applied[i].operations : applied[i].operations[j].kind = kind}} :
         i \in DOMAIN applied}
OpAt(p) == applied[p[1]].operations[p[2]]
NotAfter(p, q) == p[1] < q[1] \/ (p[1] = q[1] /\ p[2] <= q[2])

\* The last applied operation on an id decides: its entry is listed if the
\* operation was an add or a modify, and is gone if it was a remove. A refused
\* message leaves no trace ("operations MUST NOT be applied" one by one).
LastWord ==
  \A k \in ListKinds :
    LET listed(id) == {i \in DOMAIN listEntries[k] : listEntries[k][i].id = id} IN
    /\ \A p \in Spoken(k) :
         LET op == OpAt(p)
             id == EntryIdFor(op)
             last == \A q \in Spoken(k) : EntryIdFor(OpAt(q)) = id => NotAfter(q, p)
         IN id # "" /\ last =>
              /\ op.op = "remove" => listed(id) = {}
              /\ op.op # "remove" =>
                   \E i \in listed(id) : listed(id) = {i} /\ listEntries[k][i].entry = op.entry
    /\ \A i \in DOMAIN listEntries[k] :
         listEntries[k][i].id \in {EntryIdFor(OpAt(p)) : p \in Spoken(k)} \ {""}

-----------------------------------------------------------------------------
(* Matching a sender against a user's block list:                          *)
(* src/src/delivery/blocklist.ts.                                          *)
(*                                                                         *)
(* An entry names a user address, a server or a domain; one of another     *)
(* type is ignored. Names are compared without case, so here they are the  *)
(* names in lower case; "" is a name the sender does not have, and an      *)
(* absent scope. expires = 0 is a permanent entry.                         *)

CONSTANTS
  Names,     \* addresses, hostnames and domains
  NoMatch    \* null: no entry matches

EntityTypes == {"user", "server", "domain"}

ScopeApplies(scope, isGroup) ==
  scope \in {"all", ""} \/ (scope = "direct" /\ ~isGroup) \/ (scope = "group" /\ isGroup)

\* The sender's name an entry of a type is compared with.
SenderName(sender, type) ==
  CASE type = "user" -> sender.address
    [] type = "server" -> sender.server
    [] type = "domain" -> sender.domain

Applies(entry, sender, time) ==
  /\ entry.expires = 0 \/ entry.expires > time
  /\ ScopeApplies(entry.scope, sender.isGroup)
  /\ entry.type \in EntityTypes
  /\ SenderName(sender, entry.type) # ""
  /\ SenderName(sender, entry.type) = entry.name

Rank(entry) == CASE entry.type = "user" -> 3 [] entry.type = "server" -> 2 [] entry.type = "domain" -> 1

\* One turn of the loop: a user entry is returned at once, any other is kept
\* until a stronger one comes.
Better(best, entry, sender, time) ==
  IF best # NoMatch /\ Rank(best) = 3 THEN best
  ELSE IF Applies(entry, sender, time) /\ (best # NoMatch => Rank(entry) > Rank(best))
       THEN entry ELSE best

MatchBlockList(list, sender, time) ==
  FoldLeft(LAMBDA best, entry : Better(best, entry, sender, time), NoMatch, list)

\* What the loop is meant to find: the first of the entries of the strongest
\* type that applies.
MostSpecific(list, sender, time) ==
  LET hits == {i \in DOMAIN list : Applies(list[i], sender, time)}
      strongest == {i \in hits : \A j \in hits : Rank(list[j]) <= Rank(list[i])}
  IN IF hits = {} THEN NoMatch
     ELSE list[CHOOSE i \in strongest : \A j \in strongest : i <= j]
=============================================================================
