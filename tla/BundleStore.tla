---------------------------- MODULE BundleStore ----------------------------
(***************************************************************************)
(* The backup bundles of the accounts: InMemoryBundleStore of              *)
(* src/src/recovery/bundle_store.ts.                                       *)
(*                                                                         *)
(* The devices of an account read the current bundle, make a new one that  *)
(* names it in supersedes, and put it later: two devices may have read the *)
(* same one. A method of the store runs at the moment it is called. The    *)
(* server passes its own time as supersededAt.                             *)
(***************************************************************************)
EXTENDS ServerClock, Sequences, SequencesExt

CONSTANTS
  Owners, BackupDevices,
  BundleIds,             \* ids of bundles the devices may make: naturals
  NoBundle,              \* null, and the state of a device without a draft
  Second,                \* clock ticks in a second
  MinSupersededRetention,
  BundleRetentions       \* what the operator passes to pruneSuperseded

ASSUME BundleAssumption ==
  /\ BundleIds \subseteq Nat /\ NoBundle \notin BundleIds
  /\ Second \in Nat \ {0}
  /\ MinSupersededRetention \in Nat /\ BundleRetentions \subseteq Nat

VARIABLES
  byUser,        \* owner -> its bundles in the order they were put:
                 \* [id, supersedes, supersededAt], -1 while current
  drafts,        \* device -> [owner, id, supersedes], or NoBundle
  usedIds,       \* ids of the bundles made so far
  superseded     \* history: [owner, id, at] since the owner's last deleteAll

bundleVars == <<byUser, drafts, usedIds, superseded>>

BundleInit ==
  /\ byUser = [o \in Owners |-> <<>>]
  /\ drafts = [d \in BackupDevices |-> NoBundle]
  /\ usedIds = {}
  /\ superseded = {}

\* Where the current bundle is, or 0.
CurrentIndex(o) == SelectInSeq(byUser[o], LAMBDA b : b.supersededAt = -1)

GetCurrent(o) == IF CurrentIndex(o) = 0 THEN NoBundle ELSE byUser[o][CurrentIndex(o)].id

\* A device reads the current bundle and makes its successor.
Draft(d, o) ==
  /\ drafts[d] = NoBundle
  /\ \E id \in BundleIds \ usedIds :
       /\ \A x \in BundleIds \ usedIds : id <= x
       /\ drafts' = [drafts EXCEPT ![d] = [owner |-> o, id |-> id, supersedes |-> GetCurrent(o)]]
       /\ usedIds' = usedIds \cup {id}
  /\ UNCHANGED <<byUser, superseded>>

\* Mutant: the store takes whatever the device names.
MaySupersedeAny(draft) == TRUE

\* The first bundle names none, a later one the current.
MaySupersede(draft) == draft.supersedes = GetCurrent(draft.owner)

\* The current bundle, if there is one, becomes superseded now; the time is
\* written without the fraction of a second.
Supersede(list) ==
  [i \in DOMAIN list |->
    IF list[i].supersededAt = -1 THEN [list[i] EXCEPT !.supersededAt = now - (now % Second)] ELSE list[i]]

PutCurrent(d) ==
  LET draft == drafts[d] IN
  /\ draft # NoBundle
  /\ drafts' = [drafts EXCEPT ![d] = NoBundle]
  /\ \/ ~MaySupersede(draft) /\ UNCHANGED <<byUser, superseded>>
     \/ /\ MaySupersede(draft)
        /\ byUser' = [byUser EXCEPT ![draft.owner] =
             Append(Supersede(@), [id |-> draft.id, supersedes |-> draft.supersedes, supersededAt |-> -1])]
        /\ superseded' = superseded \cup
             {[owner |-> draft.owner, id |-> id, at |-> now] : id \in {GetCurrent(draft.owner)} \ {NoBundle}}
  /\ UNCHANGED usedIds

DeleteAll(o) ==
  /\ byUser[o] # <<>>
  /\ byUser' = [byUser EXCEPT ![o] = <<>>]
  /\ superseded' = {s \in superseded : s.owner # o}
  /\ UNCHANGED <<drafts, usedIds>>

\* A retention below the minimum is raised to it.
BundleCutoff(retainFor) == now - AtLeast(retainFor, MinSupersededRetention)

Stays(b, cutoff) == b.supersededAt = -1 \/ b.supersededAt >= cutoff

\* Array.filter over the bundles of one owner.
Retained(list, cutoff) ==
  LET kept[i \in 0..Len(list)] ==
        IF i = 0 THEN <<>>
        ELSE IF Stays(list[i], cutoff) THEN Append(kept[i - 1], list[i]) ELSE kept[i - 1]
  IN  kept[Len(list)]

PruneSuperseded(retainFor) ==
  /\ \E o \in Owners : \E i \in DOMAIN byUser[o] : ~Stays(byUser[o][i], BundleCutoff(retainFor))
  /\ byUser' = [o \in Owners |-> Retained(byUser[o], BundleCutoff(retainFor))]
  /\ UNCHANGED <<drafts, usedIds, superseded>>

BundleNext ==
  \/ \E d \in BackupDevices : PutCurrent(d) \/ \E o \in Owners : Draft(d, o)
  \/ \E o \in Owners : DeleteAll(o)
  \/ \E t \in BundleRetentions : PruneSuperseded(t)

-----------------------------------------------------------------------------
(* Properties *)

\* Whoever writes last must have seen what it replaces: the stored bundles
\* form one chain, each naming the one before it, and only the last is
\* current, whatever devices overlap, prune or deleteAll. A client that comes
\* back within the minimum retention finds the bundle it remembers ("Pruning
\* honors the ... floor of 30 days"), less what putCurrent cuts off the time,
\* which is under a second.
BundlesKept ==
  /\ \A o \in Owners : \A i \in DOMAIN byUser[o] :
       /\ byUser[o][i].supersededAt = -1 <=> i = Len(byUser[o])
       /\ i > 1 => byUser[o][i].supersedes = byUser[o][i - 1].id
  /\ \A s \in superseded : now - s.at + (Second - 1) <= MinSupersededRetention =>
       \E i \in DOMAIN byUser[s.owner] : byUser[s.owner][i].id = s.id
=============================================================================
