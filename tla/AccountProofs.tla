--------------------------- MODULE AccountProofs ---------------------------
(***************************************************************************)
(* For every set of accounts, requests, records and pending calls: an      *)
(* accepted closure request is never lost, a published migration whose     *)
(* notice window runs holds the lock of its local part, and the backup     *)
(* bundles of an account stay one chain.                                   *)
(***************************************************************************)
EXTENDS Account, SequenceTheorems, WellFoundedInduction, TLAPS

-----------------------------------------------------------------------------
(* Closure *)

ClosureTypes ==
  /\ pending \in [Users -> ClosureRequests \cup {NoRequest}]
  /\ \A u \in Users : pending[u] # NoRequest => pending[u].user = u
  /\ ticks \in [ClosureTicks ->
       [time : Int, due : SUBSET ClosureRequests, done : ClosureRequests \cup {NoRequest}]]
  /\ cancels \in [Cancels -> Users \cup {0}]
  /\ accepted \subseteq ClosureRequests

\* What a tick is about to delete belongs to an account it has closed: the
\* order of putFinalized and deletePending.
FinalizedFirst ==
  \A t \in ClosureTicks : ticks[t].done # NoRequest => ticks[t].done.user \in closedOnce

ClosureInv == ClosureTypes /\ FinalizedFirst /\ RequestKept

\* Nothing is pending at the start.
LEMMA ClosureInitInv == ClosureInit => ClosureInv
BY DEF ClosureInit, ClosureInv, ClosureTypes, FinalizedFirst, RequestKept, IdleTick

\* Every step of the driver and its store keeps the invariant.
LEMMA ClosureNextInv ==
  now \in Nat /\ ClosureInv /\ (ClosureNext \/ UNCHANGED closureVars) => ClosureInv'
<1> SUFFICES ASSUME now \in Nat, ClosureInv, ClosureNext \/ UNCHANGED closureVars PROVE ClosureInv'
  OBVIOUS
<1> USE ClosureAssumption
<1>1. ASSUME NEW q \in ClosureRequests, SubmitRequest(q) PROVE ClosureInv'
  <2>1. q.user \in Users
    OBVIOUS
  <2>2. ClosureTypes'
    BY <1>1, <2>1 DEF SubmitRequest, ClosureInv, ClosureTypes
  <2>3. FinalizedFirst'
    BY <1>1 DEF SubmitRequest, ClosureInv, FinalizedFirst
  <2>4. RequestKept'
    <3>1. CASE pending[q.user] = NoRequest /\ pending' = [pending EXCEPT ![q.user] = q]
                 /\ accepted' = accepted \cup {q}
      <4> SUFFICES ASSUME NEW p \in accepted'
                   PROVE  (pending[p.user] = p \/ p \in canceled \/ p.user \in closedOnce)'
        BY DEF RequestKept
      <4>1. canceled' = canceled /\ closedOnce' = closedOnce
        BY <1>1 DEF SubmitRequest
      <4>2. CASE p = q
        BY <3>1, <2>1, <4>2 DEF ClosureInv, ClosureTypes
      <4>3. CASE p \in accepted
        <5>1. p \in ClosureRequests /\ p # NoRequest
          BY <4>3 DEF ClosureInv, ClosureTypes
        <5>2. pending[p.user] = p \/ p \in canceled \/ p.user \in closedOnce
          BY <4>3 DEF ClosureInv, RequestKept
        <5>3. CASE pending[p.user] = p
          BY <5>1, <5>3, <3>1 DEF ClosureInv, ClosureTypes
        <5> QED
          BY <5>2, <5>3, <4>1
      <4> QED
        BY <3>1, <4>2, <4>3
    <3>2. CASE UNCHANGED <<pending, accepted>>
      BY <1>1, <3>2 DEF SubmitRequest, ClosureInv, RequestKept
    <3> QED
      BY <1>1, <3>1, <3>2 DEF SubmitRequest
  <2> QED
    BY <2>2, <2>3, <2>4 DEF ClosureInv
<1>2. ASSUME NEW c \in Cancels, NEW u \in Users, SubmitCancel(c, u) PROVE ClosureInv'
  BY <1>2 DEF SubmitCancel, ClosureInv, ClosureTypes, FinalizedFirst, RequestKept, closureHistory
<1>3. ASSUME NEW c \in Cancels, CancelDeletes(c) PROVE ClosureInv'
  BY <1>3 DEF CancelDeletes, ClosureInv, ClosureTypes, FinalizedFirst, RequestKept
<1>4. ASSUME NEW t \in ClosureTicks, ClosureTickBegin(t) PROVE ClosureInv'
  <2>1. {pending[u] : u \in {x \in Users : Due(x)}} \subseteq ClosureRequests
    BY DEF Due, ClosureInv, ClosureTypes
  <2> QED
    BY <1>4, <2>1 DEF ClosureTickBegin, ClosureInv, ClosureTypes, FinalizedFirst, RequestKept, closureHistory
<1>5. ASSUME NEW t \in ClosureTicks, TickFinalizes(t) PROVE ClosureInv'
  BY <1>5 DEF TickFinalizes, NextDue, ClosureInv, ClosureTypes, FinalizedFirst, RequestKept
<1>6. ASSUME NEW t \in ClosureTicks, TickDeletes(t) PROVE ClosureInv'
  BY <1>6 DEF TickDeletes, IdleTick, ClosureInv, ClosureTypes, FinalizedFirst, RequestKept, closureHistory
<1>7. CASE ClosureStoreRejects
  BY <1>7 DEF ClosureStoreRejects, IdleTick, ClosureInv, ClosureTypes, FinalizedFirst, RequestKept, closureHistory
<1>8. ASSUME NEW d \in PruneRetentions, PruneFinalized(d) PROVE ClosureInv'
  BY <1>8 DEF PruneFinalized, ClosureInv, ClosureTypes, FinalizedFirst, RequestKept, closureHistory
<1>9. CASE UNCHANGED closureVars
  BY <1>9 DEF closureVars, closureHistory, ClosureInv, ClosureTypes, FinalizedFirst, RequestKept
<1> QED
  BY <1>1, <1>2, <1>3, <1>4, <1>5, <1>6, <1>7, <1>8, <1>9 DEF ClosureNext, ClosureTickStep

-----------------------------------------------------------------------------
(* Migration *)

RecordIds == {r.record_id : r \in Submissions}
Locks == [until : Nat, recordId : RecordIds]

MigrationTypes ==
  /\ now \in Nat
  /\ lockout \in [LocalParts -> Locks \cup {NoLock}]
  /\ byRecordId \subseteq Submissions
  /\ accepts \in [AcceptCalls -> [record : Submissions \cup {NoMigration}, at : {"idle", "policy", "reserved"}]]
  /\ \A c \in AcceptCalls : accepts[c].at # "idle" => accepts[c].record \in Submissions

\* The record holds the lock of its local part while its window runs.
Holds(r) ==
  r.until > now /\ r.record_id \notin released =>
    lockout[LocalPart[r.old_address]] = [until |-> r.until, recordId |-> r.record_id]

\* So does a record that is about to be published.
ReservedIsLocked == \A c \in AcceptCalls : accepts[c].at = "reserved" => Holds(accepts[c].record)

MigrationInv == MigrationTypes /\ ReservedIsLocked /\ PublishedIsLocked

\* Nothing is reserved or published at the start.
LEMMA MigrationInitInv == now = 0 /\ MigrationInit => MigrationInv
BY DEF MigrationInit, MigrationInv, MigrationTypes, ReservedIsLocked, PublishedIsLocked, IdleAccept

\* A lock that is not touched, or touched only when it has expired, keeps
\* holding: time and releases only weaken what Holds asks.
LEMMA HoldsKept ==
  ASSUME MigrationTypes, NEW r \in Submissions, Holds(r),
         now' \in Nat, now' >= now, released \subseteq released',
         \/ lockout'[LocalPart[r.old_address]] = lockout[LocalPart[r.old_address]]
         \/ lockout[LocalPart[r.old_address]] = NoLock
         \/ lockout[LocalPart[r.old_address]].until <= now
         \/ lockout[LocalPart[r.old_address]].recordId \in released'
  PROVE  Holds(r)'
BY MigrationAssumption DEF Holds, MigrationTypes, RecordIds, Locks

\* Every step of a submission, of the registry and of the clock keeps the
\* invariant.
LEMMA MigrationNextInv ==
  ASSUME MigrationInv,
         \/ (MigrationNext \/ UNCHANGED migrationVars) /\ UNCHANGED now
         \/ Advance(MaxTime[part]) /\ UNCHANGED migrationVars
  PROVE  MigrationInv'
<1> USE MigrationAssumption
<1>a. /\ MigrationTypes
      /\ \A c \in AcceptCalls : accepts[c].at = "reserved" =>
           accepts[c].record \in Submissions /\ Holds(accepts[c].record)
      /\ \A r \in byRecordId : r \in Submissions /\ Holds(r)
  BY DEF MigrationInv, MigrationTypes, ReservedIsLocked, PublishedIsLocked, Holds
<1>b. \A r \in Submissions : LocalPart[r.old_address] \in LocalParts /\ r.record_id \in RecordIds
  BY DEF LocalParts, RecordIds
<1>c. ASSUME now' \in Nat, now' >= now, released \subseteq released', MigrationTypes',
             \A l \in LocalParts :
               \/ lockout'[l] = lockout[l]
               \/ lockout[l] = NoLock
               \/ lockout[l].until <= now
               \/ lockout[l].recordId \in released',
             \A c \in AcceptCalls : accepts'[c].at = "reserved" =>
               /\ accepts'[c].record = accepts[c].record
               /\ accepts[c].at = "reserved" \/ Holds(accepts[c].record)',
             byRecordId' \subseteq byRecordId \cup {accepts[c].record : c \in {x \in AcceptCalls : accepts[x].at = "reserved"}}
      PROVE  MigrationInv'
  <2>1. ASSUME NEW r \in Submissions, Holds(r) PROVE Holds(r)'
    BY <1>a, <1>b, <1>c, <2>1, HoldsKept
  <2>2. ReservedIsLocked'
    <3> SUFFICES ASSUME NEW c \in AcceptCalls, accepts'[c].at = "reserved"
                 PROVE  Holds(accepts[c].record)'
      BY DEF ReservedIsLocked
    <3>1. CASE accepts[c].at = "reserved"
      BY <1>a, <1>c, <2>1, <3>1 DEF Holds
    <3> QED
      BY <1>c, <3>1
  <2>3. PublishedIsLocked'
    <3> SUFFICES ASSUME NEW r \in byRecordId' PROVE Holds(r)'
      BY DEF PublishedIsLocked, Holds
    <3>1. r \in Submissions /\ Holds(r)
      BY <1>a, <1>c
    <3> QED
      BY <2>1, <3>1
  <2> QED
    BY <1>c, <2>2, <2>3 DEF MigrationInv
<1>1. ASSUME NEW c \in AcceptCalls, NEW r \in Submissions, AcceptBegin(c, r), UNCHANGED now PROVE MigrationInv'
  <2>1. MigrationTypes'
    BY <1>a, <1>1 DEF AcceptBegin, MigrationTypes
  <2> QED
    BY <1>a, <1>1, <1>c, <2>1 DEF AcceptBegin, MigrationTypes
<1>2. ASSUME NEW c \in AcceptCalls, AcceptReserves(c), UNCHANGED now PROVE MigrationInv'
  <2> DEFINE r == accepts[c].record
  <2>1. r \in Submissions
    BY <1>a, <1>2 DEF AcceptReserves, MigrationTypes
  <2>2. MigrationTypes'
    BY <1>a, <1>b, <1>2, <2>1 DEF AcceptReserves, Reserve, MigrationTypes, Locks
  <2>3. lockout'[LocalPart[r.old_address]] = [until |-> r.until, recordId |-> r.record_id]
    BY <1>a, <1>b, <1>2, <2>1 DEF AcceptReserves, Reserve, MigrationTypes
  <2>4. accepts'[c].record = r
    BY <1>a, <1>2 DEF AcceptReserves, MigrationTypes
  <2>5. Holds(accepts[c].record)'
    BY <2>3, <2>4 DEF Holds
  <2>6. \A l \in LocalParts : lockout'[l] = lockout[l] \/ lockout[l] = NoLock
    BY <1>a, <1>2 DEF AcceptReserves, Reserve, MigrationTypes
  <2>7. \A x \in AcceptCalls : x # c => accepts'[x] = accepts[x]
    BY <1>a, <1>2 DEF AcceptReserves, MigrationTypes
  <2>8. byRecordId' = byRecordId /\ released' = released
    BY <1>2 DEF AcceptReserves
  <2> HIDE DEF r
  <2> QED
    BY <1>a, <1>2, <1>c, <2>2, <2>4, <2>5, <2>6, <2>7, <2>8 DEF MigrationTypes, r
<1>3. ASSUME NEW c \in AcceptCalls, AcceptPublishes(c), UNCHANGED now PROVE MigrationInv'
  <2>1. MigrationTypes'
    BY <1>a, <1>3 DEF AcceptPublishes, PutRecord, IdleAccept, MigrationTypes
  <2> QED
    BY <1>a, <1>3, <1>c, <2>1 DEF AcceptPublishes, PutRecord, IdleAccept, MigrationTypes
<1>4. ASSUME NEW c \in AcceptCalls, AcceptThrows(c), UNCHANGED now PROVE MigrationInv'
  <2>1. MigrationTypes'
    BY <1>a, <1>4 DEF AcceptThrows, IdleAccept, MigrationTypes
  <2> QED
    BY <1>a, <1>4, <1>c, <2>1 DEF AcceptThrows, IdleAccept, MigrationTypes
<1>5. ASSUME NEW l \in LocalParts, IsLockedOut(l), UNCHANGED now PROVE MigrationInv'
  <2>1. MigrationTypes'
    BY <1>a, <1>5 DEF IsLockedOut, MigrationTypes
  <2> QED
    BY <1>a, <1>5, <1>c, <2>1 DEF IsLockedOut, Expired, MigrationTypes
<1>6. ASSUME NEW l \in LocalParts, Release(l), UNCHANGED now PROVE MigrationInv'
  <2>1. MigrationTypes'
    BY <1>a, <1>6 DEF Release, MigrationTypes
  <2> QED
    BY <1>a, <1>6, <1>c, <2>1 DEF Release, MigrationTypes
<1>7. ASSUME PruneExpired, UNCHANGED now PROVE MigrationInv'
  <2>1. MigrationTypes'
    BY <1>a, <1>7 DEF PruneExpired, MigrationTypes
  <2> QED
    BY <1>a, <1>7, <1>c, <2>1 DEF PruneExpired, Expired, MigrationTypes
<1>8. CASE UNCHANGED migrationVars /\ (UNCHANGED now \/ Advance(MaxTime[part]))
  <2>1. now' \in Nat /\ now' >= now
    BY <1>a, <1>8 DEF Advance, MigrationTypes
  <2>2. MigrationTypes'
    BY <1>a, <1>8, <2>1 DEF migrationVars, MigrationTypes
  <2> QED
    BY <1>a, <1>8, <1>c, <2>1, <2>2 DEF migrationVars
<1> QED
  BY <1>1, <1>2, <1>3, <1>4, <1>5, <1>6, <1>7, <1>8 DEF MigrationNext

-----------------------------------------------------------------------------
(* The specification *)

AccountInv == ClosureInv /\ MigrationInv

\* Each step is a step of one store, or of the clock, and leaves the others.
LEMMA AccountInvHolds == Spec => []AccountInv
<1>1. Init => AccountInv
  BY ClosureInitInv, MigrationInitInv DEF Init, AccountInv
<1>2. AccountInv /\ [Next]_vars => AccountInv'
  <2> SUFFICES ASSUME AccountInv, [Next]_vars PROVE AccountInv'
    OBVIOUS
  <2>1. now \in Nat
    BY DEF AccountInv, MigrationInv, MigrationTypes
  <2>2. ClosureNext \/ UNCHANGED closureVars
    BY DEF Next, vars
  <2>3. \/ (MigrationNext \/ UNCHANGED migrationVars) /\ UNCHANGED now
        \/ Advance(MaxTime[part]) /\ UNCHANGED migrationVars
    BY DEF Next, vars
  <2>4. ClosureInv'
    BY <2>1, <2>2, ClosureNextInv DEF AccountInv
  <2>5. MigrationInv'
    BY <2>3, MigrationNextInv DEF AccountInv
  <2> QED
    BY <2>4, <2>5 DEF AccountInv
<1> QED
  BY <1>1, <1>2, PTL DEF Spec

\* An accepted closure request is pending, canceled, or its account was
\* closed: overlapping ticks and failing stores lose none (driver.ts tick
\* writes the finalization before it deletes the request).
THEOREM RequestKeptHolds == Spec => []RequestKept
<1>1. AccountInv => RequestKept
  BY DEF AccountInv, ClosureInv
<1> QED
  BY <1>1, AccountInvHolds, PTL

\* A published migration whose notice window runs holds the lock of its local
\* part (acceptSubmission reserves before it publishes, and reserve never
\* replaces a reservation).
THEOREM PublishedIsLockedHolds == Spec => []PublishedIsLocked
<1>1. AccountInv => PublishedIsLocked
  BY DEF AccountInv, MigrationInv
<1> QED
  BY <1>1, AccountInvHolds, PTL

-----------------------------------------------------------------------------
(* An accepted cancel is final *)

\* A request that was canceled before any tick had listed it is gone: it is not
\* pending, no tick holds it, and submit does not take it a second time.
Gone(q) == (\A u \in Users : pending[u] # q) /\ ~Listed(q)
CancelInv ==
  /\ canceled \subseteq submitted \cap ClosureRequests
  /\ \A u \in Users : pending[u] # NoRequest => pending[u] \in submitted
  /\ \A q \in canceled \ listed : Gone(q)

\* Nothing is canceled at the start.
LEMMA CancelInitInv == ClosureInit => CancelInv
BY DEF ClosureInit, CancelInv

\* A step of the driver or its store keeps what was canceled away, and
\* completes nothing of it.
LEMMA CancelNextInv ==
  ASSUME ClosureTypes, CancelInv, ClosureNext \/ UNCHANGED closureVars
  PROVE  CancelInv' /\ \A q \in canceled \ listed : q \in completed' => q \in completed
<1> DEFINE Goal == CancelInv' /\ \A q \in canceled \ listed : q \in completed' => q \in completed
<1> USE ClosureAssumption DEF ClosureTypes, CancelInv, Gone, Listed
<1>1. ASSUME NEW q \in ClosureRequests, SubmitRequest(q) PROVE Goal
  <2>1. /\ q \notin submitted /\ submitted' = submitted \cup {q}
        /\ UNCHANGED <<ticks, canceled, listed, completed>>
        /\ \A u \in Users : pending'[u] = pending[u] \/ pending'[u] = q
    BY <1>1 DEF SubmitRequest
  <2> QED
    BY <2>1
<1>2. ASSUME NEW c \in Cancels, NEW u \in Users, SubmitCancel(c, u) PROVE Goal
  BY <1>2 DEF SubmitCancel, closureHistory
<1>3. ASSUME NEW c \in Cancels, CancelDeletes(c) PROVE Goal
  <2> DEFINE u == cancels[c]
  <2>1. /\ u \in Users /\ pending' = [pending EXCEPT ![u] = NoRequest]
        /\ canceled' = canceled \cup ({pending[u]} \ {NoRequest})
        /\ listed' = listed \cup {q \in {pending[u]} : Listed(q)}
        /\ UNCHANGED <<ticks, submitted, completed>>
    BY <1>3 DEF CancelDeletes
  <2> HIDE DEF u
  <2>2. \A x \in Users : pending'[x] = NoRequest \/ (pending'[x] = pending[x] /\ x # u)
    BY <2>1
  <2>3. canceled' \subseteq submitted \cap ClosureRequests
    BY <2>1
  <2>4. ASSUME NEW q \in canceled' \ listed' PROVE Gone(q)'
    <3>1. q # NoRequest
      BY <2>3
    <3>2. CASE q \in canceled
      BY <2>1, <2>2, <2>4, <3>1, <3>2
    <3>3. CASE q = pending[u]
      <4>1. ~Listed(q)
        BY <2>1, <2>4, <3>3
      <4> QED
        BY <2>1, <2>2, <3>1, <3>3, <4>1
    <3> QED
      BY <2>1, <2>4, <3>2, <3>3
  <2> QED
    BY <2>1, <2>2, <2>3, <2>4
<1>4. ASSUME NEW t \in ClosureTicks, ClosureTickBegin(t) PROVE Goal
  <2>1. /\ UNCHANGED <<pending, submitted, canceled, listed, completed>>
        /\ ticks'[t].due \subseteq {pending[u] : u \in Users} /\ ticks'[t].done = NoRequest
        /\ \A x \in ClosureTicks : x # t => ticks'[x] = ticks[x]
    BY <1>4 DEF ClosureTickBegin, closureHistory
  <2> QED
    BY <2>1
<1>5. ASSUME NEW t \in ClosureTicks, TickFinalizes(t) PROVE Goal
  <2>1. PICK q \in ticks[t].due :
          /\ completed' = completed \cup {q}
          /\ ticks'[t].due \subseteq ticks[t].due /\ ticks'[t].done = q
          /\ \A x \in ClosureTicks : x # t => ticks'[x] = ticks[x]
          /\ UNCHANGED <<pending, submitted, canceled, listed>>
    BY <1>5 DEF TickFinalizes, NextDue
  <2> QED
    BY <2>1
<1>6. ASSUME NEW t \in ClosureTicks, TickDeletes(t) PROVE Goal
  <2>1. /\ UNCHANGED <<submitted, canceled, listed, completed>>
        /\ ticks'[t].due \subseteq ticks[t].due /\ ticks'[t].done = NoRequest
        /\ \A x \in ClosureTicks : x # t => ticks'[x] = ticks[x]
        /\ \A u \in Users : pending'[u] = pending[u] \/ pending'[u] = NoRequest
    BY <1>6 DEF TickDeletes, IdleTick, closureHistory
  <2> QED
    BY <2>1
<1>7. ASSUME ClosureStoreRejects PROVE Goal
  <2>1. /\ UNCHANGED <<pending, submitted, canceled, listed, completed>>
        /\ \A x \in ClosureTicks : ticks'[x] = ticks[x] \/ (ticks'[x].due = {} /\ ticks'[x].done = NoRequest)
    BY <1>7 DEF ClosureStoreRejects, IdleTick, closureHistory
  <2> QED
    BY <2>1
<1>8. ASSUME NEW d \in PruneRetentions, PruneFinalized(d) PROVE Goal
  BY <1>8 DEF PruneFinalized, closureHistory
<1>9. ASSUME UNCHANGED closureVars PROVE Goal
  BY <1>9 DEF closureVars, closureHistory
<1> QED
  BY <1>1, <1>2, <1>3, <1>4, <1>5, <1>6, <1>7, <1>8, <1>9 DEF ClosureNext, ClosureTickStep

\* submit and tick: an accepted cancel that comes before a tick lists its
\* request keeps that request from being finalized, however ticks and cancels
\* overlap and store calls reject.
THEOREM CancelHonouredHolds == Spec => CancelHonoured
<1>1. Init => CancelInv
  BY CancelInitInv DEF Init
<1>2. AccountInv /\ CancelInv /\ [Next]_vars => CancelInv'
  <2> SUFFICES ASSUME AccountInv, CancelInv, [Next]_vars PROVE CancelInv'
    OBVIOUS
  <2>1. ClosureNext \/ UNCHANGED closureVars
    BY DEF Next, vars
  <2> QED
    BY <2>1, CancelNextInv DEF AccountInv, ClosureInv
<1>3. AccountInv /\ CancelInv /\ [Next]_vars =>
        [\A q \in canceled \ listed : q \in completed' => q \in completed]_closureVars
  <2> SUFFICES ASSUME AccountInv, CancelInv, [Next]_vars
               PROVE  [\A q \in canceled \ listed : q \in completed' => q \in completed]_closureVars
    OBVIOUS
  <2>1. ClosureNext \/ UNCHANGED closureVars
    BY DEF Next, vars
  <2> QED
    BY <2>1, CancelNextInv DEF AccountInv, ClosureInv
<1> QED
  BY <1>1, <1>2, <1>3, AccountInvHolds, PTL DEF Spec, CancelHonoured

-----------------------------------------------------------------------------
(* Backup bundles *)

Bundles == [id : BundleIds, supersedes : BundleIds \cup {NoBundle}, supersededAt : Int]

\* A set of numbers that counting up never leaves.
LEMMA CountingUp ==
  ASSUME NEW n \in Nat, NEW S, 0 \in S, \A k \in 0..(n - 1) : k \in S => k + 1 \in S
  PROVE  \A k \in 0..n : k \in S
<1> DEFINE Below == {p \in Nat \X Nat : p[1] < p[2]}
           Bad == {k \in 0..n : k \notin S}
<1>1. IsWellFoundedOn(Below, Nat)
  BY NatLessThanWellFounded DEF OpToRel
<1>2. \A x, y \in Nat : y < x => <<y, x>> \in Below
  OBVIOUS
<1> HIDE DEF Below
<1>3. SUFFICES ASSUME Bad # {} PROVE FALSE
  OBVIOUS
<1>4. Bad \in SUBSET Nat
  OBVIOUS
<1>5. PICK k \in Bad : \A y \in Bad : ~(<<y, k>> \in Below)
  BY <1>1, <1>3, <1>4, WFMin
<1>6. k \in 0..n /\ k # 0 /\ k \notin S
  BY <1>5
<1>7. k - 1 \in 0..(n - 1) /\ k - 1 \in 0..n /\ (k - 1) + 1 = k /\ <<k - 1, k>> \in Below
  BY <1>2, <1>6
<1>8. k - 1 \in S
  BY <1>5, <1>7
<1> QED
  BY <1>6, <1>7, <1>8

\* What the loop of Array.filter has kept after each bundle.
Keeps(list, cutoff, n, kept) ==
  kept = [i \in 0..n |->
           IF i = 0 THEN <<>>
           ELSE IF Stays(list[i], cutoff) THEN Append(kept[i - 1], list[i]) ELSE kept[i - 1]]

LEMMA KeepsExists ==
  ASSUME NEW list, NEW cutoff, NEW n \in Nat
  PROVE  \E kept : Keeps(list, cutoff, n, kept)
<1> DEFINE S == {k \in 0..n : \E kept : Keeps(list, cutoff, k, kept)}
<1>1. 0 \in S
  <2>1. Keeps(list, cutoff, 0, [i \in 0..0 |-> <<>>])
    BY DEF Keeps
  <2> QED
    BY <2>1
<1>2. ASSUME NEW k \in 0..(n - 1), k \in S PROVE k + 1 \in S
  <2>1. PICK kept : Keeps(list, cutoff, k, kept)
    BY <1>2
  <2> DEFINE value(f, i) == IF i = 0 THEN <<>>
                            ELSE IF Stays(list[i], cutoff) THEN Append(f[i - 1], list[i]) ELSE f[i - 1]
             more == [i \in 0..(k + 1) |-> value(kept, i)]
  <2>2. kept = [i \in 0..k |-> value(kept, i)]
    BY <2>1, Zenon DEF Keeps
  <2>3. \A i \in 0..k : more[i] = kept[i]
    <3> HIDE DEF value
    <3>1. \A i \in 0..k : i \in 0..(k + 1) /\ kept[i] = value(kept, i)
      BY <2>2
    <3> QED
      BY <3>1
  <2>4. \A i \in 0..(k + 1) : value(kept, i) = value(more, i)
    <3> HIDE DEF more
    <3>1. \A i \in 0..(k + 1) : i # 0 => i - 1 \in 0..k
      OBVIOUS
    <3> QED
      BY <2>3, <3>1
  <2>5. more = [i \in 0..(k + 1) |-> value(more, i)]
    <3> HIDE DEF value
    <3> QED
      BY <2>4
  <2>6. Keeps(list, cutoff, k + 1, more)
    BY <2>5, Zenon DEF Keeps
  <2> QED
    BY <2>6
<1> HIDE DEF S
<1>3. n \in S
  BY <1>1, <1>2, CountingUp
<1> QED
  BY <1>3 DEF S

\* out is what stays of the first k bundles, in their order.
Sifted(list, cutoff, k, out) ==
  /\ out \in Seq(Bundles)
  /\ \E from \in [1..Len(out) -> 1..k] :
       /\ \A j \in 1..Len(out) : out[j] = list[from[j]]
       /\ \A i, j \in 1..Len(out) : i < j => from[i] < from[j]
       /\ \A i \in 1..k : Stays(list[i], cutoff) <=> \E j \in 1..Len(out) : from[j] = i

LEMMA RetainedIs ==
  ASSUME NEW list \in Seq(Bundles), NEW cutoff
  PROVE  Sifted(list, cutoff, Len(list), Retained(list, cutoff))
<1> DEFINE n == Len(list)
           kept == CHOOSE f : Keeps(list, cutoff, n, f)
           S == {k \in 0..n : Sifted(list, cutoff, k, kept[k])}
<1>1. n \in Nat /\ \A i \in 1..n : list[i] \in Bundles
  BY LenProperties, ElementOfSeq
<1>2. Retained(list, cutoff) = kept[n]
  BY Zenon DEF Retained, Keeps
<1> HIDE DEF n
<1>3. Keeps(list, cutoff, n, kept)
  BY <1>1, KeepsExists
<1> HIDE DEF kept
<1>4. /\ kept[0] = <<>>
      /\ \A k \in 0..(n - 1) :
           kept[k + 1] = IF Stays(list[k + 1], cutoff) THEN Append(kept[k], list[k + 1]) ELSE kept[k]
  <2> DEFINE value(f, i) == IF i = 0 THEN <<>>
                            ELSE IF Stays(list[i], cutoff) THEN Append(f[i - 1], list[i]) ELSE f[i - 1]
  <2>1. kept = [i \in 0..n |-> value(kept, i)]
    BY <1>3, Zenon DEF Keeps
  <2>2. \A i \in 0..n : kept[i] = value(kept, i)
    <3> HIDE DEF value
    <3> QED
      BY <2>1
  <2>3. 0 \in 0..n /\ \A k \in 0..(n - 1) : k + 1 \in 0..n /\ k + 1 # 0 /\ (k + 1) - 1 = k
    BY <1>1
  <2> QED
    BY <2>2, <2>3
<1>5. 0 \in S
  <2> DEFINE none == <<>>
             from == [j \in 1..0 |-> 0]
  <2>1. none \in Seq(Bundles) /\ Len(none) = 0 /\ \A j \in 1..0 : FALSE
    BY EmptySeq
  <2> HIDE DEF none
  <2>2. from \in [1..Len(none) -> 1..0]
    BY <2>1
  <2> HIDE DEF from
  <2>3. \A j \in 1..Len(none) : FALSE
    BY <2>1
  <2>4. Sifted(list, cutoff, 0, none)
    BY <2>1, <2>2, <2>3, Zenon DEF Sifted
  <2> QED
    BY <1>1, <1>4, <2>4 DEF none
<1>6. ASSUME NEW k \in 0..(n - 1), k \in S PROVE k + 1 \in S
  <2> DEFINE out == kept[k]
             m == Len(out)
             b == list[k + 1]
             last == k + 1
  <2>1. last \in 1..n /\ last \in 0..n /\ b \in Bundles /\ k \in Nat
    BY <1>1
  <2>2. out \in Seq(Bundles) /\ m \in Nat
    <3>1. out \in Seq(Bundles)
      BY <1>6 DEF Sifted
    <3> QED
      BY <3>1, LenProperties
  <2>3. PICK from \in [1..m -> 1..k] :
          /\ \A j \in 1..m : out[j] = list[from[j]]
          /\ \A i, j \in 1..m : i < j => from[i] < from[j]
          /\ \A i \in 1..k : Stays(list[i], cutoff) <=> \E j \in 1..m : from[j] = i
    BY <1>6 DEF Sifted
  <2>4. \A i \in 1..last : i \in 1..k \/ i = last
    BY <2>1
  <2>5. CASE ~Stays(b, cutoff)
    <3>1. kept[last] = out
      BY <1>4, <2>5
    <3>2. from \in [1..m -> 1..last]
      BY <2>1
    <3>3. \A j \in 1..m : from[j] # last
      BY <2>1
    <3>4. \A i \in 1..last : Stays(list[i], cutoff) <=> \E j \in 1..m : from[j] = i
      BY <2>3, <2>4, <2>5, <3>3
    <3>5. Sifted(list, cutoff, last, out)
      BY <2>2, <2>3, <3>2, <3>4, Zenon DEF Sifted
    <3> QED
      BY <2>1, <3>1, <3>5
  <2>6. CASE Stays(b, cutoff)
    <3> DEFINE new == Append(out, b)
               to == [j \in 1..(m + 1) |-> IF j = m + 1 THEN last ELSE from[j]]
    <3>1. kept[last] = new
      BY <1>4, <2>6
    <3>2. /\ new \in Seq(Bundles) /\ Len(new) = m + 1
          /\ new[m + 1] = b /\ \A j \in 1..m : new[j] = out[j]
      BY <2>1, <2>2, AppendProperties
    <3> HIDE DEF new, out, m, b
    <3>3. \A j \in 1..(m + 1) : j \in 1..m \/ j = m + 1
      BY <2>2
    <3>4. to \in [1..(m + 1) -> 1..last]
      BY <2>1, <2>2, <3>3
    <3>5. to[m + 1] = last /\ \A j \in 1..m : to[j] = from[j] /\ from[j] \in 1..k
      BY <2>2
    <3> HIDE DEF to
    <3>6. \A j \in 1..(m + 1) : new[j] = list[to[j]]
      BY <2>3, <3>2, <3>3, <3>5 DEF b
    <3>7. ASSUME NEW i \in 1..(m + 1), NEW j \in 1..(m + 1), i < j PROVE to[i] < to[j]
      <4>1. i \in 1..m
        BY <2>2, <3>7
      <4>2. CASE j = m + 1
        BY <2>1, <3>5, <4>1, <4>2
      <4>3. CASE j \in 1..m
        <5>1. from[i] < from[j]
          BY <2>3, <3>7, <4>1, <4>3
        <5> QED
          BY <3>5, <4>1, <4>3, <5>1
      <4> QED
        BY <3>3, <4>2, <4>3
    <3>8. \A i \in 1..last : Stays(list[i], cutoff) <=> \E j \in 1..(m + 1) : to[j] = i
      <4>1. m + 1 \in 1..(m + 1) /\ \A j \in 1..m : j \in 1..(m + 1)
        BY <2>2
      <4>2. Stays(list[last], cutoff)
        BY <2>6 DEF b
      <4>3. \A i \in 1..k : i # last
        BY <2>1
      <4> QED
        BY <2>3, <2>4, <3>3, <3>5, <4>1, <4>2, <4>3
    <3>9. Sifted(list, cutoff, last, new)
      <4>1. Len(new) = m + 1
        BY <3>2
      <4>2. new \in Seq(Bundles)
        BY <3>2
      <4> HIDE DEF last
      <4>3. /\ to \in [1..Len(new) -> 1..last]
            /\ \A j \in 1..Len(new) : new[j] = list[to[j]]
            /\ \A i, j \in 1..Len(new) : i < j => to[i] < to[j]
            /\ \A i \in 1..last : Stays(list[i], cutoff) <=> \E j \in 1..Len(new) : to[j] = i
        BY <3>4, <3>6, <3>7, <3>8, <4>1, Zenon
      <4> QED
        BY <4>2, <4>3, Zenon DEF Sifted
    <3> QED
      BY <2>1, <3>1, <3>9
  <2> QED
    BY <2>5, <2>6
<1> HIDE DEF S
<1>7. n \in S
  <2>1. \A k \in 0..(n - 1) : k \in S => k + 1 \in S
    BY <1>6
  <2>2. \A k \in 0..n : k \in S
    BY <1>1, <1>5, <2>1, CountingUp
  <2>3. n \in 0..n
    BY <1>1
  <2> QED
    BY <2>2, <2>3
<1> QED
  BY <1>2, <1>7 DEF S, n

\* The time without the fraction of a second.
WholeSeconds(t) == t - (t % Second)

LEMMA WholeSecondsBounds ==
  ASSUME NEW t \in Nat
  PROVE  /\ WholeSeconds(t) \in 0..t /\ t - WholeSeconds(t) <= Second - 1
         /\ WholeSeconds(t) <= WholeSeconds(t + 1)
<1> USE BundleAssumption DEF WholeSeconds
<1>1. t % Second \in 0..(Second - 1) /\ (t + 1) % Second \in 0..(Second - 1)
  OBVIOUS
<1>2. (t + 1) % Second <= (t % Second) + 1
  <2>1. t = Second * (t \div Second) + (t % Second)
    OBVIOUS
  <2>2. t + 1 = Second * ((t + 1) \div Second) + ((t + 1) % Second)
    OBVIOUS
  <2> QED
    BY <1>1, <2>1, <2>2
<1> QED
  BY <1>1, <1>2

\* What one owner's list looks like by the time top, in whole seconds: a chain
\* whose last bundle is current and whose others were superseded in order.
Chain(list, top) ==
  /\ list \in Seq(Bundles)
  /\ \A i \in 1..Len(list) : list[i].supersededAt = -1 <=> i = Len(list)
  /\ \A i \in 2..Len(list) : list[i].supersedes = list[i - 1].id
  /\ \A i \in 1..(Len(list) - 1) : list[i].supersededAt \in 0..top
  /\ \A i, j \in 1..(Len(list) - 1) : i < j => list[i].supersededAt <= list[j].supersededAt

\* The current bundle of a chain is its last.
LEMMA CurrentIsLast ==
  ASSUME NEW o, NEW top, Chain(byUser[o], top)
  PROVE  CurrentIndex(o) = Len(byUser[o])
<1> DEFINE list == byUser[o]
           n == Len(list)
           I == {i \in 1..n : list[i].supersededAt = -1}
<1>1. CurrentIndex(o) = IF I # {} THEN Min(I) ELSE 0
  BY Zenon DEF CurrentIndex, SelectInSeq
<1>2. n \in Nat /\ \A i \in 1..n : list[i].supersededAt = -1 <=> i = n
  BY LenProperties DEF Chain
<1> HIDE DEF n
<1>3. CASE n = 0
  BY <1>1, <1>3 DEF n
<1>4. CASE n # 0
  <2>1. I = {n}
    BY <1>2, <1>4
  <2> HIDE DEF I
  <2>2. Min(I) = n
    BY <1>2, <2>1 DEF Min
  <2> QED
    BY <1>1, <2>1, <2>2 DEF n
<1> QED
  BY <1>3, <1>4

\* Superseding the current bundle and putting its successor make a longer chain.
LEMMA ChainAppended ==
  ASSUME NEW list, NEW t \in Nat, now = t, Chain(list, WholeSeconds(t)),
         NEW b \in Bundles, b.supersededAt = -1,
         Len(list) > 0 => b.supersedes = list[Len(list)].id
  PROVE  /\ Chain(Append(Supersede(list), b), WholeSeconds(t))
         /\ Len(Append(Supersede(list), b)) = Len(list) + 1
         /\ \A i \in 1..(Len(list) - 1) : Append(Supersede(list), b)[i] = list[i]
         /\ Len(list) > 0 =>
              /\ Append(Supersede(list), b)[Len(list)].id = list[Len(list)].id
              /\ Append(Supersede(list), b)[Len(list)].supersededAt = WholeSeconds(t)
<1> DEFINE top == WholeSeconds(t)
           old == Supersede(list)
           new == Append(old, b)
           n == Len(list)
<1>1. /\ n \in Nat /\ DOMAIN list = 1..n /\ \A i \in 1..n : list[i] \in Bundles
  BY LenProperties, ElementOfSeq DEF Chain
<1>2. top \in Nat
  BY WholeSecondsBounds
<1>3. old = [i \in 1..n |-> IF list[i].supersededAt = -1 THEN [list[i] EXCEPT !.supersededAt = top] ELSE list[i]]
  BY <1>1 DEF Supersede, WholeSeconds
<1>4. \A i \in 1..n : list[i].supersededAt = -1 <=> i = n
  BY DEF Chain
<1> HIDE DEF top, n, old
<1>5. \A i \in 1..n : i # n => old[i] = list[i]
  BY <1>3, <1>4
<1>6. n > 0 => old[n] = [list[n] EXCEPT !.supersededAt = top]
  BY <1>1, <1>3, <1>4
<1>7. \A i \in 1..n : old[i] \in Bundles /\ old[i].id = list[i].id /\ old[i].supersedes = list[i].supersedes
  BY <1>1, <1>2, <1>5, <1>6 DEF Bundles
<1>8. n > 0 => old[n].supersededAt = top
  BY <1>1, <1>2, <1>6 DEF Bundles
<1>9. old \in Seq(Bundles) /\ Len(old) = n
  <2>1. old \in [1..n -> Bundles]
    BY <1>3, <1>7, Zenon
  <2> QED
    BY <1>1, <2>1, SeqDef, LenProperties
<1>10. /\ new \in Seq(Bundles) /\ Len(new) = n + 1
       /\ new[n + 1] = b /\ \A i \in 1..n : new[i] = old[i]
  BY <1>9, AppendProperties
<1> HIDE DEF new
<1>11. \A i \in 1..n : i = n \/ i \in 1..(n - 1)
  BY <1>1
<1>12. \A i \in 1..(n - 1) : i \in 1..n /\ i # n /\ new[i] = list[i]
  BY <1>1, <1>5, <1>10
<1>13. \A i \in 1..(n - 1) : new[i].supersededAt \in 0..top
  BY <1>12 DEF Chain, top, n
<1>14. n > 0 => new[n].supersededAt = top /\ n \in 1..n /\ new[n].id = list[n].id
  BY <1>1, <1>7, <1>8, <1>10
<1>15. \A i \in 1..n : new[i].supersededAt \in 0..top
  BY <1>1, <1>2, <1>11, <1>13, <1>14
<1>16. \A i \in 1..(n + 1) : new[i].supersededAt = -1 <=> i = n + 1
  BY <1>1, <1>2, <1>10, <1>15
<1>17. \A i \in 2..(n + 1) : new[i].supersedes = new[i - 1].id
  <2> SUFFICES ASSUME NEW i \in 2..(n + 1) PROVE new[i].supersedes = new[i - 1].id
    OBVIOUS
  <2>1. i - 1 \in 1..n
    BY <1>1
  <2>2. new[i - 1].id = list[i - 1].id
    BY <1>7, <1>10, <2>1
  <2>3. CASE i = n + 1
    <3>1. n > 0 /\ i - 1 = n
      BY <1>1, <2>3
    <3> QED
      BY <1>10, <2>2, <2>3, <3>1 DEF n
  <2>4. CASE i # n + 1
    <3>1. i \in 2..n /\ i \in 1..n
      BY <1>1, <2>4
    <3>2. list[i].supersedes = list[i - 1].id
      BY <3>1 DEF Chain, n
    <3> QED
      BY <1>7, <1>10, <2>2, <3>1, <3>2
  <2> QED
    BY <2>3, <2>4
<1>18. ASSUME NEW i \in 1..n, NEW j \in 1..n, i < j PROVE new[i].supersededAt <= new[j].supersededAt
  <2>1. i \in 1..(n - 1)
    BY <1>1, <1>18
  <2>2. CASE j = n
    BY <1>2, <1>14, <1>13, <1>1, <2>1, <2>2
  <2>3. CASE j \in 1..(n - 1)
    <3>1. list[i].supersededAt <= list[j].supersededAt
      BY <1>18, <2>1, <2>3 DEF Chain, n
    <3> QED
      BY <1>12, <2>1, <2>3, <3>1
  <2> QED
    BY <1>11, <2>2, <2>3
<1>19. (n + 1) - 1 = n
  BY <1>1
<1>20. Chain(new, top)
  BY <1>10, <1>15, <1>16, <1>17, <1>18, <1>19, Zenon DEF Chain
<1> QED
  BY <1>10, <1>12, <1>14, <1>20 DEF n, top, new, old

\* Pruning cuts a chain off at its old end: what stays is still a chain, and
\* all that may stay stays before its current bundle.
LEMMA ChainPruned ==
  ASSUME NEW list, NEW top \in Nat, Chain(list, top), NEW cutoff \in Int
  PROVE  /\ Chain(Retained(list, cutoff), top)
         /\ \A i \in 1..(Len(list) - 1) : list[i].supersededAt >= cutoff =>
              \E j \in 1..(Len(Retained(list, cutoff)) - 1) : Retained(list, cutoff)[j] = list[i]
<1> DEFINE out == Retained(list, cutoff)
           n == Len(list)
           m == Len(out)
<1>1. Sifted(list, cutoff, n, out)
  BY RetainedIs DEF Chain
<1>2. out \in Seq(Bundles)
  BY <1>1 DEF Sifted
<1>3. n \in Nat /\ m \in Nat /\ \A i \in 1..n : list[i] \in Bundles
  BY <1>2, LenProperties, ElementOfSeq DEF Chain
<1>4. PICK from \in [1..m -> 1..n] :
        /\ \A j \in 1..m : out[j] = list[from[j]]
        /\ \A i, j \in 1..m : i < j => from[i] < from[j]
        /\ \A i \in 1..n : Stays(list[i], cutoff) <=> \E j \in 1..m : from[j] = i
  BY <1>1 DEF Sifted
<1>5. /\ \A i \in 1..n : list[i].supersededAt = -1 <=> i = n
      /\ \A i \in 2..n : list[i].supersedes = list[i - 1].id
      /\ \A i \in 1..(n - 1) : list[i].supersededAt \in 0..top
      /\ \A i, j \in 1..(n - 1) : i < j => list[i].supersededAt <= list[j].supersededAt
  BY DEF Chain
<1> HIDE DEF n, out, m
<1>6. \A j \in 1..m : from[j] \in 1..n
  OBVIOUS
<1>7. \A i \in 1..n : i = n \/ i \in 1..(n - 1)
  BY <1>3
<1>8. ASSUME NEW i \in 1..n, NEW k \in 1..n, i < k, Stays(list[i], cutoff) PROVE Stays(list[k], cutoff)
  <2>1. i \in 1..(n - 1) /\ i # n
    BY <1>3, <1>8
  <2>2. list[i].supersededAt >= cutoff
    BY <1>5, <1>8, <2>1 DEF Stays
  <2>3. CASE k = n
    BY <1>5, <2>3 DEF Stays
  <2>4. CASE k \in 1..(n - 1)
    <3>1. list[i].supersededAt <= list[k].supersededAt
      BY <1>5, <1>8, <2>1, <2>4
    <3>2. list[i].supersededAt \in Int /\ list[k].supersededAt \in Int
      BY <1>5, <2>1, <2>4
    <3> QED
      BY <2>2, <3>1, <3>2 DEF Stays
  <2> QED
    BY <1>7, <2>3, <2>4
<1>9. ASSUME NEW j \in 1..m, j < m PROVE from[j + 1] = from[j] + 1
  <2>1. j + 1 \in 1..m /\ j < j + 1
    BY <1>3, <1>9
  <2>2. from[j] < from[j + 1]
    BY <1>4, <2>1
  <2>3. from[j] \in 1..n /\ from[j + 1] \in 1..n
    BY <1>6, <2>1
  <2>4. from[j] + 1 \in 1..n /\ from[j] < from[j] + 1
    <3>1. \A x, y \in 1..n : x < y => x + 1 \in 1..n /\ x < x + 1
      BY <1>3
    <3> QED
      BY <2>2, <2>3, <3>1, Zenon
  <2>5. Stays(list[from[j]], cutoff)
    BY <1>4, <2>3
  <2>6. Stays(list[from[j] + 1], cutoff)
    BY <1>8, <2>3, <2>4, <2>5
  <2>7. PICK k \in 1..m : from[k] = from[j] + 1
    BY <1>4, <2>4, <2>6
  <2>8. j < k
    <3>1. CASE k < j
      BY <1>4, <1>6, <2>3, <2>7, <3>1
    <3>2. CASE k = j
      BY <2>3, <2>7, <3>2
    <3> QED
      BY <1>3, <3>1, <3>2
  <2>9. CASE j + 1 < k
    <3>1. from[j + 1] < from[k]
      BY <1>4, <2>1, <2>9
    <3> QED
      BY <2>2, <2>3, <2>7, <3>1
  <2>10. CASE k = j + 1
    BY <2>7, <2>10
  <2> QED
    BY <1>3, <2>8, <2>9, <2>10
<1>10. ASSUME n > 0 PROVE m > 0 /\ from[m] = n
  <2>1. n \in 1..n
    BY <1>3, <1>10
  <2>2. Stays(list[n], cutoff)
    BY <1>5, <2>1 DEF Stays
  <2>3. PICK k \in 1..m : from[k] = n
    BY <1>4, <2>1, <2>2
  <2>4. m \in 1..m /\ m > 0
    BY <1>3
  <2>5. CASE k < m
    <3>1. from[k] < from[m]
      BY <1>4, <2>4, <2>5
    <3> QED
      BY <1>3, <1>6, <2>3, <2>4, <3>1
  <2> QED
    BY <1>3, <2>3, <2>4, <2>5
<1>11. ASSUME NEW j \in 1..m PROVE from[j] = n <=> j = m
  <2>1. n > 0 /\ m \in 1..m
    BY <1>3, <1>6
  <2>2. from[m] = n
    BY <1>10, <2>1
  <2>3. CASE j < m
    <3>1. from[j] < from[m]
      BY <1>4, <2>1, <2>3
    <3> QED
      BY <1>3, <1>6, <2>1, <2>2, <2>3, <3>1
  <2> QED
    BY <1>3, <2>2, <2>3
<1>12. \A j \in 1..(m - 1) : j \in 1..m /\ j # m /\ j < m
  BY <1>3
<1>13. \A j \in 1..(m - 1) : from[j] \in 1..(n - 1)
  BY <1>6, <1>7, <1>11, <1>12
<1>14. \A j \in 1..m : out[j].supersededAt = -1 <=> j = m
  BY <1>4, <1>5, <1>6, <1>11
<1>15. ASSUME NEW j \in 2..m PROVE out[j].supersedes = out[j - 1].id
  <2>1. j - 1 \in 1..m /\ j - 1 < m /\ j \in 1..m /\ (j - 1) + 1 = j
    BY <1>3
  <2>2. from[j] = from[j - 1] + 1
    BY <1>9, <2>1
  <2>3. from[j] \in 2..n /\ from[j] - 1 = from[j - 1]
    <3>1. \A x, y \in 1..n : y = x + 1 => y \in 2..n /\ y - 1 = x
      BY <1>3
    <3> QED
      BY <1>6, <2>1, <2>2, <3>1, Zenon
  <2> QED
    BY <1>4, <1>5, <2>1, <2>3
<1>16. \A j \in 1..(m - 1) : out[j].supersededAt \in 0..top
  BY <1>4, <1>5, <1>12, <1>13
<1>17. ASSUME NEW i \in 1..(m - 1), NEW j \in 1..(m - 1), i < j PROVE out[i].supersededAt <= out[j].supersededAt
  <2>1. from[i] < from[j]
    BY <1>4, <1>12, <1>17
  <2> QED
    BY <1>4, <1>5, <1>12, <1>13, <2>1
<1>18. Chain(out, top)
  BY <1>2, <1>14, <1>15, <1>16, <1>17 DEF Chain, m
<1>19. ASSUME NEW i \in 1..(n - 1), list[i].supersededAt >= cutoff
       PROVE  \E j \in 1..(m - 1) : out[j] = list[i]
  <2>1. i \in 1..n /\ i # n
    BY <1>3
  <2>2. PICK j \in 1..m : from[j] = i
    BY <1>4, <1>19, <2>1 DEF Stays
  <2>3. j # m
    BY <1>11, <2>1, <2>2
  <2>4. j \in 1..(m - 1)
    BY <1>3, <2>3
  <2> QED
    BY <1>4, <2>2, <2>4
<1> QED
  BY <1>18, <1>19 DEF n, m, out

\* A superseded bundle is not forgotten while its minimum retention runs: it is
\* still before the current one, superseded at its own time in whole seconds.
Remembered(s) ==
  now - s.at + (Second - 1) <= MinSupersededRetention =>
    \E i \in 1..(Len(byUser[s.owner]) - 1) :
      byUser[s.owner][i].id = s.id /\ byUser[s.owner][i].supersededAt >= s.at - (Second - 1)

Supersedings == [owner : Owners, id : BundleIds, at : Nat]

BundleTypes ==
  /\ now \in Nat
  /\ drafts \in [BackupDevices -> {NoBundle} \cup
       [owner : Owners, id : BundleIds, supersedes : BundleIds \cup {NoBundle}]]
  /\ DOMAIN byUser = Owners
  /\ superseded \in SUBSET Supersedings

BundleInv ==
  /\ BundleTypes
  /\ \A o \in Owners : Chain(byUser[o], WholeSeconds(now))
  /\ \A s \in superseded : s.at <= now /\ Remembered(s)

LEMMA BundleInitInv == now = 0 /\ BundleInit => BundleInv
<1> SUFFICES ASSUME now = 0, BundleInit PROVE BundleInv
  OBVIOUS
<1> DEFINE none == <<>>
<1>1. byUser = [o \in Owners |-> none] /\ drafts = [d \in BackupDevices |-> NoBundle] /\ superseded = {}
  BY DEF BundleInit
<1>2. none \in Seq(Bundles) /\ Len(none) = 0
  BY EmptySeq
<1> HIDE DEF none
<1>3. Chain(none, WholeSeconds(now))
  <2>1. \A i \in 1..Len(none) : FALSE
    BY <1>2
  <2>2. \A i \in 2..Len(none) : FALSE
    BY <1>2
  <2>3. \A i \in 1..(Len(none) - 1) : FALSE
    BY <1>2
  <2> QED
    BY <1>2, <2>1, <2>2, <2>3, Zenon DEF Chain
<1>4. \A o \in Owners : byUser[o] = none
  BY <1>1
<1>5. BundleTypes
  BY <1>1 DEF BundleTypes
<1> QED
  BY <1>1, <1>3, <1>4, <1>5, Zenon DEF BundleInv

\* Time only makes the bound on the times of the bundles weaker, and what must
\* be remembered less.
LEMMA BundleClock ==
  ASSUME BundleInv, now' = now + 1, UNCHANGED bundleVars
  PROVE  BundleInv'
<1>1. byUser' = byUser /\ drafts' = drafts /\ superseded' = superseded
  BY DEF bundleVars
<1>2. now \in Nat /\ now' \in Nat
  BY DEF BundleInv, BundleTypes
<1>3. \A t \in Nat : WholeSeconds(t) \in Nat /\ WholeSeconds(t) <= WholeSeconds(t + 1)
  BY WholeSecondsBounds
<1>4. WholeSeconds(now)' = WholeSeconds(now + 1)
  BY DEF WholeSeconds
<1>5. WholeSeconds(now) \in Nat /\ WholeSeconds(now)' \in Nat /\ WholeSeconds(now) <= WholeSeconds(now)'
  BY <1>2, <1>3, <1>4
<1> DEFINE late == WholeSeconds(now)'
           top == WholeSeconds(now)
<1> HIDE DEF late, top
<1>6. ASSUME NEW list, Chain(list, top) PROVE Chain(list, late)
  <2>1. \A x \in 0..top : x \in 0..late
    BY <1>5 DEF late, top
  <2> QED
    BY <1>6, <2>1 DEF Chain
<1>7. \A o \in Owners : Chain(byUser[o], late)
  BY <1>6 DEF BundleInv, top
<1>8. (\A o \in Owners : Chain(byUser[o], WholeSeconds(now)))'
  BY <1>1, <1>7 DEF late
<1>9. BundleTypes'
  BY <1>1, <1>2 DEF BundleInv, BundleTypes
<1>10. ASSUME NEW s \in superseded' PROVE (s.at <= now /\ Remembered(s))'
  <2>1. s \in superseded /\ s.at \in Nat
    BY <1>1 DEF BundleInv, BundleTypes, Supersedings
  <2>2. s.at <= now /\ Remembered(s)
    BY <2>1 DEF BundleInv
  <2>3. Second \in Nat /\ MinSupersededRetention \in Nat
    BY BundleAssumption
  <2>4. now' - s.at + (Second - 1) <= MinSupersededRetention
          => now - s.at + (Second - 1) <= MinSupersededRetention
    BY <1>2, <2>1, <2>3
  <2>5. (s.at <= now)'
    BY <1>2, <2>1, <2>2
  <2> QED
    BY <1>1, <2>2, <2>4, <2>5 DEF Remembered
<1> QED
  BY <1>8, <1>9, <1>10 DEF BundleInv

\* Every call of the store keeps the invariant.
LEMMA BundleNextInv ==
  ASSUME BundleInv, now' = now, BundleNext \/ UNCHANGED bundleVars
  PROVE  BundleInv'
<1> DEFINE top == WholeSeconds(now)
<1>0. now' = now
  OBVIOUS
<1>1. now \in Nat /\ Second \in Nat \ {0} /\ MinSupersededRetention \in Nat
  BY BundleAssumption DEF BundleInv, BundleTypes
<1>2. top \in Nat /\ top <= now /\ now - top <= Second - 1
  BY <1>1, WholeSecondsBounds
<1>3. top' = top
  BY DEF WholeSeconds
<1>4. \A o \in Owners : Chain(byUser[o], top) /\ CurrentIndex(o) = Len(byUser[o])
  BY CurrentIsLast DEF BundleInv
<1>5. \A o \in Owners : Len(byUser[o]) \in Nat
  BY <1>4, LenProperties DEF Chain
<1> HIDE DEF top
<1>6. ASSUME NEW o \in Owners PROVE GetCurrent(o) \in BundleIds \cup {NoBundle}
  <2>1. CASE CurrentIndex(o) = 0
    BY <2>1 DEF GetCurrent
  <2>2. CASE CurrentIndex(o) # 0
    <3>1. CurrentIndex(o) \in 1..Len(byUser[o])
      BY <1>4, <1>5, <2>2
    <3>2. byUser[o][CurrentIndex(o)] \in Bundles
      BY <1>4, <3>1, ElementOfSeq DEF Chain
    <3> QED
      BY <2>2, <3>2 DEF GetCurrent, Bundles
  <2> QED
    BY <2>1, <2>2
<1>7. ASSUME NEW d \in BackupDevices, NEW o \in Owners, Draft(d, o) PROVE BundleInv'
  <2>1. PICK id \in BundleIds :
          drafts' = [drafts EXCEPT ![d] = [owner |-> o, id |-> id, supersedes |-> GetCurrent(o)]]
    BY <1>7 DEF Draft
  <2>2. byUser' = byUser /\ superseded' = superseded
    BY <1>7 DEF Draft
  <2>3. BundleTypes'
    BY <1>6, <2>1, <2>2, <1>0 DEF BundleInv, BundleTypes
  <2>4. (\A x \in Owners : Chain(byUser[x], WholeSeconds(now)))'
    BY <2>2, <1>0 DEF BundleInv, WholeSeconds
  <2>5. (\A s \in superseded : s.at <= now /\ Remembered(s))'
    BY <2>2, <1>0 DEF BundleInv, Remembered
  <2> QED
    BY <2>3, <2>4, <2>5 DEF BundleInv
<1>8. ASSUME NEW o \in Owners, DeleteAll(o) PROVE BundleInv'
  <2> DEFINE none == <<>>
  <2>1. byUser' = [byUser EXCEPT ![o] = none] /\ drafts' = drafts
    BY <1>8 DEF DeleteAll
  <2>2. superseded' = {s \in superseded : s.owner # o}
    BY <1>8 DEF DeleteAll
  <2>3. Chain(none, top)
    <3>1. none \in Seq(Bundles) /\ Len(none) = 0
      BY EmptySeq
    <3> HIDE DEF none
    <3>2. \A i \in 1..Len(none) : FALSE
      BY <3>1
    <3>3. \A i \in 2..Len(none) : FALSE
      BY <3>1
    <3>4. \A i \in 1..(Len(none) - 1) : FALSE
      BY <3>1
    <3> QED
      BY <3>1, <3>2, <3>3, <3>4, Zenon DEF Chain
  <2> HIDE DEF none
  <2>4. BundleTypes'
    BY <2>1, <2>2, <1>0 DEF BundleInv, BundleTypes
  <2>5. \A x \in Owners : byUser'[x] = IF x = o THEN none ELSE byUser[x]
    BY <2>1 DEF BundleInv, BundleTypes
  <2>6. \A x \in Owners : Chain(byUser'[x], top)
    BY <1>4, <2>3, <2>5
  <2>7. ASSUME NEW s \in superseded' PROVE (s.at <= now /\ Remembered(s))'
    <3>1. s \in superseded /\ s.owner # o /\ s.owner \in Owners
      BY <2>2 DEF BundleInv, BundleTypes, Supersedings
    <3>2. byUser'[s.owner] = byUser[s.owner]
      BY <2>5, <3>1
    <3> QED
      BY <3>1, <3>2, <1>0 DEF BundleInv, Remembered
  <2> QED
    BY <1>3, <2>4, <2>6, <2>7 DEF BundleInv, top
<1>9. ASSUME NEW t \in BundleRetentions, PruneSuperseded(t) PROVE BundleInv'
  <2> DEFINE cutoff == BundleCutoff(t)
  <2>1. cutoff \in Int /\ cutoff <= now - MinSupersededRetention
    BY <1>1, BundleAssumption DEF BundleCutoff, AtLeast
  <2>2. byUser' = [o \in Owners |-> Retained(byUser[o], cutoff)]
        /\ drafts' = drafts /\ superseded' = superseded
    BY <1>9 DEF PruneSuperseded
  <2> HIDE DEF cutoff
  <2>3. \A o \in Owners :
          /\ Chain(byUser'[o], top)
          /\ \A i \in 1..(Len(byUser[o]) - 1) : byUser[o][i].supersededAt >= cutoff =>
               \E j \in 1..(Len(byUser'[o]) - 1) : byUser'[o][j] = byUser[o][i]
    <3> SUFFICES ASSUME NEW o \in Owners
                 PROVE  /\ Chain(byUser'[o], top)
                        /\ \A i \in 1..(Len(byUser[o]) - 1) : byUser[o][i].supersededAt >= cutoff =>
                             \E j \in 1..(Len(byUser'[o]) - 1) : byUser'[o][j] = byUser[o][i]
      OBVIOUS
    <3>1. byUser'[o] = Retained(byUser[o], cutoff)
      BY <2>2
    <3>2. Chain(byUser[o], top)
      BY <1>4
    <3> DEFINE list == byUser[o]
               out == Retained(list, cutoff)
    <3>3. top \in Nat /\ cutoff \in Int
      BY <1>2, <2>1
    <3> HIDE DEF list
    <3>4. Chain(list, top)
      BY <3>2 DEF list
    <3>5. /\ Chain(out, top)
          /\ \A i \in 1..(Len(list) - 1) : list[i].supersededAt >= cutoff =>
               \E j \in 1..(Len(out) - 1) : out[j] = list[i]
      BY <3>3, <3>4, ChainPruned
    <3>6. byUser'[o] = out
      BY <3>1 DEF list
    <3> HIDE DEF out
    <3> QED
      BY <3>5, <3>6, Zenon DEF list
  <2>4. BundleTypes'
    BY <2>2, <1>0 DEF BundleInv, BundleTypes
  <2>5. ASSUME NEW s \in superseded' PROVE (s.at <= now /\ Remembered(s))'
    <3>1. s \in superseded /\ s.owner \in Owners /\ s.at \in Nat
      BY <2>2 DEF BundleInv, BundleTypes, Supersedings
    <3>2. s.at <= now /\ Remembered(s)
      BY <3>1 DEF BundleInv
    <3>3. ASSUME now - s.at + (Second - 1) <= MinSupersededRetention
          PROVE  \E j \in 1..(Len(byUser'[s.owner]) - 1) :
                   byUser'[s.owner][j].id = s.id /\ byUser'[s.owner][j].supersededAt >= s.at - (Second - 1)
      <4>1. PICK i \in 1..(Len(byUser[s.owner]) - 1) :
              byUser[s.owner][i].id = s.id /\ byUser[s.owner][i].supersededAt >= s.at - (Second - 1)
        BY <3>2, <3>3 DEF Remembered
      <4>2. byUser[s.owner][i].supersededAt \in 0..top
        BY <1>4, <3>1 DEF Chain
      <4>3. byUser[s.owner][i].supersededAt >= cutoff
        <5> DEFINE x == byUser[s.owner][i].supersededAt
                   at == s.at
        <5>1. x \in Int /\ at \in Int /\ x >= at - (Second - 1)
              /\ now - at + (Second - 1) <= MinSupersededRetention
          BY <1>2, <3>1, <3>3, <4>1, <4>2
        <5> HIDE DEF x, at
        <5>2. x >= cutoff
          BY <1>1, <2>1, <5>1
        <5> QED
          BY <5>2 DEF x
      <4>4. PICK j \in 1..(Len(byUser'[s.owner]) - 1) : byUser'[s.owner][j] = byUser[s.owner][i]
        BY <2>3, <3>1, <4>3
      <4> QED
        BY <4>1, <4>4
    <3> QED
      BY <3>2, <3>3, <1>0 DEF Remembered
  <2> QED
    BY <1>3, <2>3, <2>4, <2>5 DEF BundleInv, top
<1>10. ASSUME NEW d \in BackupDevices, PutCurrent(d) PROVE BundleInv'
  <2> DEFINE draft == drafts[d]
             o == draft.owner
  <2>1. draft \in [owner : Owners, id : BundleIds, supersedes : BundleIds \cup {NoBundle}]
    BY <1>10 DEF PutCurrent, BundleInv, BundleTypes
  <2>2. o \in Owners /\ draft.id \in BundleIds /\ draft.supersedes \in BundleIds \cup {NoBundle}
    BY <2>1
  <2>3. drafts' = [drafts EXCEPT ![d] = NoBundle]
    BY <1>10 DEF PutCurrent
  <2>4. CASE UNCHANGED <<byUser, superseded>>
    <3>1. BundleTypes'
      BY <2>3, <2>4, <1>0 DEF BundleInv, BundleTypes
    <3>2. (\A x \in Owners : Chain(byUser[x], WholeSeconds(now)))'
      BY <2>4, <1>0 DEF BundleInv, WholeSeconds
    <3>3. (\A s \in superseded : s.at <= now /\ Remembered(s))'
      BY <2>4, <1>0 DEF BundleInv, Remembered
    <3> QED
      BY <3>1, <3>2, <3>3 DEF BundleInv
  <2>5. CASE /\ MaySupersede(draft)
             /\ byUser' = [byUser EXCEPT ![o] =
                  Append(Supersede(@), [id |-> draft.id, supersedes |-> draft.supersedes, supersededAt |-> -1])]
             /\ superseded' = superseded \cup
                  {[owner |-> o, id |-> id, at |-> now] : id \in {GetCurrent(o)} \ {NoBundle}}
    <3> DEFINE b == [id |-> draft.id, supersedes |-> draft.supersedes, supersededAt |-> -1]
               list == byUser[o]
               new == Append(Supersede(list), b)
    <3>1. b \in Bundles /\ b.supersededAt = -1 /\ b.supersedes = draft.supersedes
      BY <2>2 DEF Bundles
    <3>2. Chain(list, top) /\ Len(list) \in Nat /\ CurrentIndex(o) = Len(list)
      BY <1>4, <1>5, <2>2
    <3>3. GetCurrent(o) = IF Len(list) = 0 THEN NoBundle ELSE list[Len(list)].id
      BY <3>2 DEF GetCurrent
    <3>4. Len(list) > 0 => b.supersedes = list[Len(list)].id
      <4>1. draft.supersedes = GetCurrent(o)
        BY <2>5 DEF MaySupersede
      <4> HIDE DEF draft, b, list
      <4> QED
        BY <3>1, <3>3, <4>1
    <3>5. byUser' = [byUser EXCEPT ![o] = new]
      BY <2>5
    <3> HIDE DEF b
    <3>6. /\ Chain(new, top) /\ Len(new) = Len(list) + 1
          /\ \A i \in 1..(Len(list) - 1) : new[i] = list[i]
          /\ Len(list) > 0 => new[Len(list)].id = list[Len(list)].id /\ new[Len(list)].supersededAt = top
      BY <1>1, <3>1, <3>2, <3>4, ChainAppended DEF top
    <3> HIDE DEF new, draft
    <3>7. \A x \in Owners : byUser'[x] = IF x = o THEN new ELSE byUser[x]
      BY <3>5 DEF BundleInv, BundleTypes
    <3>8. \A x \in Owners : Chain(byUser'[x], top)
      BY <1>4, <3>6, <3>7
    <3>9. superseded' = superseded \cup
            {[owner |-> o, id |-> id, at |-> now] : id \in {GetCurrent(o)} \ {NoBundle}}
      BY <2>5 DEF draft
    <3>10. \A id \in {GetCurrent(o)} \ {NoBundle} : [owner |-> o, id |-> id, at |-> now] \in Supersedings
      BY <1>1, <1>6, <2>2 DEF Supersedings
    <3>11. superseded' \in SUBSET Supersedings
      BY <3>9, <3>10 DEF BundleInv, BundleTypes
    <3>12. BundleTypes'
      BY <2>3, <3>5, <3>11, <1>0 DEF BundleInv, BundleTypes
    <3>13. ASSUME NEW s \in superseded' PROVE (s.at <= now /\ Remembered(s))'
      <4>1. CASE s \in superseded
        <5>1. s.owner \in Owners
          BY <4>1 DEF BundleInv, BundleTypes, Supersedings
        <5>2. s.at <= now /\ Remembered(s)
          BY <4>1 DEF BundleInv
        <5>3. CASE s.owner = o
          <6>1. \A i \in 1..(Len(list) - 1) : i \in 1..(Len(new) - 1) /\ new[i] = list[i]
            BY <3>2, <3>6
          <6> QED
            BY <5>1, <5>2, <5>3, <6>1, <3>7, <1>0 DEF Remembered
        <5>4. CASE s.owner # o
          BY <5>1, <5>2, <5>4, <3>7, <1>0 DEF Remembered
        <5> QED
          BY <5>3, <5>4
      <4>2. CASE s = [owner |-> o, id |-> GetCurrent(o), at |-> now] /\ GetCurrent(o) # NoBundle
        <5>1. Len(list) > 0 /\ s.id = list[Len(list)].id /\ s.at = now /\ s.owner = o
          BY <3>2, <3>3, <4>2
        <5>2. Len(list) \in 1..(Len(new) - 1)
          BY <3>2, <3>6, <5>1
        <5>3. new[Len(list)].id = s.id /\ new[Len(list)].supersededAt = top
          BY <3>6, <5>1
        <5>4. top >= s.at - (Second - 1)
          BY <1>1, <1>2, <5>1
        <5>5. byUser'[s.owner] = new
          BY <2>2, <3>7, <5>1
        <5>6. \E i \in 1..(Len(new) - 1) : new[i].id = s.id /\ new[i].supersededAt >= s.at - (Second - 1)
          BY <5>2, <5>3, <5>4
        <5>7. Remembered(s)'
          BY <5>5, <5>6 DEF Remembered
        <5>8. (s.at <= now)'
          BY <1>1, <1>0, <5>1
        <5> QED
          BY <5>7, <5>8
      <4> QED
        BY <3>9, <4>1, <4>2
    <3> QED
      BY <1>3, <3>8, <3>12, <3>13 DEF BundleInv, top
  <2> QED
    BY <1>10, <2>4, <2>5 DEF PutCurrent
<1>11. CASE UNCHANGED bundleVars
  <2>1. byUser' = byUser /\ drafts' = drafts /\ superseded' = superseded
    BY <1>11 DEF bundleVars
  <2>2. BundleTypes'
    BY <2>1, <1>0 DEF BundleInv, BundleTypes
  <2>3. (\A x \in Owners : Chain(byUser[x], WholeSeconds(now)))'
    BY <2>1, <1>0 DEF BundleInv, WholeSeconds
  <2>4. (\A s \in superseded : s.at <= now /\ Remembered(s))'
    BY <2>1, <1>0 DEF BundleInv, Remembered
  <2> QED
    BY <2>2, <2>3, <2>4 DEF BundleInv
<1> QED
  BY <1>7, <1>8, <1>9, <1>10, <1>11 DEF BundleNext

\* putCurrent, deleteAll and pruneSuperseded: however the devices of an account
\* overlap, its bundles form one chain with one current bundle, and what was
\* current within the minimum retention is still there.
THEOREM BundlesKeptHolds == Spec => []BundlesKept
<1>1. Init => BundleInv
  BY BundleInitInv DEF Init
<1>2. BundleInv /\ [Next]_vars => BundleInv'
  <2> SUFFICES ASSUME BundleInv, [Next]_vars PROVE BundleInv'
    OBVIOUS
  <2>1. CASE Advance(MaxTime[part]) /\ UNCHANGED bundleVars
    BY <2>1, BundleClock DEF Advance
  <2>2. CASE now' = now /\ (BundleNext \/ UNCHANGED bundleVars)
    BY <2>2, BundleNextInv
  <2> QED
    BY <2>1, <2>2 DEF Next, vars
<1>3. BundleInv => BundlesKept
  <2> SUFFICES ASSUME BundleInv PROVE BundlesKept
    OBVIOUS
  <2>1. ASSUME NEW o \in Owners, NEW i \in DOMAIN byUser[o]
        PROVE  /\ byUser[o][i].supersededAt = -1 <=> i = Len(byUser[o])
               /\ i > 1 => byUser[o][i].supersedes = byUser[o][i - 1].id
    <3>1. Chain(byUser[o], WholeSeconds(now))
      BY DEF BundleInv
    <3>2. Len(byUser[o]) \in Nat /\ i \in 1..Len(byUser[o])
      BY <3>1, LenProperties DEF Chain
    <3>3. i > 1 => i \in 2..Len(byUser[o])
      BY <3>2
    <3> QED
      BY <3>1, <3>2, <3>3 DEF Chain
  <2>2. ASSUME NEW s \in superseded, now - s.at + (Second - 1) <= MinSupersededRetention
        PROVE  \E i \in DOMAIN byUser[s.owner] : byUser[s.owner][i].id = s.id
    <3>1. s.owner \in Owners /\ Remembered(s)
      BY DEF BundleInv, BundleTypes, Supersedings
    <3>2. byUser[s.owner] \in Seq(Bundles)
      BY <3>1 DEF BundleInv, Chain
    <3>3. PICK i \in 1..(Len(byUser[s.owner]) - 1) : byUser[s.owner][i].id = s.id
      BY <2>2, <3>1 DEF Remembered
    <3>4. i \in DOMAIN byUser[s.owner]
      BY <3>2, <3>3, LenProperties
    <3> QED
      BY <3>3, <3>4
  <2> QED
    BY <2>1, <2>2 DEF BundlesKept
<1> QED
  BY <1>1, <1>2, <1>3, PTL DEF Spec
=============================================================================
