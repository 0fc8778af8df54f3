------------------------------ MODULE Closure ------------------------------
(***************************************************************************)
(* Closing accounts: the driver of src/src/closure/driver.ts over the      *)
(* store of src/src/closure/store.ts.                                      *)
(*                                                                         *)
(* The store's methods run at the moment they are called and the driver    *)
(* awaits each: submit of a request is one action, submit of a cancel is   *)
(* getPending and, later, deletePending, and a tick is duePending and then *)
(* putFinalized and deletePending for one account after the other. Any     *)
(* call may run in between. A durable store may reject a call, which ends  *)
(* the driver's call where it is. Only verified records reach submit.      *)
(***************************************************************************)
EXTENDS ServerClock

CONSTANTS
  Users,              \* accounts, as numbers in the order of user_id
  ClosureRequests,    \* verified records of step "request"
  NoRequest,          \* null
  Cancels,            \* submit calls of step "cancel" that may be pending
  ClosureTicks,       \* tick calls that may be pending
  MinGracePeriod, MaxGracePeriod,
  MinClosureRetention,
  PruneRetentions,    \* what the operator passes to pruneFinalized
  MaxClosureFailures  \* bound: store calls that reject

ASSUME ClosureAssumption ==
  /\ Users \subseteq Nat \ {0}
  /\ \A q \in ClosureRequests : q.user \in Users /\ q.requested_at \in Int /\ q.grace \in Nat
  /\ NoRequest \notin ClosureRequests
  /\ MinClosureRetention \in Nat /\ PruneRetentions \subseteq Nat
  /\ MaxClosureFailures \in Nat

VARIABLES
  pending,       \* user -> request, or NoRequest
  finalized,     \* user -> time, or -1
  submitted,     \* requests that were submitted
  cancels,       \* per cancel call: its user while it awaits getPending, or 0
  ticks,         \* per tick call: its time, what is still due, what it just finalized
  closureFailures,
  accepted,      \* history: requests that were accepted
  canceled,      \* history: requests that an accepted cancel removed
  listed,        \* history: those that a tick had already listed then
  completed,     \* history: requests a tick finalized
  closedOnce     \* history: users that were ever finalized

closureHistory == <<accepted, canceled, listed, completed, closedOnce>>
closureVars == <<pending, finalized, submitted, cancels, ticks, closureFailures, closureHistory>>

IdleTick == [time |-> 0, due |-> {}, done |-> NoRequest]

ClosureInit ==
  /\ pending = [u \in Users |-> NoRequest]
  /\ finalized = [u \in Users |-> -1]
  /\ submitted = {} /\ accepted = {} /\ canceled = {} /\ listed = {} /\ completed = {}
  /\ closedOnce = {}
  /\ cancels = [c \in Cancels |-> 0]
  /\ ticks = [t \in ClosureTicks |-> IdleTick]
  /\ closureFailures = 0

ValidateClosureRecord(q) == q.grace \in MinGracePeriod..MaxGracePeriod

FinalizationAt(q) == q.requested_at + q.grace

-----------------------------------------------------------------------------
(* submit *)

\* putPending inserts the request, or throws because one is pending.
SubmitRequest(q) ==
  /\ q \notin submitted
  /\ ValidateClosureRecord(q)
  /\ submitted' = submitted \cup {q}
  /\ \/ /\ pending[q.user] = NoRequest
        /\ pending' = [pending EXCEPT ![q.user] = q]
        /\ accepted' = accepted \cup {q}
     \/ pending[q.user] # NoRequest /\ UNCHANGED <<pending, accepted>>
  /\ UNCHANGED <<finalized, cancels, ticks, closureFailures, canceled, listed, completed, closedOnce>>

\* A request is pending; without one the call returns not_pending.
SubmitCancel(c, u) ==
  /\ cancels[c] = 0
  /\ pending[u] # NoRequest
  /\ cancels' = [cancels EXCEPT ![c] = u]
  /\ UNCHANGED <<pending, finalized, submitted, ticks, closureFailures, closureHistory>>

Listed(q) == \E t \in ClosureTicks : q \in ticks[t].due \/ q = ticks[t].done

\* Mutant: the call answers accepted and leaves the request.
CancelDeletesKeeps(c) ==
  LET u == cancels[c] IN
  /\ u # 0
  /\ canceled' = canceled \cup ({pending[u]} \ {NoRequest})
  /\ listed' = listed \cup {q \in {pending[u]} : Listed(q)}
  /\ cancels' = [cancels EXCEPT ![c] = 0]
  /\ UNCHANGED <<pending, finalized, submitted, ticks, closureFailures, accepted, completed, closedOnce>>

\* deletePending, whatever is pending now; the call answers accepted.
CancelDeletes(c) ==
  LET u == cancels[c] IN
  /\ u # 0
  /\ pending' = [pending EXCEPT ![u] = NoRequest]
  /\ canceled' = canceled \cup ({pending[u]} \ {NoRequest})
  /\ listed' = listed \cup {q \in {pending[u]} : Listed(q)}
  /\ cancels' = [cancels EXCEPT ![c] = 0]
  /\ UNCHANGED <<finalized, submitted, ticks, closureFailures, accepted, completed, closedOnce>>

-----------------------------------------------------------------------------
(* tick *)

\* Mutant: only a request that falls due at this very moment.
DueExactly(u) == pending[u] # NoRequest /\ now = FinalizationAt(pending[u])

Due(u) == pending[u] # NoRequest /\ now >= FinalizationAt(pending[u])

ClosureTickBegin(t) ==
  /\ ticks[t] = IdleTick
  /\ \E u \in Users : Due(u)
  /\ ticks' = [ticks EXCEPT ![t] =
       [time |-> now, due |-> {pending[u] : u \in {x \in Users : Due(x)}}, done |-> NoRequest]]
  /\ UNCHANGED <<pending, finalized, submitted, cancels, closureFailures, closureHistory>>

\* The next of the listed requests, in the order of user_id: isFinalizable has
\* the condition of duePending and the same time, so none is skipped.
NextDue(t) == {q \in ticks[t].due : \A p \in ticks[t].due : q.user <= p.user}

\* Mutant: the request is deleted first, and the account finalized only if
\* the call is still there to do it.
TickFinalizesLate(t) ==
  /\ ticks[t].done = NoRequest
  /\ \E q \in NextDue(t) :
     \/ /\ pending[q.user] = q
        /\ pending' = [pending EXCEPT ![q.user] = NoRequest]
        /\ UNCHANGED <<finalized, ticks, completed, closedOnce>>
     \/ /\ pending[q.user] # q
        /\ finalized' = [finalized EXCEPT ![q.user] = ticks[t].time]
        /\ completed' = completed \cup {q}
        /\ closedOnce' = closedOnce \cup {q.user}
        /\ ticks' = [ticks EXCEPT ![t].done = q, ![t].due = @ \ {q}]
        /\ UNCHANGED pending
  /\ UNCHANGED <<submitted, cancels, closureFailures, accepted, canceled, listed>>

TickFinalizes(t) ==
  /\ ticks[t].done = NoRequest
  /\ \E q \in NextDue(t) :
       /\ finalized' = [finalized EXCEPT ![q.user] = ticks[t].time]
       /\ completed' = completed \cup {q}
       /\ closedOnce' = closedOnce \cup {q.user}
       /\ ticks' = [ticks EXCEPT ![t].done = q, ![t].due = @ \ {q}]
  /\ UNCHANGED <<pending, submitted, cancels, closureFailures, accepted, canceled, listed>>

TickDeletes(t) ==
  LET q == ticks[t].done IN
  /\ q # NoRequest
  /\ pending' = [pending EXCEPT ![q.user] = NoRequest]
  /\ ticks' = [ticks EXCEPT ![t] =
       IF @.due = {} THEN IdleTick ELSE [@ EXCEPT !.done = NoRequest]]
  /\ UNCHANGED <<finalized, submitted, cancels, closureFailures, closureHistory>>

-----------------------------------------------------------------------------

\* A store call rejects: the driver's call throws and what it still had to do
\* is left to a later tick.
ClosureStoreRejects ==
  /\ closureFailures < MaxClosureFailures
  /\ closureFailures' = closureFailures + 1
  /\ \/ \E t \in ClosureTicks :
          /\ ticks[t] # IdleTick
          /\ ticks' = [ticks EXCEPT ![t] = IdleTick]
          /\ UNCHANGED cancels
     \/ \E c \in Cancels :
          /\ cancels[c] # 0
          /\ cancels' = [cancels EXCEPT ![c] = 0]
          /\ UNCHANGED ticks
  /\ UNCHANGED <<pending, finalized, submitted, closureHistory>>

\* A retention below the minimum is raised to it.
PruneFinalized(retainFor) ==
  LET cutoff == now - AtLeast(retainFor, MinClosureRetention) IN
  /\ \E u \in Users : finalized[u] # -1 /\ finalized[u] < cutoff
  /\ finalized' = [u \in Users |-> IF finalized[u] < cutoff THEN -1 ELSE finalized[u]]
  /\ UNCHANGED <<pending, submitted, cancels, ticks, closureFailures, closureHistory>>

ClosureTickStep(t) == ClosureTickBegin(t) \/ TickFinalizes(t) \/ TickDeletes(t)

ClosureNext ==
  \/ \E q \in ClosureRequests : SubmitRequest(q)
  \/ \E c \in Cancels : CancelDeletes(c) \/ \E u \in Users : SubmitCancel(c, u)
  \/ \E t \in ClosureTicks : ClosureTickStep(t)
  \/ ClosureStoreRejects
  \/ \E d \in PruneRetentions : PruneFinalized(d)

\* The operator keeps calling tick and the store's promises settle.
ClosureFairness == WF_closureVars(\E t \in ClosureTicks : ClosureTickStep(t))

-----------------------------------------------------------------------------
(* Properties *)

\* An accepted request is never lost between its stores: it is pending until a
\* cancel removes it or its account is closed, although ticks overlap and a
\* tick may stop between putFinalized and deletePending.
RequestKept ==
  \A q \in accepted : pending[q.user] = q \/ q \in canceled \/ q.user \in closedOnce

\* A request that a cancel removed is not finalized later, unless a tick had
\* listed it before the cancel.
CancelHonoured ==
  [][\A q \in canceled \ listed : q \in completed' => q \in completed]_closureVars

\* A pending request does not stay: it is canceled, or its account is closed
\* (RequestKept). A failing store only delays it.
ClosureCompletes == \A u \in Users : pending[u] # NoRequest ~> pending[u] = NoRequest
=============================================================================
