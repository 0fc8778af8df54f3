----------------------------- MODULE Scheduler -----------------------------
(***************************************************************************)
(* The sending-side delivery scheduler: src/src/delivery/scheduler.ts with *)
(* queue.ts and retry.ts.                                                  *)
(*                                                                         *)
(* The class is single-threaded, but every method awaits: the code between *)
(* two awaits is one action here, and any other pending call may run in    *)
(* between. A store call takes effect when it is made (as in               *)
(* InMemorySchedulerStore); its caller resumes in a later action. Reads    *)
(* return copies, so a call keeps working on what it read.                 *)
(***************************************************************************)
EXTENDS Retry, Sequences, FiniteSets

CONSTANTS
  Envelopes,        \* envelope ids, numbers so that they have an order
  Recipients,       \* recipient addresses
  ReasonCodes,      \* reason codes a rejecting peer may answer with
  Expiries,         \* values of postmark.expires at enqueue
  Retention,        \* argument of pruneTerminal
  Enqueuers, Cancelers, Pruners,  \* calls that may be pending at once
  ExclusiveCalls,   \* TRUE: callers never overlap two calls on the scheduler
  NoRecord,         \* the store's null
  MaxTime,          \* bound: the clock stops here
  LastEnqueue,      \* bound: no enqueue after this time
  MaxPutFailures,   \* bound: store writes that reject
  MaxCrashes        \* bound: restarts of the process (the store survives)

NoTime == -1
TerminalStates == {"delivered", "rejected", "expired", "canceled"}
Keys == Envelopes \X Recipients

\* QueueState (queue.ts). last_reason_code is left out: no decision reads it.
QueueState ==
  [envelope_id : Envelopes, recipient : Recipients,
   state : {"queued"} \cup TerminalStates, attempts : Nat,
   last_attempt_at : Int, last_outcome : {"none", "delivered", "rejected", "silent"},
   next_attempt_at : Int, deadline : Int, terminal_at : Int]

ASSUME SchedulerAssumption ==
  /\ Envelopes \subseteq Nat
  /\ Expiries \subseteq Int
  /\ Retention \in Nat
  /\ ExclusiveCalls \in BOOLEAN
  /\ MaxTime \in Nat /\ LastEnqueue \in Nat
  /\ MaxPutFailures \in Nat /\ MaxCrashes \in Nat

ASSUME NoRecordAssumption == NoRecord \notin QueueState

VARIABLES
  now,          \* the wall clock nowFn() reads
  records,      \* the store: key -> QueueState or NoRecord
  tickPc,       \* "idle", "loop" or "delivering"; not idle = tickInFlight
  tickNow,      \* tick's `now`, read once when the tick starts
  due,          \* tick's copies of the due records still to be processed
  cur,          \* the copy whose deliver() is awaited, as a set of 0 or 1
  enqs,         \* per enqueue call: the record to insert, a set of 0 or 1
  cancels,      \* per cancel call: copies still to cancel, key to announce
  prunes,       \* per prune call: keys still to delete
  events,       \* history: terminal events emitted per record lifetime
  accepted,     \* history: keys whose deliver() answered delivered
  putFailures, crashes

vars == <<now, records, tickPc, tickNow, due, cur, enqs, cancels, prunes,
          events, accepted, putFailures, crashes>>

KeyOf(q) == <<q.envelope_id, q.recipient>>
IsTerminal(q) == q.state # "queued"
Queued(k) == records[k] # NoRecord /\ ~IsTerminal(records[k])
Terminal(k) == records[k] # NoRecord /\ IsTerminal(records[k])

IdleCancel == [todo |-> {}, pending |-> {}, now |-> 0]
CallsIdle ==
  /\ tickPc = "idle"
  /\ \A e \in Enqueuers : enqs[e] = {}
  /\ \A c \in Cancelers : cancels[c] = IdleCancel
  /\ \A p \in Pruners : prunes[p] = {}

Init ==
  /\ now = 0
  /\ records = [k \in Keys |-> NoRecord]
  /\ tickPc = "idle" /\ tickNow = 0 /\ due = {} /\ cur = {}
  /\ enqs = [e \in Enqueuers |-> {}]
  /\ cancels = [c \in Cancelers |-> IdleCancel]
  /\ prunes = [p \in Pruners |-> {}]
  /\ events = [k \in Keys |-> <<>>]
  /\ accepted = {}
  /\ putFailures = 0 /\ crashes = 0

-----------------------------------------------------------------------------
(* Helpers of the class and of queue.ts *)

\* setTerminal: never overrides a terminal state of the copy it is given.
SetTerminal(q, state, t) ==
  IF IsTerminal(q) THEN q
  ELSE [q EXCEPT !.state = state, !.next_attempt_at = NoTime, !.terminal_at = t]

\* emit: the sink is told "delivered" or, for every other end, "rejected".
EventStatus(q) == IF q.state = "delivered" THEN "delivered" ELSE "rejected"

\* The order in which dueRecords sorts: next_attempt_at, then envelope_id.
Before(p, q) ==
  \/ p.next_attempt_at < q.next_attempt_at
  \/ p.next_attempt_at = q.next_attempt_at /\ p.envelope_id < q.envelope_id

First(S) == {q \in S : \A p \in S : ~Before(p, q)}

DueRecords(t) ==
  {records[k] : k \in {k \in Keys : Queued(k) /\ records[k].next_attempt_at <= t}}

\* store.put succeeds, or rejects and leaves the store as it was.
PutOk(q) ==
  /\ records' = [records EXCEPT ![KeyOf(q)] = q]
  /\ UNCHANGED putFailures
PutRejects ==
  /\ putFailures < MaxPutFailures
  /\ putFailures' = putFailures + 1
  /\ UNCHANGED records

-----------------------------------------------------------------------------
(* enqueue *)

NewRecord(k, expires) ==
  [envelope_id |-> k[1], recipient |-> k[2], state |-> "queued", attempts |-> 0,
   last_attempt_at |-> NoTime, last_outcome |-> "none",
   next_attempt_at |-> now, deadline |-> EffectiveDeadline(expires, now),
   terminal_at |-> NoTime]

\* Up to `await store.get`; an existing record makes the call throw.
EnqueueBegin(e, k, expires) ==
  /\ enqs[e] = {}
  /\ records[k] = NoRecord
  /\ enqs' = [enqs EXCEPT ![e] = {NewRecord(k, expires)}]
  /\ UNCHANGED <<now, records, tickPc, tickNow, due, cur, cancels, prunes,
                 events, accepted, putFailures, crashes>>

\* After the get: the insert, without another look at the store.
EnqueuePut(e) ==
  /\ \E q \in enqs[e] : PutOk(q) \/ PutRejects
  /\ enqs' = [enqs EXCEPT ![e] = {}]
  /\ UNCHANGED <<now, tickPc, tickNow, due, cur, cancels, prunes, events,
                 accepted, crashes>>

-----------------------------------------------------------------------------
(* tick *)

\* The latch, the clock read and the dueRecords read.
TickBegin ==
  /\ tickPc = "idle"
  /\ tickPc' = "loop"
  /\ tickNow' = now
  /\ due' = DueRecords(now)
  /\ UNCHANGED <<now, records, cur, enqs, cancels, prunes, events, accepted,
                 putFailures, crashes>>

\* Mutant: transitionExpired without its emit.
TickExpireSilent ==
  /\ tickPc = "loop"
  /\ \E q \in First(due) :
       /\ tickNow >= q.deadline
       /\ PutOk(SetTerminal(q, "expired", tickNow)) \/ PutRejects
       /\ due' = due \ {q}
  /\ UNCHANGED <<now, tickPc, tickNow, cur, enqs, cancels, prunes, events, accepted, crashes>>

\* The next record is past its deadline: expire, emit, put. A rejected put is
\* caught, after the event has gone out.
TickExpire ==
  /\ tickPc = "loop"
  /\ \E q \in First(due) :
       /\ tickNow >= q.deadline
       /\ LET x == SetTerminal(q, "expired", tickNow) IN
            /\ events' = [events EXCEPT ![KeyOf(q)] = Append(@, EventStatus(x))]
            /\ PutOk(x) \/ PutRejects
       /\ due' = due \ {q}
  /\ UNCHANGED <<now, tickPc, tickNow, cur, enqs, cancels, prunes, accepted, crashes>>

\* The next record is attempted: deliver() is called and awaited.
TickAttempt ==
  /\ tickPc = "loop"
  /\ \E q \in First(due) :
       /\ tickNow < q.deadline
       /\ cur' = {q}
       /\ due' = due \ {q}
  /\ tickPc' = "delivering"
  /\ UNCHANGED <<now, records, tickNow, enqs, cancels, prunes, events, accepted,
                 putFailures, crashes>>

AttemptResults ==
  {[status |-> "delivered", reasonCode |-> ""], [status |-> "silent", reasonCode |-> ""]}
  \cup {[status |-> "rejected", reasonCode |-> c] : c \in ReasonCodes}

\* The copy with the attempt's bookkeeping, before its transition.
Attempted(q, res) ==
  [q EXCEPT !.attempts = @ + 1, !.last_attempt_at = tickNow, !.last_outcome = res.status]

\* Mutant: the next attempt is not compared with the deadline.
AfterAttemptNoDeadline(q, res) ==
  LET a == Attempted(q, res) IN
  IF res.status = "delivered" THEN {SetTerminal(a, "delivered", tickNow)}
  ELSE IF res.status = "rejected" /\ ~IsRecoverableReason(res.reasonCode)
  THEN {SetTerminal(a, "rejected", tickNow)}
  ELSE {[a EXCEPT !.next_attempt_at = next] : next \in NextAttemptTimes(tickNow, q.attempts)}

\* runAttempt after deliver() answers: every record it may leave behind. The
\* catch around nextAttemptAt is never taken: it is given the clock's time, a
\* base of at least the smallest interval, and the default random source.
AfterAttempt(q, res) ==
  LET a == Attempted(q, res) IN
  IF res.status = "delivered" THEN {SetTerminal(a, "delivered", tickNow)}
  ELSE IF res.status = "rejected" /\ ~IsRecoverableReason(res.reasonCode)
  THEN {SetTerminal(a, "rejected", tickNow)}
  ELSE {IF next > q.deadline THEN SetTerminal(a, "expired", tickNow)
        ELSE [a EXCEPT !.next_attempt_at = next] :
          next \in NextAttemptTimes(tickNow, q.attempts)}

\* Mutant: tick without the put that follows runAttempt.
TickDeliveredUnsaved(res) ==
  /\ tickPc = "delivering"
  /\ \E q \in cur : \E x \in AfterAttempt(q, res) :
       /\ events' = IF IsTerminal(x)
                    THEN [events EXCEPT ![KeyOf(q)] = Append(@, EventStatus(x))]
                    ELSE events
       /\ accepted' = IF res.status = "delivered" THEN accepted \cup {KeyOf(q)} ELSE accepted
  /\ tickPc' = "loop"
  /\ cur' = {}
  /\ UNCHANGED <<now, records, tickNow, due, enqs, cancels, prunes, putFailures, crashes>>

\* deliver() answers: transition, emit on a terminal state, put.
TickDelivered(res) ==
  /\ tickPc = "delivering"
  /\ \E q \in cur : \E x \in AfterAttempt(q, res) :
       /\ events' = IF IsTerminal(x)
                    THEN [events EXCEPT ![KeyOf(q)] = Append(@, EventStatus(x))]
                    ELSE events
       /\ accepted' = IF res.status = "delivered" THEN accepted \cup {KeyOf(q)} ELSE accepted
       /\ PutOk(x) \/ PutRejects
  /\ tickPc' = "loop"
  /\ cur' = {}
  /\ UNCHANGED <<now, tickNow, due, enqs, cancels, prunes, crashes>>

\* Mutant: the throw leaves tick with the latch still set.
TickDeliverThrowsLatched ==
  /\ tickPc = "delivering"
  /\ tickPc' = "latched"
  /\ cur' = {}
  /\ UNCHANGED <<now, records, tickNow, due, enqs, cancels, prunes, events,
                 accepted, putFailures, crashes>>

\* deliver() throws: caught, the stored record stays as it is.
TickDeliverThrows ==
  /\ tickPc = "delivering"
  /\ tickPc' = "loop"
  /\ cur' = {}
  /\ UNCHANGED <<now, records, tickNow, due, enqs, cancels, prunes, events,
                 accepted, putFailures, crashes>>

TickEnd ==
  /\ tickPc = "loop"
  /\ due = {}
  /\ tickPc' = "idle" /\ tickNow' = 0
  /\ UNCHANGED <<now, records, due, cur, enqs, cancels, prunes, events,
                 accepted, putFailures, crashes>>

-----------------------------------------------------------------------------
(* cancel and cancelEnvelope *)

\* cancel: up to `await store.get`. A missing or terminal record ends the call.
CancelBegin(c, k) ==
  /\ cancels[c] = IdleCancel
  /\ Queued(k)
  /\ cancels' = [cancels EXCEPT ![c] = [todo |-> {records[k]}, pending |-> {}, now |-> now]]
  /\ UNCHANGED <<now, records, tickPc, tickNow, due, cur, enqs, prunes, events,
                 accepted, putFailures, crashes>>

\* cancelEnvelope enumerates through dueRecords(now + 2 * horizon).
EnvelopeMatches(envelopeId) ==
  {q \in DueRecords(now + 2 * CfgHorizon) : q.envelope_id = envelopeId}

CancelEnvelopeBegin(c, envelopeId) ==
  /\ cancels[c] = IdleCancel
  /\ EnvelopeMatches(envelopeId) # {}
  /\ cancels' = [cancels EXCEPT ![c] =
                   [todo |-> EnvelopeMatches(envelopeId), pending |-> {}, now |-> now]]
  /\ UNCHANGED <<now, records, tickPc, tickNow, due, cur, enqs, prunes, events,
                 accepted, putFailures, crashes>>

\* The emit that follows an awaited put.
Announced(c) ==
  [k \in Keys |-> IF k \in cancels[c].pending THEN Append(events[k], "rejected") ELSE events[k]]

\* One iteration: announce the record just put, then put the next copy. A
\* rejected put ends the call with the rest untouched.
CancelPut(c) ==
  /\ \E q \in First(cancels[c].todo) :
       \/ /\ PutOk(SetTerminal(q, "canceled", cancels[c].now))
          /\ cancels' = [cancels EXCEPT ![c] =
               [todo |-> @.todo \ {q}, pending |-> {KeyOf(q)}, now |-> @.now]]
       \/ /\ PutRejects
          /\ cancels' = [cancels EXCEPT ![c] = IdleCancel]
  /\ events' = Announced(c)
  /\ UNCHANGED <<now, tickPc, tickNow, due, cur, enqs, prunes, accepted, crashes>>

CancelEnd(c) ==
  /\ cancels[c].todo = {}
  /\ cancels[c].pending # {}
  /\ events' = Announced(c)
  /\ cancels' = [cancels EXCEPT ![c] = IdleCancel]
  /\ UNCHANGED <<now, records, tickPc, tickNow, due, cur, enqs, prunes, accepted,
                 putFailures, crashes>>

-----------------------------------------------------------------------------
(* pruneTerminal, the clock, restarts *)

\* Mutant: listTerminalOlderThan forgets that queued records are not terminal.
StaleKeysAny == {k \in Keys : records[k] # NoRecord /\ records[k].terminal_at <= now - Retention}

StaleKeys == {k \in Keys : Terminal(k) /\ records[k].terminal_at <= now - Retention}

PruneBegin(p) ==
  /\ prunes[p] = {}
  /\ StaleKeys # {}
  /\ prunes' = [prunes EXCEPT ![p] = StaleKeys]
  /\ UNCHANGED <<now, records, tickPc, tickNow, due, cur, enqs, cancels, events,
                 accepted, putFailures, crashes>>

\* A delete ends the record's lifetime, and with it the two histories.
PruneDelete(p) ==
  /\ \E k \in prunes[p] :
       /\ records' = [records EXCEPT ![k] = NoRecord]
       /\ prunes' = [prunes EXCEPT ![p] = @ \ {k}]
       /\ events' = [events EXCEPT ![k] = <<>>]
       /\ accepted' = accepted \ {k}
  /\ UNCHANGED <<now, tickPc, tickNow, due, cur, enqs, cancels, putFailures, crashes>>

Clock ==
  /\ now < MaxTime
  /\ now' = now + 1
  /\ UNCHANGED <<records, tickPc, tickNow, due, cur, enqs, cancels, prunes, events,
                 accepted, putFailures, crashes>>

\* The process restarts on a durable store: pending calls and the latch go.
Crash ==
  /\ crashes < MaxCrashes
  /\ crashes' = crashes + 1
  /\ tickPc' = "idle" /\ tickNow' = 0 /\ due' = {} /\ cur' = {}
  /\ enqs' = [e \in Enqueuers |-> {}]
  /\ cancels' = [c \in Cancelers |-> IdleCancel]
  /\ prunes' = [p \in Pruners |-> {}]
  /\ UNCHANGED <<now, records, events, accepted, putFailures>>

-----------------------------------------------------------------------------

\* A call the environment starts; ExclusiveCalls is the caller's discipline.
MayCall == ExclusiveCalls => CallsIdle

TickStep ==
  \/ TickExpire
  \/ TickAttempt
  \/ \E res \in AttemptResults : TickDelivered(res)
  \/ TickDeliverThrows
  \/ TickEnd

CallStep ==
  \/ \E e \in Enqueuers : EnqueuePut(e)
  \/ \E c \in Cancelers : CancelPut(c) \/ CancelEnd(c)
  \/ \E p \in Pruners : PruneDelete(p)

NewCall ==
  /\ MayCall
  /\ \/ TickBegin
     \/ \E e \in Enqueuers, k \in Keys, x \in Expiries :
          now <= LastEnqueue /\ EnqueueBegin(e, k, x)
     \/ \E c \in Cancelers, k \in Keys : CancelBegin(c, k)
     \/ \E c \in Cancelers, v \in Envelopes : CancelEnvelopeBegin(c, v)
     \/ \E p \in Pruners : PruneBegin(p)

Next == NewCall \/ TickStep \/ CallStep \/ Clock \/ Crash

Spec == Init /\ [][Next]_vars

\* The operator's timer keeps calling tick, promises settle, time passes.
Fairness ==
  /\ WF_vars(MayCall /\ TickBegin) /\ WF_vars(TickStep) /\ WF_vars(CallStep) /\ WF_vars(Clock)

FairSpec == Spec /\ Fairness

-----------------------------------------------------------------------------
(* Properties *)

\* Every variable has its type: the store and the copies the calls hold are
\* queue-state records.
TypeOK ==
  /\ now \in Nat /\ tickNow \in Nat
  /\ records \in [Keys -> QueueState \cup {NoRecord}]
  /\ tickPc \in {"idle", "loop", "delivering"}
  /\ due \in SUBSET QueueState /\ cur \in SUBSET QueueState
  /\ enqs \in [Enqueuers -> SUBSET QueueState]
  /\ cancels \in [Cancelers -> [todo : SUBSET QueueState, pending : SUBSET Keys, now : Nat]]
  /\ prunes \in [Pruners -> SUBSET Keys]
  /\ events \in [Keys -> Seq({"delivered", "rejected"})]
  /\ accepted \in SUBSET Keys
  /\ putFailures \in Nat /\ crashes \in Nat

\* A record that waits for a retry: at least the jitter floor after its last
\* attempt, and not past its deadline (runAttempt's expire-instead rule).
InWindow(q) ==
  ~IsTerminal(q) /\ q.attempts > 0 =>
    q.last_attempt_at + MinJitterFloor <= q.next_attempt_at /\ q.next_attempt_at <= q.deadline

\* Whatever stale copies overlapping calls write back, no stored record is
\* ever scheduled as a hot retry or past its deadline.
RetryWindow == \A k \in Keys : records[k] # NoRecord => InWindow(records[k])

\* A record in the store is terminal only if its client has been sent an event
\* for it or some cancel call is about to send it (put first, emit after the
\* await), as long as the process was not stopped in between.
TerminalAnnounced ==
  crashes = 0 =>
    \A k \in Keys : Terminal(k) =>
      events[k] # <<>> \/ \E c \in Cancelers : k \in cancels[c].pending

\* A client is never left with a failure, or with nothing, for an envelope
\* whose deliver() answered delivered (restarts between calls included).
NeverDeniesDelivery ==
  \A k \in Keys : k \in accepted =>
    records[k].state = "delivered" /\ events[k] = <<"delivered">>

\* setTerminal's rule "MUST NOT override a prior terminal state": a terminal
\* record only ever leaves the store.
TerminalIsFinal ==
  [][\A k \in Keys : Terminal(k) => records'[k] \in {records[k], NoRecord}]_vars

\* Every queued record leaves the queue: delivered, refused, canceled or, at
\* the latest when its deadline comes, expired.
QueueDrains == \A k \in Keys : Queued(k) ~> ~Queued(k)

\* What the queue promises, seen from outside.
Queue == INSTANCE DeliveryQueue WITH
  state <- [k \in Keys |-> IF records[k] = NoRecord THEN "absent" ELSE records[k].state],
  notices <- [k \in Keys |-> Len(events[k])]
ImplementsQueue == Queue!Spec
=============================================================================
