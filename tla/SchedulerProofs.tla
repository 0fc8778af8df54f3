-------------------------- MODULE SchedulerProofs --------------------------
(* Theorems about Scheduler for every choice of its constants. *)
EXTENDS Scheduler, SequenceTheorems, TLAPS

\* Whatever the configuration and the random source answer, a retry is at
\* least the jitter floor away (jitterIntervalMs' final Math.max).
LEMMA JitterFloor ==
  ASSUME NEW base, NEW d \in JitterIntervals(base)
  PROVE  d \in Int /\ d >= MinJitterFloor
BY DEF JitterIntervals, MaxOf, MinJitterFloor

\* nextAttemptAt answers a time at least the jitter floor after the attempt.
LEMMA NextAttempt ==
  ASSUME NEW t \in Nat, NEW n \in Nat, NEW next \in NextAttemptTimes(t, n)
  PROVE  next \in Int /\ t + MinJitterFloor <= next
BY JitterFloor DEF NextAttemptTimes, MinJitterFloor

\* effectiveDeadline is a time.
LEMMA DeadlineType ==
  ASSUME NEW x \in Int, NEW t \in Int
  PROVE  EffectiveDeadline(x, t) \in Int
BY RetryConfigAssumption
   DEF EffectiveDeadline, EffectiveHorizon, MinOf, DefaultMaxRetryHorizon, MaxRetryHorizonCap
-----------------------------------------------------------------------------
(* The helpers keep records well typed *)

\* A record's (envelope, recipient) pair is a key of the store.
LEMMA KeyOfType ==
  ASSUME NEW q \in QueueState
  PROVE  KeyOf(q) \in Keys
BY DEF QueueState, KeyOf, Keys

\* setTerminal returns a terminal record of the same key.
LEMMA SetTerminalType ==
  ASSUME NEW q \in QueueState, NEW s \in TerminalStates, NEW t \in Nat
  PROVE  /\ SetTerminal(q, s, t) \in QueueState
         /\ KeyOf(SetTerminal(q, s, t)) = KeyOf(q)
         /\ IsTerminal(SetTerminal(q, s, t))
<1>1. CASE IsTerminal(q)
  BY <1>1 DEF SetTerminal
<1>2. CASE ~IsTerminal(q)
  <2> DEFINE x == [q EXCEPT !.state = s, !.next_attempt_at = NoTime, !.terminal_at = t]
  <2>1. SetTerminal(q, s, t) = x
    BY <1>2 DEF SetTerminal
  <2>2. x \in QueueState
    <3>1. NoTime \in Int /\ t \in Int /\ s \in {"queued"} \cup TerminalStates
      BY DEF NoTime
    <3>2. [q EXCEPT !.state = s] \in QueueState
      BY <3>1 DEF QueueState
    <3>3. [q EXCEPT !.state = s, !.next_attempt_at = NoTime] \in QueueState
      BY <3>1, <3>2 DEF QueueState
    <3> QED
      BY <3>1, <3>3 DEF QueueState
  <2>3. x.state = s /\ x.envelope_id = q.envelope_id /\ x.recipient = q.recipient
    BY DEF QueueState
  <2> HIDE DEF x
  <2> QED
    BY <2>1, <2>2, <2>3 DEF KeyOf, IsTerminal, TerminalStates
<1> QED
  BY <1>1, <1>2

\* enqueue's new record is a queued, never attempted record.
LEMMA NewRecordType ==
  ASSUME NEW k \in Keys, NEW x \in Expiries, now \in Nat
  PROVE  /\ NewRecord(k, x) \in QueueState
         /\ NewRecord(k, x).attempts = 0
         /\ ~IsTerminal(NewRecord(k, x))
<1>1. EffectiveDeadline(x, now) \in Int
  BY DeadlineType, SchedulerAssumption
<1>2. k[1] \in Envelopes /\ k[2] \in Recipients
  BY DEF Keys
<1> QED
  BY <1>1, <1>2 DEF NewRecord, QueueState, IsTerminal, NoTime

\* What an attempt leaves behind: a record of the same key, and one that waits
\* for a retry only inside its window.
LEMMA AfterAttemptType ==
  ASSUME NEW q \in QueueState, NEW res \in AttemptResults, tickNow \in Nat,
         NEW y \in AfterAttempt(q, res)
  PROVE  y \in QueueState /\ KeyOf(y) = KeyOf(q) /\ InWindow(y)
<1> DEFINE a == Attempted(q, res)
<1>1. a \in QueueState /\ KeyOf(a) = KeyOf(q) /\ a.deadline = q.deadline
      /\ a.last_attempt_at = tickNow
  <2>1. q.attempts + 1 \in Nat /\ tickNow \in Int
        /\ res.status \in {"none", "delivered", "rejected", "silent"}
    <3>1. res.status \in {"delivered", "rejected", "silent"}
      <4>1. \/ res = [status |-> "delivered", reasonCode |-> ""]
            \/ res = [status |-> "silent", reasonCode |-> ""]
            \/ \E c \in ReasonCodes : res = [status |-> "rejected", reasonCode |-> c]
        BY Zenon DEF AttemptResults
      <4>2. ASSUME NEW c, res = [status |-> "rejected", reasonCode |-> c]
            PROVE  res.status = "rejected"
        BY <4>2
      <4>3. ASSUME NEW s, res = [status |-> s, reasonCode |-> ""]
            PROVE  res.status = s
        BY <4>3
      <4> QED
        BY <4>1, <4>2, <4>3
    <3>2. q.attempts \in Nat
      BY DEF QueueState
    <3> QED
      BY <3>1, <3>2
  <2>2. a = [q EXCEPT !.attempts = q.attempts + 1, !.last_attempt_at = tickNow,
                      !.last_outcome = res.status]
    BY DEF Attempted, QueueState
  <2>3. a \in QueueState
    BY <2>1, <2>2 DEF QueueState
  <2>4. a.deadline = q.deadline /\ a.last_attempt_at = tickNow
        /\ a.envelope_id = q.envelope_id /\ a.recipient = q.recipient
    BY <2>2 DEF QueueState
  <2> HIDE DEF a
  <2> QED
    BY <2>3, <2>4 DEF KeyOf
<1>2. ASSUME NEW s \in TerminalStates, y = SetTerminal(a, s, tickNow)
      PROVE  y \in QueueState /\ KeyOf(y) = KeyOf(q) /\ InWindow(y)
  BY <1>1, <1>2, SetTerminalType DEF InWindow
<1>3. ASSUME NEW next \in NextAttemptTimes(tickNow, q.attempts), next <= q.deadline,
             y = [a EXCEPT !.next_attempt_at = next]
      PROVE  y \in QueueState /\ KeyOf(y) = KeyOf(q) /\ InWindow(y)
  <2>1. next \in Int /\ tickNow + MinJitterFloor <= next
    BY NextAttempt DEF QueueState
  <2>2. /\ y \in QueueState /\ y.next_attempt_at = next /\ y.deadline = q.deadline
        /\ y.last_attempt_at = tickNow /\ KeyOf(y) = KeyOf(a)
    BY <1>1, <1>3, <2>1 DEF QueueState, KeyOf
  <2> QED
    BY <1>1, <1>3, <2>1, <2>2 DEF InWindow, MinJitterFloor
<1>4. \/ \E s \in TerminalStates : y = SetTerminal(a, s, tickNow)
      \/ \E next \in NextAttemptTimes(tickNow, q.attempts) :
           next <= q.deadline /\ y = [a EXCEPT !.next_attempt_at = next]
  <2>1. \A next \in NextAttemptTimes(tickNow, q.attempts) :
          next > q.deadline \/ next <= q.deadline
    BY NextAttempt DEF QueueState
  <2> QED
    BY <2>1 DEF AfterAttempt, TerminalStates
<1> QED
  BY <1>2, <1>3, <1>4

-----------------------------------------------------------------------------
(* Type correctness *)

\* The constructor's state is well typed.
LEMMA InitTypeOK == Init => TypeOK
BY DEF Init, TypeOK, IdleCancel

\* store.put keeps the store well typed, whether it succeeds or rejects.
LEMMA PutType ==
  ASSUME TypeOK, NEW q \in QueueState, PutOk(q) \/ PutRejects
  PROVE  records' \in [Keys -> QueueState \cup {NoRecord}] /\ putFailures' \in Nat
BY KeyOfType DEF TypeOK, PutOk, PutRejects

\* Handing one more event to the sink keeps the history well typed.
LEMMA AppendEvent ==
  ASSUME TypeOK, NEW k \in Keys, NEW s \in {"delivered", "rejected"}
  PROVE  [events EXCEPT ![k] = Append(@, s)] \in [Keys -> Seq({"delivered", "rejected"})]
<1>1. Append(events[k], s) \in Seq({"delivered", "rejected"})
  BY DEF TypeOK
<1> QED
  BY <1>1 DEF TypeOK

\* So does the emit of a cancel call.
LEMMA AnnouncedType ==
  ASSUME TypeOK, NEW c \in Cancelers
  PROVE  Announced(c) \in [Keys -> Seq({"delivered", "rejected"})]
BY DEF TypeOK, Announced

\* dueRecords returns queue records.
LEMMA DueType ==
  ASSUME TypeOK, NEW t
  PROVE  DueRecords(t) \in SUBSET QueueState
BY DEF TypeOK, DueRecords, Queued

\* Every step of every call keeps the types.
LEMMA NextTypeOK == TypeOK /\ [Next]_vars => TypeOK'
<1> SUFFICES ASSUME TypeOK, [Next]_vars PROVE TypeOK'
  OBVIOUS
<1>1. ASSUME NEW e \in Enqueuers, NEW k \in Keys, NEW x \in Expiries, EnqueueBegin(e, k, x)
      PROVE  TypeOK'
  BY <1>1, NewRecordType DEF TypeOK, EnqueueBegin
<1>2. ASSUME NEW e \in Enqueuers, EnqueuePut(e)
      PROVE  TypeOK'
  <2>1. PICK q \in enqs[e] : PutOk(q) \/ PutRejects
    BY <1>2 DEF EnqueuePut
  <2>2. q \in QueueState
    BY <2>1 DEF TypeOK
  <2>3. records' \in [Keys -> QueueState \cup {NoRecord}] /\ putFailures' \in Nat
    BY <2>1, <2>2, PutType
  <2> QED
    BY <1>2, <2>3 DEF TypeOK, EnqueuePut
<1>3. CASE TickBegin
  BY <1>3, DueType DEF TypeOK, TickBegin
<1>4. CASE TickExpire
  <2>1. PICK q \in First(due) :
          LET x == SetTerminal(q, "expired", tickNow) IN
            /\ events' = [events EXCEPT ![KeyOf(q)] = Append(@, EventStatus(x))]
            /\ PutOk(x) \/ PutRejects
            /\ due' = due \ {q}
    BY <1>4 DEF TickExpire
  <2> DEFINE x == SetTerminal(q, "expired", tickNow)
  <2>2. q \in QueueState
    BY DEF TypeOK, First
  <2>3. x \in QueueState
    BY <2>2, SetTerminalType DEF TypeOK, TerminalStates
  <2>4. KeyOf(q) \in Keys /\ EventStatus(x) \in {"delivered", "rejected"}
    BY <2>2, KeyOfType DEF EventStatus
  <2>5. events' \in [Keys -> Seq({"delivered", "rejected"})]
    BY <2>1, <2>4, AppendEvent
  <2>6. records' \in [Keys -> QueueState \cup {NoRecord}] /\ putFailures' \in Nat
    BY <2>1, <2>3, PutType
  <2>7. due' \in SUBSET QueueState
    BY <2>1 DEF TypeOK
  <2> QED
    BY <1>4, <2>5, <2>6, <2>7 DEF TypeOK, TickExpire
<1>5. CASE TickAttempt
  BY <1>5 DEF TypeOK, TickAttempt, First
<1>6. ASSUME NEW res \in AttemptResults, TickDelivered(res)
      PROVE  TypeOK'
  <2>0. PICK q \in cur : \E y \in AfterAttempt(q, res) :
          /\ events' = IF IsTerminal(y)
                       THEN [events EXCEPT ![KeyOf(q)] = Append(@, EventStatus(y))]
                       ELSE events
          /\ accepted' = IF res.status = "delivered"
                         THEN accepted \cup {KeyOf(q)} ELSE accepted
          /\ PutOk(y) \/ PutRejects
    BY <1>6 DEF TickDelivered
  <2>1. PICK y \in AfterAttempt(q, res) :
          /\ events' = IF IsTerminal(y)
                       THEN [events EXCEPT ![KeyOf(q)] = Append(@, EventStatus(y))]
                       ELSE events
          /\ accepted' = IF res.status = "delivered"
                         THEN accepted \cup {KeyOf(q)} ELSE accepted
          /\ PutOk(y) \/ PutRejects
    BY <2>0
  <2>2. q \in QueueState /\ tickNow \in Nat
    BY DEF TypeOK
  <2>3. y \in QueueState
    BY <2>2, AfterAttemptType
  <2>4. KeyOf(q) \in Keys /\ EventStatus(y) \in {"delivered", "rejected"}
    BY <2>2, KeyOfType DEF EventStatus
  <2>5. events' \in [Keys -> Seq({"delivered", "rejected"})]
    BY <2>1, <2>4, AppendEvent DEF TypeOK
  <2>6. records' \in [Keys -> QueueState \cup {NoRecord}] /\ putFailures' \in Nat
    BY <2>1, <2>3, PutType
  <2>7. accepted' \in SUBSET Keys
    BY <2>1, <2>4 DEF TypeOK
  <2> QED
    BY <1>6, <2>5, <2>6, <2>7 DEF TypeOK, TickDelivered
<1>7. CASE TickDeliverThrows
  BY <1>7 DEF TypeOK, TickDeliverThrows
<1>8. CASE TickEnd
  BY <1>8 DEF TypeOK, TickEnd
<1>9. ASSUME NEW c \in Cancelers, NEW k \in Keys, CancelBegin(c, k)
      PROVE  TypeOK'
  <2>1. records[k] \in QueueState
    BY <1>9 DEF TypeOK, CancelBegin, Queued
  <2> QED
    BY <1>9, <2>1 DEF TypeOK, CancelBegin
<1>10. ASSUME NEW c \in Cancelers, NEW v \in Envelopes, CancelEnvelopeBegin(c, v)
       PROVE  TypeOK'
  <2>1. EnvelopeMatches(v) \in SUBSET QueueState
    BY DueType DEF EnvelopeMatches
  <2> QED
    BY <1>10, <2>1 DEF TypeOK, CancelEnvelopeBegin
<1>11. ASSUME NEW c \in Cancelers, CancelPut(c)
       PROVE  TypeOK'
  <2>1. PICK q \in First(cancels[c].todo) :
          \/ /\ PutOk(SetTerminal(q, "canceled", cancels[c].now))
             /\ cancels' = [cancels EXCEPT ![c] =
                   [todo |-> @.todo \ {q}, pending |-> {KeyOf(q)}, now |-> @.now]]
          \/ /\ PutRejects
             /\ cancels' = [cancels EXCEPT ![c] = IdleCancel]
    BY <1>11 DEF CancelPut
  <2>2. q \in QueueState
    BY DEF TypeOK, First
  <2>3. SetTerminal(q, "canceled", cancels[c].now) \in QueueState /\ KeyOf(q) \in Keys
    BY <2>2, SetTerminalType, KeyOfType DEF TypeOK, TerminalStates
  <2>4. records' \in [Keys -> QueueState \cup {NoRecord}] /\ putFailures' \in Nat
    BY <2>1, <2>3, PutType
  <2>5. cancels' \in [Cancelers -> [todo : SUBSET QueueState, pending : SUBSET Keys, now : Nat]]
    <3> DEFINE rest == [todo |-> cancels[c].todo \ {q}, pending |-> {KeyOf(q)},
                        now |-> cancels[c].now]
    <3>1. rest \in [todo : SUBSET QueueState, pending : SUBSET Keys, now : Nat]
      BY <2>3 DEF TypeOK
    <3>2. IdleCancel \in [todo : SUBSET QueueState, pending : SUBSET Keys, now : Nat]
      BY DEF IdleCancel
    <3>3. cancels' = [cancels EXCEPT ![c] = rest] \/ cancels' = [cancels EXCEPT ![c] = IdleCancel]
      BY <2>1
    <3> HIDE DEF rest
    <3> QED
      BY <3>1, <3>2, <3>3 DEF TypeOK
  <2>6. events' \in [Keys -> Seq({"delivered", "rejected"})]
    BY <1>11, AnnouncedType DEF CancelPut
  <2> QED
    BY <1>11, <2>4, <2>5, <2>6 DEF TypeOK, CancelPut
<1>12. ASSUME NEW c \in Cancelers, CancelEnd(c)
       PROVE  TypeOK'
  BY <1>12, AnnouncedType DEF TypeOK, CancelEnd, IdleCancel
<1>13. ASSUME NEW p \in Pruners, PruneBegin(p)
       PROVE  TypeOK'
  BY <1>13 DEF TypeOK, PruneBegin, StaleKeys
<1>14. ASSUME NEW p \in Pruners, PruneDelete(p)
       PROVE  TypeOK'
  BY <1>14 DEF TypeOK, PruneDelete
<1>15. CASE Clock
  BY <1>15 DEF TypeOK, Clock
<1>16. CASE Crash
  BY <1>16 DEF TypeOK, Crash, IdleCancel
<1>17. CASE UNCHANGED vars
  BY <1>17 DEF TypeOK, vars
<1> QED
  BY <1>1, <1>2, <1>3, <1>4, <1>5, <1>6, <1>7, <1>8, <1>9, <1>10, <1>11, <1>12, <1>13,
     <1>14, <1>15, <1>16, <1>17 DEF Next, NewCall, TickStep, CallStep

\* Type correctness, for any number of envelopes, recipients, pending calls,
\* write failures and restarts.
THEOREM TypeCorrect == Spec => []TypeOK
BY InitTypeOK, NextTypeOK, PTL DEF Spec

-----------------------------------------------------------------------------
(* The retry window and the announcement of every end *)

\* What the two invariants need besides themselves: the record an enqueue call
\* holds between its get and its put is new, so inserting it, even over an
\* existing record, neither breaks a window nor hides a terminal record.
EnqueuedAreNew == \A e \in Enqueuers : \A q \in enqs[e] : q.attempts = 0 /\ ~IsTerminal(q)

IInv == TypeOK /\ EnqueuedAreNew /\ RetryWindow /\ TerminalAnnounced

\* The inductive invariant holds of an empty queue.
LEMMA InitIInv == Init => IInv
<1> SUFFICES ASSUME Init PROVE IInv
  OBVIOUS
<1>1. TypeOK
  BY InitTypeOK
<1>2. EnqueuedAreNew
  BY DEF Init, EnqueuedAreNew
<1>3. \A k \in Keys : records[k] = NoRecord
  BY DEF Init
<1> QED
  BY <1>1, <1>2, <1>3 DEF IInv, RetryWindow, TerminalAnnounced, Terminal

\* A put of a record inside its window keeps every stored record inside its own.
LEMMA PutKeepsWindow ==
  ASSUME TypeOK, RetryWindow, NEW q \in QueueState, InWindow(q), PutOk(q) \/ PutRejects
  PROVE  RetryWindow'
<1>1. KeyOf(q) \in Keys
  BY KeyOfType
<1>2. CASE PutRejects
  BY <1>2 DEF PutRejects, RetryWindow, InWindow, IsTerminal
<1>3. CASE PutOk(q)
  <2>1. ASSUME NEW k \in Keys, records'[k] # NoRecord
        PROVE  InWindow(records'[k])
    <3>1. CASE k = KeyOf(q)
      BY <1>1, <1>3, <3>1 DEF PutOk, TypeOK
    <3>2. CASE k # KeyOf(q)
      <4>1. records'[k] = records[k]
        BY <1>1, <1>3, <3>2 DEF PutOk, TypeOK
      <4> QED
        BY <2>1, <4>1 DEF RetryWindow
    <3> QED
      BY <3>1, <3>2
  <2> QED
    BY <2>1 DEF RetryWindow, InWindow, IsTerminal
<1> QED
  BY <1>2, <1>3

\* A step that writes no record keeps the window.
LEMMA SameRecordsKeepWindow ==
  ASSUME RetryWindow, UNCHANGED records
  PROVE  RetryWindow'
BY DEF RetryWindow, InWindow, IsTerminal

\* Terminal records are put only with their event, or with the cancel call that
\* will send it; every other put is of a queued record.
LEMMA PutKeepsAnnounced ==
  ASSUME TypeOK, TerminalAnnounced, NEW q \in QueueState, PutOk(q) \/ PutRejects,
         UNCHANGED crashes,
         \A k \in Keys : events[k] # <<>> => events'[k] # <<>>,
         \A c \in Cancelers : \A k \in cancels[c].pending :
             k \in cancels'[c].pending \/ events'[k] # <<>>,
         IsTerminal(q) /\ PutOk(q) =>
             events'[KeyOf(q)] # <<>> \/ \E c \in Cancelers : KeyOf(q) \in cancels'[c].pending
  PROVE  TerminalAnnounced'
<1> SUFFICES ASSUME crashes' = 0, NEW k \in Keys, Terminal(k)'
             PROVE  events'[k] # <<>> \/ \E c \in Cancelers : k \in cancels'[c].pending
  BY DEF TerminalAnnounced
<1>1. KeyOf(q) \in Keys
  BY KeyOfType
<1>2. CASE PutOk(q) /\ k = KeyOf(q)
  <2>1. records'[k] = q
    BY <1>1, <1>2 DEF PutOk, TypeOK
  <2>2. IsTerminal(q)
    BY <2>1 DEF Terminal, IsTerminal
  <2> QED
    BY <1>2, <2>2
<1>3. CASE records'[k] = records[k]
  <2>1. Terminal(k)
    BY <1>3 DEF Terminal, IsTerminal
  <2>2. events[k] # <<>> \/ \E c \in Cancelers : k \in cancels[c].pending
    BY <2>1 DEF TerminalAnnounced
  <2> QED
    BY <2>2
<1>4. (PutOk(q) /\ k = KeyOf(q)) \/ records'[k] = records[k]
  BY <1>1 DEF PutOk, PutRejects, TypeOK
<1> QED
  BY <1>2, <1>3, <1>4

\* A step that puts no record and drops no pending announcement keeps
\* terminal records announced.
LEMMA SameKeepsAnnounced ==
  ASSUME TerminalAnnounced, UNCHANGED <<records, crashes>>,
         \A k \in Keys : events[k] # <<>> => events'[k] # <<>>,
         \A c \in Cancelers : \A k \in cancels[c].pending :
             k \in cancels'[c].pending \/ events'[k] # <<>>
  PROVE  TerminalAnnounced'
<1> SUFFICES ASSUME crashes' = 0, NEW k \in Keys, Terminal(k)'
             PROVE  events'[k] # <<>> \/ \E c \in Cancelers : k \in cancels'[c].pending
  BY DEF TerminalAnnounced
<1>1. Terminal(k)
  BY DEF Terminal, IsTerminal
<1>2. events[k] # <<>> \/ \E c \in Cancelers : k \in cancels[c].pending
  BY <1>1 DEF TerminalAnnounced
<1> QED
  BY <1>2

\* A sequence that was appended to is not empty.
LEMMA AppendIsNotEmpty ==
  ASSUME NEW S, NEW seq \in Seq(S), NEW s
  PROVE  Append(seq, s) # <<>>
<1>1. Len(seq) \in Nat
  OBVIOUS
<1>2. Len(Append(seq, s)) = Len(seq) + 1
  OBVIOUS
<1> QED
  BY <1>1, <1>2

\* An appended event leaves no history empty.
LEMMA AppendNotEmpty ==
  ASSUME TypeOK, NEW k \in Keys, NEW s, events' = [events EXCEPT ![k] = Append(@, s)]
  PROVE  /\ events'[k] # <<>>
         /\ \A j \in Keys : events[j] # <<>> => events'[j] # <<>>
<1>1. Append(events[k], s) # <<>>
  BY AppendIsNotEmpty DEF TypeOK
<1>2. events'[k] = Append(events[k], s) /\ \A j \in Keys : j # k => events'[j] = events[j]
  BY DEF TypeOK
<1> QED
  BY <1>1, <1>2

\* After cancel's emit, the records it had put have an event.
LEMMA AnnouncedNotEmpty ==
  ASSUME TypeOK, NEW c \in Cancelers, events' = Announced(c)
  PROVE  /\ \A k \in cancels[c].pending : events'[k] # <<>>
         /\ \A k \in Keys : events[k] # <<>> => events'[k] # <<>>
<1>1. \A k \in Keys : Append(events[k], "rejected") # <<>>
  BY AppendIsNotEmpty DEF TypeOK
<1>2. \A k \in Keys : events'[k] = IF k \in cancels[c].pending
                                   THEN Append(events[k], "rejected") ELSE events[k]
  BY DEF Announced
<1>3. cancels[c].pending \subseteq Keys
  BY DEF TypeOK
<1> QED
  BY <1>1, <1>2, <1>3

\* What an enqueue call is about to insert has not been attempted.
LEMMA NextEnqueuedAreNew ==
  TypeOK /\ EnqueuedAreNew /\ [Next]_vars => EnqueuedAreNew'
<1> SUFFICES ASSUME TypeOK, EnqueuedAreNew, [Next]_vars PROVE EnqueuedAreNew'
  OBVIOUS
<1>1. ASSUME NEW e \in Enqueuers, NEW k \in Keys, NEW x \in Expiries, EnqueueBegin(e, k, x)
      PROVE  EnqueuedAreNew'
  <2>1. NewRecord(k, x).attempts = 0 /\ ~IsTerminal(NewRecord(k, x))
    BY NewRecordType DEF TypeOK
  <2>2. \A f \in Enqueuers : enqs'[f] = IF f = e THEN {NewRecord(k, x)} ELSE enqs[f]
    BY <1>1 DEF EnqueueBegin, TypeOK
  <2> QED
    BY <2>1, <2>2 DEF EnqueuedAreNew, IsTerminal
<1>2. ASSUME NEW e \in Enqueuers, EnqueuePut(e)
      PROVE  EnqueuedAreNew'
  BY <1>2 DEF EnqueuedAreNew, IsTerminal, EnqueuePut, TypeOK
<1>3. CASE UNCHANGED enqs
  BY <1>3 DEF EnqueuedAreNew, IsTerminal
<1>4. CASE Crash
  BY <1>4 DEF EnqueuedAreNew, Crash
<1> QED
  BY <1>1, <1>2, <1>3, <1>4
  DEF Next, NewCall, TickStep, CallStep, TickBegin, TickExpire, TickAttempt, TickDelivered,
      TickDeliverThrows, TickEnd, CancelBegin, CancelEnvelopeBegin, CancelPut, CancelEnd,
      PruneBegin, PruneDelete, Clock, vars

\* Every step of every call keeps the inductive invariant.
LEMMA NextIInv == IInv /\ [Next]_vars => IInv'
<1> SUFFICES ASSUME IInv, [Next]_vars PROVE IInv'
  OBVIOUS
<1> USE DEF IInv
<1>1. TypeOK' /\ EnqueuedAreNew'
  BY NextTypeOK, NextEnqueuedAreNew
<1>2. CASE UNCHANGED <<records, crashes, events, cancels>>
  BY <1>1, <1>2, SameRecordsKeepWindow, SameKeepsAnnounced
<1>3. ASSUME NEW e \in Enqueuers, EnqueuePut(e)
      PROVE  RetryWindow' /\ TerminalAnnounced'
  <2>1. PICK q \in enqs[e] : PutOk(q) \/ PutRejects
    BY <1>3 DEF EnqueuePut
  <2>2. q \in QueueState /\ q.attempts = 0 /\ ~IsTerminal(q)
    BY <2>1 DEF TypeOK, EnqueuedAreNew
  <2>3. InWindow(q)
    BY <2>2 DEF InWindow
  <2>4. UNCHANGED <<events, cancels, crashes>>
    BY <1>3 DEF EnqueuePut
  <2> QED
    BY <2>1, <2>2, <2>3, <2>4, PutKeepsWindow, PutKeepsAnnounced
<1>4. CASE TickExpire
  <2>1. PICK q \in First(due) :
          LET x == SetTerminal(q, "expired", tickNow) IN
            /\ events' = [events EXCEPT ![KeyOf(q)] = Append(@, EventStatus(x))]
            /\ PutOk(x) \/ PutRejects
            /\ due' = due \ {q}
    BY <1>4 DEF TickExpire
  <2> DEFINE x == SetTerminal(q, "expired", tickNow)
  <2>2. q \in QueueState /\ KeyOf(q) \in Keys
    BY KeyOfType DEF TypeOK, First
  <2>3. x \in QueueState /\ IsTerminal(x) /\ KeyOf(x) = KeyOf(q)
    BY <2>2, SetTerminalType DEF TypeOK, TerminalStates
  <2>4. InWindow(x)
    BY <2>3 DEF InWindow
  <2>5. events'[KeyOf(x)] # <<>> /\ \A k \in Keys : events[k] # <<>> => events'[k] # <<>>
    BY <2>1, <2>2, <2>3, AppendNotEmpty
  <2>6. UNCHANGED <<cancels, crashes>>
    BY <1>4 DEF TickExpire
  <2>7. PutOk(x) \/ PutRejects
    BY <2>1
  <2> HIDE DEF x
  <2> QED
    BY <1>1, <2>3, <2>4, <2>5, <2>6, <2>7, PutKeepsWindow, PutKeepsAnnounced
<1>5. ASSUME NEW res \in AttemptResults, TickDelivered(res)
      PROVE  RetryWindow' /\ TerminalAnnounced'
  <2>1. PICK q \in cur : \E y \in AfterAttempt(q, res) :
          /\ events' = IF IsTerminal(y)
                       THEN [events EXCEPT ![KeyOf(q)] = Append(@, EventStatus(y))]
                       ELSE events
          /\ PutOk(y) \/ PutRejects
    BY <1>5 DEF TickDelivered
  <2>2. PICK y \in AfterAttempt(q, res) :
          /\ events' = IF IsTerminal(y)
                       THEN [events EXCEPT ![KeyOf(q)] = Append(@, EventStatus(y))]
                       ELSE events
          /\ PutOk(y) \/ PutRejects
    BY <2>1
  <2>3. q \in QueueState /\ KeyOf(q) \in Keys /\ tickNow \in Nat
    BY KeyOfType DEF TypeOK
  <2>4. y \in QueueState /\ KeyOf(y) = KeyOf(q) /\ InWindow(y)
    BY <2>3, AfterAttemptType
  <2>5. UNCHANGED <<cancels, crashes>>
    BY <1>5 DEF TickDelivered
  <2>6. /\ IsTerminal(y) => events'[KeyOf(y)] # <<>>
        /\ \A k \in Keys : events[k] # <<>> => events'[k] # <<>>
    BY <2>2, <2>3, <2>4, AppendNotEmpty
  <2> QED
    BY <2>2, <2>4, <2>5, <2>6, PutKeepsWindow, PutKeepsAnnounced
<1>6. ASSUME NEW c \in Cancelers, NEW todo, UNCHANGED <<records, crashes, events>>,
             cancels[c] = IdleCancel, cancels' = [cancels EXCEPT ![c] = todo]
      PROVE  RetryWindow' /\ TerminalAnnounced'
  <2>1. \A d \in Cancelers : \A k \in cancels[d].pending : k \in cancels'[d].pending
    BY <1>6 DEF IdleCancel, TypeOK
  <2> QED
    BY <1>6, <2>1, SameRecordsKeepWindow, SameKeepsAnnounced
<1>7. ASSUME NEW c \in Cancelers, CancelPut(c)
      PROVE  RetryWindow' /\ TerminalAnnounced'
  <2>1. PICK q \in First(cancels[c].todo) :
          \/ /\ PutOk(SetTerminal(q, "canceled", cancels[c].now))
             /\ cancels' = [cancels EXCEPT ![c] =
                   [todo |-> @.todo \ {q}, pending |-> {KeyOf(q)}, now |-> @.now]]
          \/ /\ PutRejects
             /\ cancels' = [cancels EXCEPT ![c] = IdleCancel]
    BY <1>7 DEF CancelPut
  <2> DEFINE x == SetTerminal(q, "canceled", cancels[c].now)
  <2>2. q \in QueueState /\ cancels[c].now \in Nat
    BY DEF TypeOK, First
  <2>3. x \in QueueState /\ IsTerminal(x) /\ KeyOf(x) = KeyOf(q)
    BY <2>2, SetTerminalType DEF TerminalStates
  <2>4. InWindow(x)
    BY <2>3 DEF InWindow
  <2>5. /\ \A k \in cancels[c].pending : events'[k] # <<>>
        /\ \A k \in Keys : events[k] # <<>> => events'[k] # <<>>
        /\ UNCHANGED crashes
    BY <1>7, AnnouncedNotEmpty DEF CancelPut
  <2>6. \A d \in Cancelers : d # c => cancels'[d] = cancels[d]
    BY <2>1 DEF TypeOK
  <2>7. CASE PutOk(x) /\ KeyOf(q) \in cancels'[c].pending
    BY <2>3, <2>4, <2>5, <2>6, <2>7, PutKeepsWindow, PutKeepsAnnounced
  <2>8. CASE PutRejects
    <3>1. UNCHANGED records
      BY <2>8 DEF PutRejects
    <3> QED
      BY <2>5, <2>6, <3>1, SameRecordsKeepWindow, SameKeepsAnnounced
  <2>9. (PutOk(x) /\ KeyOf(q) \in cancels'[c].pending) \/ PutRejects
    BY <2>1 DEF TypeOK
  <2> QED
    BY <2>7, <2>8, <2>9
<1>8. ASSUME NEW c \in Cancelers, CancelEnd(c)
      PROVE  RetryWindow' /\ TerminalAnnounced'
  <2>1. /\ \A k \in cancels[c].pending : events'[k] # <<>>
        /\ \A k \in Keys : events[k] # <<>> => events'[k] # <<>>
        /\ UNCHANGED <<records, crashes>>
    BY <1>8, AnnouncedNotEmpty DEF CancelEnd
  <2>2. \A d \in Cancelers : d # c => cancels'[d] = cancels[d]
    BY <1>8 DEF CancelEnd, TypeOK
  <2> QED
    BY <2>1, <2>2, SameRecordsKeepWindow, SameKeepsAnnounced
<1>9. ASSUME NEW p \in Pruners, PruneDelete(p)
      PROVE  RetryWindow' /\ TerminalAnnounced'
  <2>1. PICK k \in prunes[p] : records' = [records EXCEPT ![k] = NoRecord]
                               /\ events' = [events EXCEPT ![k] = <<>>]
    BY <1>9 DEF PruneDelete
  <2>2. k \in Keys
    BY DEF TypeOK
  <2>3. records'[k] = NoRecord
        /\ \A j \in Keys : j # k => records'[j] = records[j] /\ events'[j] = events[j]
    BY <2>1, <2>2 DEF TypeOK
  <2>4. UNCHANGED <<cancels, crashes>>
    BY <1>9 DEF PruneDelete
  <2>5. RetryWindow'
    BY <2>3 DEF RetryWindow, InWindow, IsTerminal
  <2>6. TerminalAnnounced'
    BY <2>3, <2>4 DEF TerminalAnnounced, Terminal, IsTerminal
  <2> QED
    BY <2>5, <2>6
<1>10. CASE Crash
  <2>1. crashes' # 0 /\ UNCHANGED records
    BY <1>10 DEF Crash, TypeOK
  <2> QED
    BY <1>1, <2>1, SameRecordsKeepWindow DEF TerminalAnnounced
<1>11. ASSUME NEW c \in Cancelers, NEW k \in Keys, CancelBegin(c, k)
       PROVE  RetryWindow' /\ TerminalAnnounced'
  BY <1>6, <1>11 DEF CancelBegin
<1>12. ASSUME NEW c \in Cancelers, NEW v \in Envelopes, CancelEnvelopeBegin(c, v)
       PROVE  RetryWindow' /\ TerminalAnnounced'
  BY <1>6, <1>12 DEF CancelEnvelopeBegin
<1>13. ASSUME TickBegin \/ TickAttempt \/ TickDeliverThrows \/ TickEnd \/ Clock
              \/ (\E e \in Enqueuers, k \in Keys, x \in Expiries : EnqueueBegin(e, k, x))
              \/ (\E p \in Pruners : PruneBegin(p)) \/ UNCHANGED vars
       PROVE  IInv'
  BY <1>2, <1>13 DEF TickBegin, TickAttempt, TickDeliverThrows, TickEnd, Clock,
                     EnqueueBegin, PruneBegin, vars
<1> QED
  BY <1>1, <1>3, <1>4, <1>5, <1>7, <1>8, <1>9, <1>10, <1>11, <1>12, <1>13
  DEF Next, NewCall, TickStep, CallStep

\* The inductive invariant: besides the two properties themselves it says
\* that pending inserts are fresh queued records, so that a late put of an
\* overlapping enqueue cannot break the window.
THEOREM InductiveInvariant == Spec => []IInv
BY InitIInv, NextIInv, PTL DEF Spec

\* No interleaving of ticks, cancels, enqueues, prunes and restarts ever stores
\* a retry that is due too early or past its deadline.
THEOREM RetryWindowHolds == Spec => []RetryWindow
<1>1. IInv => RetryWindow
  BY DEF IInv
<1> QED
  BY <1>1, InductiveInvariant, PTL

\* Until the process is stopped, a terminal record has been announced to its
\* client or a cancel call is about to announce it, whatever calls overlap.
THEOREM TerminalAnnouncedHolds == Spec => []TerminalAnnounced
<1>1. IInv => TerminalAnnounced
  BY DEF IInv
<1> QED
  BY <1>1, InductiveInvariant, PTL

-----------------------------------------------------------------------------
(* Calls that do not overlap implement the abstract queue *)

\* One life of a record: what a step may do to a key's record, to its events,
\* and to whether its deliver() has answered delivered.
Kept(k) == UNCHANGED <<records[k], events[k]>> /\ (k \in accepted' => k \in accepted)

Entered(k) ==
  /\ records[k] = NoRecord /\ Queued(k)'
  /\ events'[k] = events[k] /\ k \notin accepted' 

Rescheduled(k) ==
  /\ Queued(k) /\ Queued(k)'
  /\ events'[k] = events[k] /\ (k \in accepted' => k \in accepted)

Ended(k) ==
  /\ Queued(k) /\ Terminal(k)'
  /\ events'[k] \in {events[k], Append(events[k], EventStatus(records'[k]))}
  /\ k \in accepted' => records'[k].state = "delivered" /\ events'[k] # events[k]

Told(k) ==
  /\ Terminal(k) /\ records'[k] = records[k]
  /\ events[k] = <<>> /\ events'[k] = Append(events[k], "rejected")
  /\ k \in accepted' => k \in accepted

Forgotten(k) ==
  Terminal(k) /\ records'[k] = NoRecord /\ events'[k] = <<>> /\ k \notin accepted'

Lives(k) == Kept(k) \/ Entered(k) \/ Rescheduled(k) \/ Ended(k) \/ Told(k) \/ Forgotten(k)

\* A record is announced at most once, when it has ended; and what was
\* delivered is stored and announced as delivered.
AnnouncedOnce ==
  \A k \in Keys :
    /\ IF Terminal(k) THEN Len(events[k]) <= 1 ELSE events[k] = <<>>
    /\ k \in accepted => /\ records[k] # NoRecord /\ records[k].state = "delivered"
                         /\ events[k] = <<"delivered">>

\* The call that runs alone, if any, works on what the store has now.
Current(q) == records[KeyOf(q)] = q /\ ~IsTerminal(q)

NoTick == tickPc = "idle" /\ due = {} /\ cur = {}
NoEnqueue == \A e \in Enqueuers : enqs[e] = {}
NoCancel == \A c \in Cancelers : cancels[c] = IdleCancel
NoPrune == \A p \in Pruners : prunes[p] = {}

Ticking ==
  /\ NoEnqueue /\ NoCancel /\ NoPrune
  /\ \A q \in due \cup cur : Current(q)
  /\ due \cap cur = {} /\ (tickPc = "loop" => cur = {})
Enqueuing(e) ==
  /\ NoTick /\ NoCancel /\ NoPrune /\ \A f \in Enqueuers \ {e} : enqs[f] = {}
  /\ \A q \in enqs[e] : records[KeyOf(q)] = NoRecord /\ ~IsTerminal(q)
Canceling(c) ==
  /\ NoTick /\ NoEnqueue /\ NoPrune /\ \A d \in Cancelers \ {c} : cancels[d] = IdleCancel
  /\ \A q \in cancels[c].todo : Current(q)
  /\ \A k \in cancels[c].pending : Terminal(k) /\ events[k] = <<>>
Pruning(p) ==
  /\ NoTick /\ NoEnqueue /\ NoCancel /\ \A r \in Pruners \ {p} : prunes[r] = {}
  /\ \A k \in prunes[p] : Terminal(k)

OneCall ==
  \/ NoTick /\ NoEnqueue /\ NoCancel /\ NoPrune
  \/ tickPc # "idle" /\ Ticking
  \/ \E e \in Enqueuers : Enqueuing(e)
  \/ \E c \in Cancelers : Canceling(c)
  \/ \E p \in Pruners : Pruning(p)


\* The states of the abstract queue.
StateOf(k) == IF records[k] = NoRecord THEN "absent" ELSE records[k].state

\* A life of a record is one of the abstract queue's, and leaves it announced
\* at most once.
LEMMA LifeIsQueueStep ==
  ASSUME TypeOK, TypeOK', AnnouncedOnce, NEW k \in Keys, Lives(k)
  PROVE  /\ \/ /\ StateOf(k) = "absent" /\ StateOf(k)' = "queued" /\ Len(events[k])' = Len(events[k])
            \/ /\ StateOf(k) = "queued" /\ StateOf(k)' \in TerminalStates
               /\ Len(events[k])' \in {Len(events[k]), Len(events[k]) + 1}
            \/ /\ StateOf(k) \in TerminalStates /\ StateOf(k)' = StateOf(k)
               /\ Len(events[k]) = 0 /\ Len(events[k])' = 1
            \/ /\ StateOf(k) \in TerminalStates /\ StateOf(k)' = "absent"
               /\ Len(events[k])' = 0
            \/ StateOf(k)' = StateOf(k) /\ Len(events[k])' = Len(events[k])
         /\ IF Terminal(k)' THEN Len(events'[k]) <= 1 ELSE events'[k] = <<>>
         /\ k \in accepted' => /\ records'[k] # NoRecord /\ records'[k].state = "delivered"
                               /\ events'[k] = <<"delivered">>
<1>1. /\ events[k] \in Seq({"delivered", "rejected"}) /\ events'[k] \in Seq({"delivered", "rejected"})
      /\ records[k] # NoRecord => records[k] \in QueueState
      /\ records'[k] # NoRecord => records'[k] \in QueueState
  BY DEF TypeOK
<1>2. /\ records[k] # NoRecord => records[k].state \in {"queued"} \cup TerminalStates
      /\ records'[k] # NoRecord => records'[k].state \in {"queued"} \cup TerminalStates
  BY <1>1 DEF QueueState
<1>3. \A s \in {"delivered", "rejected"} :
        /\ Append(<<>>, s) = <<s>> /\ Len(<<s>>) = 1 /\ <<s>> # <<>>
  OBVIOUS
<1>4. /\ IF Terminal(k) THEN Len(events[k]) <= 1 ELSE events[k] = <<>>
      /\ k \in accepted => /\ records[k] # NoRecord /\ records[k].state = "delivered"
                           /\ events[k] = <<"delivered">>
  BY DEF AnnouncedOnce
<1>5. Len(events[k]) \in Nat /\ Len(<<>>) = 0 /\ "queued" \notin TerminalStates
  BY <1>1 DEF TerminalStates
<1>6. CASE Kept(k)
  BY <1>4, <1>6 DEF Kept, StateOf, Terminal, IsTerminal
<1>7. CASE Entered(k)
  BY <1>4, <1>7 DEF Entered, StateOf, Terminal, Queued, IsTerminal
<1>8. CASE Rescheduled(k)
  BY <1>4, <1>8 DEF Rescheduled, StateOf, Terminal, Queued, IsTerminal
<1>9. CASE Ended(k)
  <2>1. events[k] = <<>> /\ StateOf(k) = "queued" /\ StateOf(k)' \in TerminalStates /\ Terminal(k)'
    BY <1>2, <1>4, <1>9 DEF Ended, StateOf, Terminal, Queued, IsTerminal
  <2>2. EventStatus(records'[k]) \in {"delivered", "rejected"}
    BY DEF EventStatus
  <2>3. events'[k] = <<>> \/ events'[k] = <<EventStatus(records'[k])>>
    BY <1>3, <1>9, <2>1, <2>2 DEF Ended
  <2>4. Len(events'[k]) \in {0, 1}
    BY <1>3, <1>5, <2>2, <2>3
  <2>5. k \in accepted' => /\ records'[k] # NoRecord /\ records'[k].state = "delivered"
                           /\ events'[k] = <<"delivered">>
    BY <1>9, <2>1, <2>3 DEF Ended, EventStatus, Terminal
  <2>6. Len(events[k]) = 0 /\ Len(events'[k]) \in {Len(events[k]), Len(events[k]) + 1}
    BY <1>5, <2>1, <2>4
  <2>7. Len(events'[k]) <= 1
    <3>1. \A n \in {0, 1} : n <= 1
      OBVIOUS
    <3> QED
      BY <2>4, <3>1, Zenon
  <2> QED
    BY <2>1, <2>5, <2>6, <2>7
<1>10. CASE Told(k)
  <2>1. Len(events[k]) = 0 /\ Len(events'[k]) = 1 /\ k \notin accepted'
    BY <1>3, <1>4, <1>5, <1>10 DEF Told
  <2>2. StateOf(k) \in TerminalStates /\ StateOf(k)' = StateOf(k) /\ Terminal(k)'
    BY <1>2, <1>10 DEF Told, StateOf, Terminal, IsTerminal
  <2> QED
    BY <2>1, <2>2
<1>11. CASE Forgotten(k)
  <2>1. StateOf(k) \in TerminalStates /\ StateOf(k)' = "absent" /\ ~Terminal(k)'
    BY <1>2, <1>11 DEF Forgotten, StateOf, Terminal, IsTerminal
  <2> QED
    BY <1>5, <1>11, <2>1 DEF Forgotten
<1> QED
  BY <1>6, <1>7, <1>8, <1>9, <1>10, <1>11 DEF Lives


\* Each record is stored under its own pair.
RecordsKeyed == \A k \in Keys : records[k] # NoRecord => KeyOf(records[k]) = k

\* A call that is under way is alone.
LEMMA Stage ==
  ASSUME OneCall
  PROVE  /\ CallsIdle => NoTick /\ NoEnqueue /\ NoCancel /\ NoPrune
         /\ tickPc # "idle" => Ticking
         /\ \A e \in Enqueuers : enqs[e] # {} => Enqueuing(e)
         /\ \A c \in Cancelers : cancels[c] # IdleCancel => Canceling(c)
         /\ \A p \in Pruners : prunes[p] # {} => Pruning(p)
<1> USE DEF NoTick, NoEnqueue, NoCancel, NoPrune
<1>1. CallsIdle => tickPc = "idle" /\ NoEnqueue /\ NoCancel /\ NoPrune
  BY DEF CallsIdle
<1>2. NoTick \/ (tickPc # "idle" /\ Ticking)
  BY DEF OneCall, Enqueuing, Canceling, Pruning
<1>3. \A e \in Enqueuers : enqs[e] # {} => Enqueuing(e)
  BY DEF OneCall, Ticking, Enqueuing, Canceling, Pruning
<1>4. \A c \in Cancelers : cancels[c] # IdleCancel => Canceling(c)
  BY DEF OneCall, Ticking, Enqueuing, Canceling, Pruning
<1>5. \A p \in Pruners : prunes[p] # {} => Pruning(p)
  BY DEF OneCall, Ticking, Enqueuing, Canceling, Pruning
<1> QED
  BY <1>1, <1>2, <1>3, <1>4, <1>5

\* A put of a record changes what is stored under its pair, and nothing else.
LEMMA PutOne ==
  ASSUME TypeOK, RecordsKeyed, NEW q \in QueueState, PutOk(q)
  PROVE  /\ KeyOf(q) \in Keys /\ records'[KeyOf(q)] = q
         /\ \A k \in Keys : k # KeyOf(q) => records'[k] = records[k]
         /\ RecordsKeyed'
<1>1. KeyOf(q) \in Keys
  BY KeyOfType
<1>2. records'[KeyOf(q)] = q /\ \A k \in Keys : k # KeyOf(q) => records'[k] = records[k]
  BY <1>1 DEF TypeOK, PutOk
<1>3. \A k \in Keys : k = KeyOf(q) \/ k # KeyOf(q)
  OBVIOUS
<1>4. ASSUME NEW k \in Keys, records'[k] # NoRecord PROVE KeyOf(records'[k]) = k
  BY <1>2, <1>4 DEF RecordsKeyed
<1> QED
  BY <1>1, <1>2, <1>4 DEF RecordsKeyed, KeyOf

\* A write is not rejected when none may be.
LEMMA NoReject == ASSUME TypeOK, MaxPutFailures = 0 PROVE ~PutRejects
BY DEF TypeOK, PutRejects

\* A copy that is current stays current while other records change.
LEMMA StaysCurrent ==
  ASSUME TypeOK, TypeOK', NEW q \in QueueState, Current(q), records'[KeyOf(q)] = records[KeyOf(q)]
  PROVE  Current(q)'
BY DEF Current, IsTerminal, KeyOf

\* Two current copies of one record are the same.
LEMMA CurrentOnce ==
  ASSUME NEW p, NEW q, Current(p), Current(q), KeyOf(p) = KeyOf(q)
  PROVE  p = q
BY DEF Current

\* The stored queued records are current.
LEMMA DueIsCurrent ==
  ASSUME TypeOK, RecordsKeyed, NEW t, NEW q \in DueRecords(t)
  PROVE  Current(q)
<1>1. PICK k \in Keys : Queued(k) /\ q = records[k]
  BY DEF DueRecords
<1> QED
  BY <1>1 DEF RecordsKeyed, Current, Queued

\* The step of a call that changes no record and tells nobody anything.
LEMMA QuietLives ==
  ASSUME UNCHANGED <<records, events, accepted>>
  PROVE  \A k \in Keys : Lives(k)
BY DEF Lives, Kept

\* A call that starts finds none under way.
LEMMA NewCallAlone ==
  ASSUME ExclusiveCalls, TypeOK, TypeOK', RecordsKeyed, OneCall, NewCall
  PROVE  OneCall' /\ UNCHANGED <<records, events, accepted>>
<1>1. NoTick /\ NoEnqueue /\ NoCancel /\ NoPrune
  BY Stage DEF NewCall, MayCall
<1>2. CASE TickBegin
  <2>1. /\ tickPc' = "loop" /\ due' = DueRecords(now) /\ cur' = {}
        /\ UNCHANGED <<records, enqs, cancels, prunes, events, accepted>>
    BY <1>1, <1>2 DEF TickBegin, NoTick
  <2>2. \A q \in due' : Current(q)'
    BY <2>1, DueIsCurrent DEF Current, IsTerminal, KeyOf
  <2>3. Ticking' /\ tickPc' # "idle"
    BY <1>1, <2>1, <2>2 DEF Ticking, NoEnqueue, NoCancel, NoPrune
  <2> QED
    BY <2>1, <2>3 DEF OneCall
<1>3. ASSUME NEW e \in Enqueuers, NEW k \in Keys, NEW x \in Expiries, EnqueueBegin(e, k, x)
      PROVE  OneCall' /\ UNCHANGED <<records, events, accepted>>
  <2> DEFINE q == NewRecord(k, x)
  <2>1. /\ records[k] = NoRecord /\ enqs' = [enqs EXCEPT ![e] = {q}]
        /\ UNCHANGED <<records, tickPc, due, cur, cancels, prunes, events, accepted>>
    BY <1>3 DEF EnqueueBegin
  <2>2. KeyOf(q) = k
    BY DEF NewRecord, KeyOf, Keys
  <2>3. ~IsTerminal(q)
    BY NewRecordType DEF TypeOK
  <2> HIDE DEF q
  <2>4. \A f \in Enqueuers : enqs'[f] = IF f = e THEN {q} ELSE enqs[f]
    BY <2>1 DEF TypeOK
  <2>5. \A y \in enqs'[e] : (records[KeyOf(y)] = NoRecord /\ ~IsTerminal(y))'
    BY <2>1, <2>2, <2>3, <2>4 DEF IsTerminal, KeyOf
  <2>6. Enqueuing(e)'
    BY <1>1, <2>1, <2>4, <2>5 DEF Enqueuing, NoTick, NoEnqueue, NoCancel, NoPrune
  <2> QED
    BY <2>1, <2>6 DEF OneCall
<1>4. ASSUME NEW c \in Cancelers, NEW todo \in SUBSET QueueState, \A q \in todo : Current(q),
             cancels' = [cancels EXCEPT ![c] = [todo |-> todo, pending |-> {}, now |-> now]],
             UNCHANGED <<records, tickPc, due, cur, enqs, prunes, events, accepted>>
      PROVE  OneCall' /\ UNCHANGED <<records, events, accepted>>
  <2>1. /\ cancels'[c].todo = todo /\ cancels'[c].pending = {}
        /\ \A d \in Cancelers : d # c => cancels'[d] = cancels[d]
    BY <1>4 DEF TypeOK
  <2>2. \A q \in todo : Current(q)'
    BY <1>4 DEF Current, IsTerminal, KeyOf
  <2>3. Canceling(c)'
    BY <1>1, <1>4, <2>1, <2>2 DEF Canceling, NoTick, NoEnqueue, NoCancel, NoPrune
  <2> QED
    BY <1>4, <2>3 DEF OneCall
<1>5. ASSUME NEW c \in Cancelers, NEW k \in Keys, CancelBegin(c, k)
      PROVE  OneCall' /\ UNCHANGED <<records, events, accepted>>
  <2>1. records[k] \in QueueState /\ Current(records[k])
    BY <1>5 DEF CancelBegin, Queued, TypeOK, RecordsKeyed, Current
  <2> QED
    BY <1>4, <1>5, <2>1 DEF CancelBegin
<1>6. ASSUME NEW c \in Cancelers, NEW v \in Envelopes, CancelEnvelopeBegin(c, v)
      PROVE  OneCall' /\ UNCHANGED <<records, events, accepted>>
  <2>1. EnvelopeMatches(v) \in SUBSET QueueState /\ \A q \in EnvelopeMatches(v) : Current(q)
    BY DueType, DueIsCurrent DEF EnvelopeMatches
  <2> QED
    BY <1>4, <1>6, <2>1 DEF CancelEnvelopeBegin
<1>7. ASSUME NEW p \in Pruners, PruneBegin(p)
      PROVE  OneCall' /\ UNCHANGED <<records, events, accepted>>
  <2>1. /\ prunes' = [prunes EXCEPT ![p] = StaleKeys]
        /\ UNCHANGED <<records, tickPc, due, cur, enqs, cancels, events, accepted>>
    BY <1>7 DEF PruneBegin
  <2>2. prunes'[p] = StaleKeys /\ \A r \in Pruners : r # p => prunes'[r] = prunes[r]
    BY <2>1 DEF TypeOK
  <2>3. \A k \in StaleKeys : Terminal(k)'
    BY <2>1 DEF StaleKeys, Terminal, IsTerminal
  <2>4. Pruning(p)'
    BY <1>1, <2>1, <2>2, <2>3 DEF Pruning, NoTick, NoEnqueue, NoCancel, NoPrune
  <2> QED
    BY <2>1, <2>4 DEF OneCall
<1> QED
  BY <1>2, <1>3, <1>5, <1>6, <1>7 DEF NewCall

\* A step of the tick that runs alone gives each record at most one step of
\* its life, and leaves the copies it still holds current.
LEMMA TickAlone ==
  ASSUME MaxPutFailures = 0, TypeOK, TypeOK', RecordsKeyed, AnnouncedOnce, OneCall, TickStep
  PROVE  OneCall' /\ RecordsKeyed' /\ \A k \in Keys : Lives(k)
<1>1. tickPc # "idle"
  BY DEF TickStep, TickExpire, TickAttempt, TickDelivered, TickDeliverThrows, TickEnd
<1>2. Ticking
  BY <1>1, Stage
<1>3. ASSUME NEW q \in due \cup cur, NEW y \in QueueState, PutOk(y), KeyOf(y) = KeyOf(q),
             due' \subseteq due \ {q}, cur' = {},
             tickPc' = "loop", UNCHANGED <<enqs, cancels, prunes>>,
             Lives(KeyOf(q)),
             \A k \in Keys : k # KeyOf(q) => events'[k] = events[k] /\ (k \in accepted' => k \in accepted)
      PROVE  OneCall' /\ RecordsKeyed' /\ \A k \in Keys : Lives(k)
  <2>1. /\ RecordsKeyed'
        /\ \A k \in Keys : k # KeyOf(q) => records'[k] = records[k]
    BY <1>3, PutOne
  <2>2. \A k \in Keys : Lives(k)
    BY <1>3, <2>1 DEF Lives, Kept
  <2>3. ASSUME NEW p \in due' PROVE Current(p)'
    <3>1. p \in due /\ p # q /\ p \in QueueState /\ Current(p) /\ Current(q)
      BY <1>2, <1>3, <2>3 DEF Ticking, TypeOK
    <3>2. KeyOf(p) # KeyOf(q) /\ KeyOf(p) \in Keys
      BY <3>1, CurrentOnce, KeyOfType
    <3> QED
      BY <2>1, <3>1, <3>2, StaysCurrent
  <2>4. Ticking' /\ tickPc' # "idle"
    BY <1>2, <1>3, <2>3 DEF Ticking, NoEnqueue, NoCancel, NoPrune
  <2> QED
    BY <2>1, <2>2, <2>4 DEF OneCall
<1>4. ASSUME UNCHANGED <<records, events, accepted, enqs, cancels, prunes>>,
             due' \cup cur' \subseteq due \cup cur, due' \cap cur' = {},
             tickPc' \in {"loop", "delivering"}, tickPc' = "loop" => cur' = {}
      PROVE  OneCall' /\ RecordsKeyed' /\ \A k \in Keys : Lives(k)
  <2>1. RecordsKeyed' /\ \A k \in Keys : Lives(k)
    BY <1>4, QuietLives DEF RecordsKeyed, KeyOf
  <2>2. \A q \in due' \cup cur' : Current(q)'
    BY <1>2, <1>4 DEF Ticking, Current, IsTerminal, KeyOf
  <2>3. Ticking' /\ tickPc' # "idle"
    BY <1>2, <1>4, <2>2 DEF Ticking, NoEnqueue, NoCancel, NoPrune
  <2> QED
    BY <2>1, <2>3 DEF OneCall
<1>5. CASE TickExpire
  <2>1. PICK q \in First(due) :
          LET x == SetTerminal(q, "expired", tickNow) IN
            /\ events' = [events EXCEPT ![KeyOf(q)] = Append(@, EventStatus(x))]
            /\ PutOk(x) \/ PutRejects
            /\ due' = due \ {q}
    BY <1>5 DEF TickExpire
  <2> DEFINE x == SetTerminal(q, "expired", tickNow)
  <2>2. q \in due /\ q \in QueueState /\ KeyOf(q) \in Keys /\ Current(q)
    BY <1>2, KeyOfType DEF TypeOK, First, Ticking
  <2>3. x \in QueueState /\ IsTerminal(x) /\ KeyOf(x) = KeyOf(q)
    BY <2>2, SetTerminalType DEF TypeOK, TerminalStates
  <2> HIDE DEF x
  <2>4. PutOk(x) /\ events' = [events EXCEPT ![KeyOf(q)] = Append(@, EventStatus(x))]
    BY <2>1, NoReject DEF x
  <2>5. records'[KeyOf(q)] = x
    BY <2>3, <2>4, PutOne
  <2>6. /\ events'[KeyOf(q)] = Append(events[KeyOf(q)], EventStatus(x))
        /\ \A k \in Keys : k # KeyOf(q) => events'[k] = events[k]
    BY <2>2, <2>4 DEF TypeOK
  <2>7. KeyOf(q) \notin accepted'
    <3>1. ~IsTerminal(records[KeyOf(q)])
      BY <2>2 DEF Current
    <3> QED
      BY <1>5, <2>2, <3>1 DEF AnnouncedOnce, IsTerminal, TickExpire
  <2>8. x # NoRecord /\ records[KeyOf(q)] # NoRecord
    BY <2>2, <2>3, NoRecordAssumption DEF Current
  <2>9. Ended(KeyOf(q))
    BY <2>2, <2>3, <2>5, <2>6, <2>7, <2>8 DEF Ended, Queued, Terminal, Current, IsTerminal
  <2>10. /\ due' = due \ {q} /\ cur' = {} /\ tickPc' = "loop"
         /\ UNCHANGED <<enqs, cancels, prunes, accepted>>
    BY <1>2, <1>5, <2>1 DEF TickExpire, Ticking
  <2> QED
    BY <1>3, <2>2, <2>3, <2>4, <2>6, <2>9, <2>10 DEF Lives
<1>6. CASE TickAttempt
  <2>1. PICK q \in First(due) : cur' = {q} /\ due' = due \ {q}
    BY <1>6 DEF TickAttempt
  <2>2. q \in due
    BY DEF First
  <2> QED
    BY <1>4, <1>6, <2>1, <2>2 DEF TickAttempt
<1>7. ASSUME NEW res \in AttemptResults, TickDelivered(res)
      PROVE  OneCall' /\ RecordsKeyed' /\ \A k \in Keys : Lives(k)
  <2>1. PICK q \in cur : \E y \in AfterAttempt(q, res) :
          /\ events' = IF IsTerminal(y)
                       THEN [events EXCEPT ![KeyOf(q)] = Append(@, EventStatus(y))]
                       ELSE events
          /\ accepted' = IF res.status = "delivered"
                         THEN accepted \cup {KeyOf(q)} ELSE accepted
          /\ PutOk(y) \/ PutRejects
    BY <1>7 DEF TickDelivered
  <2>2. PICK y \in AfterAttempt(q, res) :
          /\ events' = IF IsTerminal(y)
                       THEN [events EXCEPT ![KeyOf(q)] = Append(@, EventStatus(y))]
                       ELSE events
          /\ accepted' = IF res.status = "delivered"
                         THEN accepted \cup {KeyOf(q)} ELSE accepted
          /\ PutOk(y) \/ PutRejects
    BY <2>1
  <2>3. q \in QueueState /\ KeyOf(q) \in Keys /\ tickNow \in Nat /\ Current(q)
    BY <1>2, KeyOfType DEF TypeOK, Ticking
  <2>4. y \in QueueState /\ KeyOf(y) = KeyOf(q)
    BY <2>3, AfterAttemptType
  <2>5. PutOk(y) /\ records'[KeyOf(q)] = y
    BY <2>2, <2>4, NoReject, PutOne
  <2>6. /\ events'[KeyOf(q)] = IF IsTerminal(y) THEN Append(events[KeyOf(q)], EventStatus(y))
                               ELSE events[KeyOf(q)]
        /\ \A k \in Keys : k # KeyOf(q) => events'[k] = events[k]
    BY <2>2, <2>3 DEF TypeOK
  <2>7. /\ KeyOf(q) \in accepted' <=> res.status = "delivered"
        /\ \A k \in Keys : k # KeyOf(q) => (k \in accepted' => k \in accepted)
    <3>1. ~IsTerminal(records[KeyOf(q)])
      BY <2>3 DEF Current
    <3>2. KeyOf(q) \notin accepted
      BY <2>3, <3>1 DEF AnnouncedOnce, IsTerminal
    <3> QED
      BY <2>2, <3>2
  <2>8. res.status = "delivered" => y.state = "delivered" /\ IsTerminal(y)
    <3>1. ASSUME res.status = "delivered"
          PROVE  y = SetTerminal(Attempted(q, res), "delivered", tickNow)
      BY <3>1 DEF AfterAttempt
    <3>2. ~IsTerminal(Attempted(q, res)) /\ Attempted(q, res).state = q.state
      BY <2>3 DEF Attempted, Current, IsTerminal, QueueState
    <3>3. DOMAIN Attempted(q, res) = DOMAIN q
      BY DEF Attempted
    <3>4. "state" \in DOMAIN q
      BY <2>3 DEF QueueState
    <3> QED
      BY <3>1, <3>2, <3>3, <3>4 DEF SetTerminal, IsTerminal
  <2>9. y # NoRecord /\ records[KeyOf(q)] # NoRecord
    BY <2>3, <2>4, NoRecordAssumption DEF Current
  <2>10. IsTerminal(y) => events'[KeyOf(q)] # events[KeyOf(q)]
    <3>1. events[KeyOf(q)] = <<>>
      <4>1. ~Terminal(KeyOf(q))
        BY <2>3 DEF Terminal, Current
      <4> QED
        BY <2>3, <4>1 DEF AnnouncedOnce
    <3>2. Append(events[KeyOf(q)], EventStatus(y)) # <<>>
      BY <2>3, AppendIsNotEmpty DEF TypeOK
    <3> QED
      BY <2>6, <3>1, <3>2
  <2>11. CASE IsTerminal(y)
    <3>1. Ended(KeyOf(q))
      BY <2>3, <2>5, <2>6, <2>7, <2>8, <2>9, <2>10, <2>11 DEF Ended, Queued, Terminal, Current
    <3>2. due' = due \ {q} /\ cur' = {} /\ tickPc' = "loop" /\ UNCHANGED <<enqs, cancels, prunes>>
      BY <1>2, <1>7 DEF TickDelivered, Ticking
    <3> QED
      BY <1>3, <2>4, <2>5, <2>6, <2>7, <3>1, <3>2 DEF Lives
  <2>12. CASE ~IsTerminal(y)
    <3>1. Rescheduled(KeyOf(q))
      BY <2>3, <2>5, <2>6, <2>7, <2>8, <2>9, <2>12 DEF Rescheduled, Queued, Current, IsTerminal
    <3>2. due' = due \ {q} /\ cur' = {} /\ tickPc' = "loop" /\ UNCHANGED <<enqs, cancels, prunes>>
      BY <1>2, <1>7 DEF TickDelivered, Ticking
    <3> QED
      BY <1>3, <2>4, <2>5, <2>6, <2>7, <3>1, <3>2 DEF Lives
  <2> QED
    BY <2>11, <2>12
<1>8. CASE TickDeliverThrows
  BY <1>4, <1>8 DEF TickDeliverThrows
<1>9. CASE TickEnd
  <2>1. /\ UNCHANGED <<records, events, accepted, enqs, cancels, prunes, cur>>
        /\ tickPc' = "idle" /\ due' = {} /\ cur = {}
    BY <1>2, <1>9 DEF TickEnd, Ticking
  <2>2. (NoTick /\ NoEnqueue /\ NoCancel /\ NoPrune)'
    BY <1>2, <2>1 DEF Ticking, NoTick, NoEnqueue, NoCancel, NoPrune
  <2> QED
    BY <2>1, <2>2, QuietLives DEF OneCall, RecordsKeyed, KeyOf
<1> QED
  BY <1>5, <1>6, <1>7, <1>8, <1>9 DEF TickStep

\* So does a step of any other call that runs alone.
LEMMA CallAlone ==
  ASSUME MaxPutFailures = 0, TypeOK, TypeOK', RecordsKeyed, AnnouncedOnce, OneCall, CallStep
  PROVE  OneCall' /\ RecordsKeyed' /\ \A k \in Keys : Lives(k)
<1>1. ASSUME NEW e \in Enqueuers, EnqueuePut(e)
      PROVE  OneCall' /\ RecordsKeyed' /\ \A k \in Keys : Lives(k)
  <2>1. PICK q \in enqs[e] : PutOk(q)
    BY <1>1, NoReject DEF EnqueuePut
  <2>2. Enqueuing(e) /\ q \in QueueState
    BY <2>1, Stage DEF TypeOK
  <2>3. /\ KeyOf(q) \in Keys /\ records'[KeyOf(q)] = q /\ RecordsKeyed'
        /\ \A k \in Keys : k # KeyOf(q) => records'[k] = records[k]
    BY <2>1, <2>2, PutOne
  <2>4. UNCHANGED <<events, accepted, tickPc, due, cur, cancels, prunes>>
    BY <1>1 DEF EnqueuePut
  <2>5. Entered(KeyOf(q))
    <3>1. records[KeyOf(q)] = NoRecord /\ ~IsTerminal(q) /\ q # NoRecord
      BY <2>1, <2>2, NoRecordAssumption DEF Enqueuing
    <3>2. KeyOf(q) \notin accepted
      BY <2>3, <3>1 DEF AnnouncedOnce
    <3> QED
      BY <2>3, <2>4, <3>1, <3>2 DEF Entered, Queued, IsTerminal
  <2>6. \A k \in Keys : Lives(k)
    BY <2>3, <2>4, <2>5 DEF Lives, Kept
  <2>7. \A f \in Enqueuers : enqs'[f] = IF f = e THEN {} ELSE enqs[f]
    BY <1>1 DEF EnqueuePut, TypeOK
  <2>8. (NoTick /\ NoEnqueue /\ NoCancel /\ NoPrune)'
    BY <2>2, <2>4, <2>7 DEF Enqueuing, NoTick, NoEnqueue, NoCancel, NoPrune
  <2> QED
    BY <2>3, <2>6, <2>8 DEF OneCall
<1>2. ASSUME NEW c \in Cancelers, cancels[c] # IdleCancel,
             events' = Announced(c), UNCHANGED accepted
      PROVE  /\ \A k \in cancels[c].pending : records'[k] = records[k] => Told(k)
             /\ \A k \in Keys : k \notin cancels[c].pending => events'[k] = events[k]
  <2>1. Canceling(c)
    BY <1>2, Stage
  <2>2. cancels[c].pending \subseteq Keys
    BY DEF TypeOK
  <2> QED
    BY <1>2, <2>1, <2>2 DEF Canceling, Announced, Told
<1>3. ASSUME NEW c \in Cancelers, CancelPut(c)
      PROVE  OneCall' /\ RecordsKeyed' /\ \A k \in Keys : Lives(k)
  <2>1. PICK q \in First(cancels[c].todo) :
          /\ PutOk(SetTerminal(q, "canceled", cancels[c].now))
          /\ cancels' = [cancels EXCEPT ![c] =
               [todo |-> @.todo \ {q}, pending |-> {KeyOf(q)}, now |-> @.now]]
    BY <1>3, NoReject DEF CancelPut
  <2> DEFINE x == SetTerminal(q, "canceled", cancels[c].now)
  <2>2. q \in cancels[c].todo /\ cancels[c] # IdleCancel
    BY DEF First, IdleCancel
  <2>3. Canceling(c) /\ Current(q)
    BY <2>2, Stage DEF Canceling
  <2>4. q \in QueueState /\ cancels[c].now \in Nat /\ KeyOf(q) \in Keys
    BY <2>2, KeyOfType DEF TypeOK
  <2>5. x \in QueueState /\ IsTerminal(x) /\ KeyOf(x) = KeyOf(q)
    BY <2>4, SetTerminalType DEF TerminalStates
  <2> HIDE DEF x
  <2>6. PutOk(x)
    BY <2>1 DEF x
  <2>7. /\ records'[KeyOf(q)] = x /\ RecordsKeyed'
        /\ \A k \in Keys : k # KeyOf(q) => records'[k] = records[k]
    BY <2>5, <2>6, PutOne
  <2>8. /\ events' = Announced(c)
        /\ UNCHANGED <<accepted, tickPc, due, cur, enqs, prunes>>
    BY <1>3 DEF CancelPut
  <2>9. KeyOf(q) \notin cancels[c].pending
    BY <2>3 DEF Canceling, Current, Terminal
  <2>10. x # NoRecord /\ records[KeyOf(q)] # NoRecord
    BY <2>3, <2>4, <2>5, NoRecordAssumption DEF Current
  <2>11. events'[KeyOf(q)] = events[KeyOf(q)] /\ KeyOf(q) \notin accepted
    <3>1. events'[KeyOf(q)] = events[KeyOf(q)]
      BY <1>2, <2>2, <2>4, <2>8, <2>9
    <3> QED
      BY <2>3, <2>4, <3>1 DEF AnnouncedOnce, Current, IsTerminal
  <2>12. Ended(KeyOf(q))
    BY <2>3, <2>5, <2>7, <2>8, <2>10, <2>11 DEF Ended, Queued, Terminal, Current, IsTerminal
  <2>13. ASSUME NEW k \in Keys PROVE Lives(k)
    <3>1. CASE k = KeyOf(q)
      BY <2>12, <3>1 DEF Lives
    <3>2. CASE k # KeyOf(q) /\ k \in cancels[c].pending
      BY <1>2, <2>2, <2>7, <2>8, <3>2 DEF Lives
    <3>3. CASE k # KeyOf(q) /\ k \notin cancels[c].pending
      BY <1>2, <2>2, <2>7, <2>8, <3>3 DEF Lives, Kept
    <3> QED
      BY <3>1, <3>2, <3>3
  <2>14. /\ cancels'[c].todo = cancels[c].todo \ {q} /\ cancels'[c].pending = {KeyOf(q)}
         /\ \A d \in Cancelers : d # c => cancels'[d] = cancels[d]
    BY <2>1 DEF TypeOK
  <2>15. ASSUME NEW p \in cancels'[c].todo PROVE Current(p)'
    <3>1. p \in cancels[c].todo /\ p # q /\ p \in QueueState /\ Current(p)
      BY <2>3, <2>14, <2>15 DEF Canceling, TypeOK
    <3>2. KeyOf(p) # KeyOf(q) /\ KeyOf(p) \in Keys
      BY <2>3, <3>1, CurrentOnce, KeyOfType
    <3> QED
      BY <2>7, <3>1, <3>2, StaysCurrent
  <2>16. Terminal(KeyOf(q))' /\ events'[KeyOf(q)] = <<>>
    <3>1. ~Terminal(KeyOf(q))
      BY <2>3 DEF Current, Terminal
    <3>2. events[KeyOf(q)] = <<>>
      BY <2>4, <3>1 DEF AnnouncedOnce
    <3> QED
      BY <2>5, <2>7, <2>10, <2>11, <3>2 DEF Terminal, IsTerminal
  <2>17. Canceling(c)'
    <3>1. \A k \in cancels'[c].pending : Terminal(k)' /\ events'[k] = <<>>
      BY <2>14, <2>16
    <3>2. (NoTick /\ NoEnqueue /\ NoPrune)'
      BY <2>3, <2>8 DEF Canceling, NoTick, NoEnqueue, NoPrune
    <3>3. \A d \in Cancelers \ {c} : cancels'[d] = IdleCancel
      BY <2>3, <2>14 DEF Canceling
    <3>4. IdleCancel' = IdleCancel
      BY DEF IdleCancel
    <3> QED
      BY <2>15, <3>1, <3>2, <3>3, <3>4 DEF Canceling
  <2> QED
    BY <2>7, <2>13, <2>17 DEF OneCall
<1>4. ASSUME NEW c \in Cancelers, CancelEnd(c)
      PROVE  OneCall' /\ RecordsKeyed' /\ \A k \in Keys : Lives(k)
  <2>1. /\ cancels[c] # IdleCancel /\ events' = Announced(c)
        /\ UNCHANGED <<records, accepted, tickPc, due, cur, enqs, prunes>>
    BY <1>4 DEF CancelEnd, IdleCancel
  <2>2. Canceling(c)
    BY <2>1, Stage
  <2>3. \A k \in Keys : Lives(k)
    BY <1>2, <2>1 DEF Lives, Kept
  <2>4. \A d \in Cancelers : cancels'[d] = IF d = c THEN IdleCancel ELSE cancels[d]
    BY <1>4 DEF CancelEnd, TypeOK
  <2>5. (NoTick /\ NoEnqueue /\ NoCancel /\ NoPrune)'
    BY <2>1, <2>2, <2>4 DEF Canceling, NoTick, NoEnqueue, NoCancel, NoPrune, IdleCancel
  <2> QED
    BY <2>1, <2>3, <2>5 DEF OneCall, RecordsKeyed, KeyOf
<1>5. ASSUME NEW p \in Pruners, PruneDelete(p)
      PROVE  OneCall' /\ RecordsKeyed' /\ \A k \in Keys : Lives(k)
  <2>1. PICK k \in prunes[p] :
          /\ records' = [records EXCEPT ![k] = NoRecord]
          /\ prunes' = [prunes EXCEPT ![p] = @ \ {k}]
          /\ events' = [events EXCEPT ![k] = <<>>]
          /\ accepted' = accepted \ {k}
    BY <1>5 DEF PruneDelete
  <2>2. Pruning(p) /\ k \in Keys
    BY <2>1, Stage DEF TypeOK
  <2>3. /\ records'[k] = NoRecord /\ events'[k] = <<>>
        /\ \A j \in Keys : j # k => records'[j] = records[j] /\ events'[j] = events[j]
        /\ prunes'[p] = prunes[p] \ {k} /\ \A r \in Pruners : r # p => prunes'[r] = prunes[r]
    BY <2>1, <2>2 DEF TypeOK
  <2>4. UNCHANGED <<tickPc, due, cur, enqs, cancels>>
    BY <1>5 DEF PruneDelete
  <2>5. Forgotten(k)
    BY <2>1, <2>2, <2>3 DEF Forgotten, Pruning
  <2>6. \A j \in Keys : Lives(j)
    BY <2>1, <2>3, <2>5 DEF Lives, Kept
  <2>7. RecordsKeyed'
    BY <2>3 DEF RecordsKeyed, KeyOf
  <2>8. \A j \in prunes'[p] : Terminal(j)'
    <3>1. \A j \in prunes'[p] : j # k /\ j \in prunes[p] /\ j \in Keys
      BY <2>3 DEF TypeOK
    <3> QED
      BY <2>2, <2>3, <3>1 DEF Pruning, Terminal, IsTerminal
  <2>9. Pruning(p)'
    BY <2>2, <2>3, <2>4, <2>8 DEF Pruning, NoTick, NoEnqueue, NoCancel, IdleCancel
  <2> QED
    BY <2>6, <2>7, <2>9 DEF OneCall
<1> QED
  BY <1>1, <1>3, <1>4, <1>5 DEF CallStep

AloneInv == TypeOK /\ RecordsKeyed /\ AnnouncedOnce /\ OneCall

\* An empty queue has announced nothing and no call is under way.
LEMMA InitAlone == Init => AloneInv
<1> SUFFICES ASSUME Init PROVE AloneInv
  OBVIOUS
<1>1. TypeOK
  BY InitTypeOK
<1>2. \A k \in Keys : records[k] = NoRecord /\ events[k] = <<>> /\ k \notin accepted
  BY DEF Init
<1>3. NoTick /\ NoEnqueue /\ NoCancel /\ NoPrune
  BY DEF Init, NoTick, NoEnqueue, NoCancel, NoPrune
<1> QED
  BY <1>1, <1>2, <1>3 DEF AloneInv, RecordsKeyed, AnnouncedOnce, OneCall, Terminal

\* Every step keeps the inductive invariant, and gives each record at most one
\* step of its life. A restart ends the call that was under way.
LEMMA StepAlone ==
  ASSUME ExclusiveCalls, MaxPutFailures = 0, AloneInv, [Next]_vars
  PROVE  AloneInv' /\ \A k \in Keys : Lives(k)
<1> USE DEF AloneInv
<1>1. TypeOK'
  BY NextTypeOK
<1>2. OneCall' /\ RecordsKeyed' /\ \A k \in Keys : Lives(k)
  <2>1. CASE NewCall
    BY <1>1, <2>1, NewCallAlone, QuietLives DEF RecordsKeyed, KeyOf
  <2>2. CASE TickStep
    BY <1>1, <2>2, TickAlone
  <2>3. CASE CallStep
    BY <1>1, <2>3, CallAlone
  <2>4. CASE Clock \/ UNCHANGED vars
    <3>1. UNCHANGED <<records, events, accepted, tickPc, due, cur, enqs, cancels, prunes>>
      BY <2>4 DEF Clock, vars
    <3>2. RecordsKeyed' /\ \A k \in Keys : Lives(k)
      BY <3>1, QuietLives DEF RecordsKeyed, KeyOf
    <3>3. /\ NoTick' = NoTick /\ NoEnqueue' = NoEnqueue /\ NoCancel' = NoCancel /\ NoPrune' = NoPrune
          /\ Ticking' = Ticking /\ (tickPc' # "idle") = (tickPc # "idle")
          /\ \A e \in Enqueuers : Enqueuing(e)' = Enqueuing(e)
          /\ \A c \in Cancelers : Canceling(c)' = Canceling(c)
          /\ \A p \in Pruners : Pruning(p)' = Pruning(p)
      BY <3>1 DEF NoTick, NoEnqueue, NoCancel, NoPrune, Ticking, Enqueuing, Canceling, Pruning,
                  Current, Terminal, IsTerminal, KeyOf, IdleCancel
    <3> QED
      BY <3>2, <3>3 DEF OneCall
  <2>5. CASE Crash
    <3>1. UNCHANGED <<records, events, accepted>>
      BY <2>5 DEF Crash
    <3>2. (NoTick /\ NoEnqueue /\ NoCancel /\ NoPrune)'
      BY <2>5 DEF Crash, NoTick, NoEnqueue, NoCancel, NoPrune, IdleCancel
    <3> QED
      BY <3>1, <3>2, QuietLives DEF OneCall, RecordsKeyed, KeyOf
  <2> QED
    BY <2>1, <2>2, <2>3, <2>4, <2>5 DEF Next
<1>3. AnnouncedOnce'
  BY <1>1, <1>2, LifeIsQueueStep DEF AnnouncedOnce, Terminal, IsTerminal
<1> QED
  BY <1>1, <1>2, <1>3

\* When callers do not overlap their calls and the store takes what it is given,
\* no envelope whose deliver() answered delivered is ever reported otherwise,
\* restarts between the steps of a call included.
THEOREM DeliveryNeverDenied ==
  ExclusiveCalls /\ MaxPutFailures = 0 => (Spec => []NeverDeniesDelivery)
<1> SUFFICES ASSUME ExclusiveCalls, MaxPutFailures = 0 PROVE Spec => []NeverDeniesDelivery
  OBVIOUS
<1>1. AloneInv => NeverDeniesDelivery
  BY DEF AloneInv, AnnouncedOnce, NeverDeniesDelivery
<1>2. AloneInv /\ [Next]_vars => AloneInv'
  BY StepAlone
<1> QED
  BY <1>1, <1>2, InitAlone, PTL DEF Spec

\* Then the scheduler is the abstract queue: a record is queued once, ends once,
\* is announced at most once and is forgotten only after it ended.
THEOREM QueueImplemented ==
  ExclusiveCalls /\ MaxPutFailures = 0 => (Spec => ImplementsQueue)
<1> SUFFICES ASSUME ExclusiveCalls, MaxPutFailures = 0 PROVE Spec => Queue!Spec
  BY DEF ImplementsQueue
<1>1. Init => Queue!Init
  BY DEF Init, Queue!Init
<1>2. AloneInv /\ [Next]_vars => [Queue!Next]_(Queue!vars)
  <2> SUFFICES ASSUME AloneInv, [Next]_vars PROVE Queue!Next
    OBVIOUS
  <2>1. AloneInv' /\ \A k \in Keys : Lives(k)
    BY StepAlone
  <2>2. ASSUME NEW k \in Keys
        PROVE  Queue!Accept(k) \/ Queue!Resolve(k) \/ Queue!Announce(k) \/ Queue!Evict(k) \/ Queue!Keep(k)
    <3>1. /\ \/ /\ StateOf(k) = "absent" /\ StateOf(k)' = "queued" /\ Len(events[k])' = Len(events[k])
             \/ /\ StateOf(k) = "queued" /\ StateOf(k)' \in TerminalStates
                /\ Len(events[k])' \in {Len(events[k]), Len(events[k]) + 1}
             \/ /\ StateOf(k) \in TerminalStates /\ StateOf(k)' = StateOf(k)
                /\ Len(events[k]) = 0 /\ Len(events[k])' = 1
             \/ /\ StateOf(k) \in TerminalStates /\ StateOf(k)' = "absent"
                /\ Len(events[k])' = 0
             \/ StateOf(k)' = StateOf(k) /\ Len(events[k])' = Len(events[k])
      BY <2>1, LifeIsQueueStep DEF AloneInv
    <3> QED
      BY <3>1 DEF StateOf, Queue!Accept, Queue!Resolve, Queue!Announce, Queue!Evict, Queue!Keep
  <2> QED
    BY <2>2 DEF Queue!Next
<1>3. AloneInv /\ [Next]_vars => AloneInv'
  BY StepAlone
<1> QED
  BY <1>1, <1>2, <1>3, InitAlone, PTL DEF Spec, Queue!Spec
=============================================================================
