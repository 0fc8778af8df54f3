---------------------------- MODULE StagedRunner ----------------------------
(***************************************************************************)
(* Staged delivery on the receiving server:                                *)
(* src/src/delivery/staged_runner.ts with disposition.ts and               *)
(* stage_partition.ts.                                                     *)
(*                                                                         *)
(* An envelope is handed to the devices of its lowest stage, which vote;   *)
(* when all voted or the stage timed out it is suppressed or moves on.     *)
(* tick changes the map first and then awaits one callback per envelope,   *)
(* with no latch: other calls, ticks too, run between its callbacks.       *)
(* hold awaits the first deliver with the envelope already in the map.     *)
(*                                                                         *)
(* Only the current stage ever holds dispositions, so a held envelope has  *)
(* one vote per device. The deadline is kept as the time left. The caller  *)
(* may hold an envelope again; the histories number its holds.             *)
(***************************************************************************)
EXTENDS Sequences, Integers, FiniteSets

(* How an inbound envelope's devices are split into delivery stages:       *)
(* partitionStages of src/src/delivery/stage_partition.ts.                 *)
(*                                                                         *)
(* A delegated device's certificate is reduced to what the split reads:    *)
(* the receive mode, whether the allow/deny lists let the sender through   *)
(* and delivery_stage, 0 when the certificate omits it. The result maps a  *)
(* stage number to the devices of that stage; the sorted array of the code *)
(* is this map read in ascending order.                                    *)

CONSTANTS
  FullAccess,    \* devices with role full_access that the enclosure is wrapped for
  Delegates,     \* delegated devices of the directory
  Wrapped,       \* the delegated devices that the enclosure is wrapped for
  MaxStage,      \* bound: the largest delivery_stage of a certificate
  NoCert         \* certificateProvider answered null

Certs == [mode : {"none", "open"}, allowsSender : BOOLEAN, delivery_stage : 0..MaxStage]
Devices == FullAccess \cup Delegates

ASSUME StagePartitionAssumption ==
  /\ FullAccess \cap Delegates = {}
  /\ Wrapped \subseteq Delegates
  /\ MaxStage \in Nat
  /\ NoCert \notin Certs

MaxOf(S) == CHOOSE m \in S : \A n \in S : n <= m

\* The tally is over every delegate whose mode is not "none", also the ones
\* that this envelope does not reach.
MaxDelegateStage(certs) ==
  MaxOf({0} \cup {certs[d].delivery_stage :
                    d \in {d \in Delegates : certs[d] # NoCert /\ certs[d].mode # "none"}})

FullAccessStage(certs) ==
  IF MaxDelegateStage(certs) > 0 THEN MaxDelegateStage(certs) + 1 ELSE 1

EligibleDelegates(certs) ==
  {d \in Wrapped : /\ certs[d] # NoCert
                   /\ certs[d].mode # "none"
                   /\ certs[d].allowsSender}

StageOf(certs, d) ==
  IF d \in FullAccess THEN FullAccessStage(certs)
  ELSE IF certs[d].delivery_stage < 1 THEN 1 ELSE certs[d].delivery_stage

PartitionStages(certs) ==
  LET eligible == FullAccess \cup EligibleDelegates(certs) IN
  [s \in {StageOf(certs, d) : d \in eligible} |->
     {d \in eligible : StageOf(certs, d) = s}]

-----------------------------------------------------------------------------

CONSTANTS
  Envelopes,         \* envelope ids, numbers so that they have an order
  Tickers,           \* tick calls that may be pending at once
  CertChoices,       \* certificates a delegated device may be given
  StageTimeout,      \* stageTimeoutMs, in units of Clock
  NotHeld,           \* heldMap has no entry
  Loads,             \* bounds: how many times each envelope is held, which tick calls
                     \* there are, the certificates at first and how often they change
  MaxHoldFailures    \* bound: first delivers that reject

Decisions == {"advance", "suppress"}

ASSUME StagedRunnerAssumption ==
  /\ Envelopes \subseteq Nat
  /\ CertChoices \subseteq Certs \cup {NoCert}
  /\ StageTimeout \in Nat \ {0}
  /\ Loads \subseteq [holds : [Envelopes -> Nat], tickers : SUBSET Tickers,
                      certs : SUBSET [Delegates -> CertChoices], certChanges : Nat]
  /\ MaxHoldFailures \in Nat

VARIABLES
  certs,        \* the current certificates of the delegated devices
  held,         \* heldMap: envelope -> stages, votes, time left; or NotHeld
  holding,      \* the hold calls that await their first deliver: <<envelope, hold>>
  ticks,        \* per tick call: the callbacks it still has to make
  holds,        \* history: how often each envelope was held
  calls,        \* history: the callbacks made for the envelope, with the hold they are of
  vetoes,       \* history: the suppress votes that were accepted
  dropped,      \* history: those of them that a reevaluation dropped with their stage
  overlapped,   \* history: a tick began while another had callbacks to make
  load,         \* the load of this behaviour
  certChanges, holdFailures

stagedVars == <<certs, held, holding, ticks, holds, calls, vetoes, dropped, overlapped,
                load, certChanges, holdFailures>>

NoVotes == [d \in Devices |-> "none"]
IsHeld(e) == held[e] # NotHeld
HasStages(e) == IsHeld(e) /\ DOMAIN held[e].stages # {}
Lowest(stages) == CHOOSE s \in DOMAIN stages : \A t \in DOMAIN stages : s <= t
Current(e) == Lowest(held[e].stages)
Pending(e) == held[e].stages[Current(e)]
Call(kind, e, hold, stage, devs) == [kind |-> kind, id |-> e, hold |-> hold, stage |-> stage, devs |-> devs]

StagedInit ==
  /\ load \in Loads /\ certs \in load.certs
  /\ held = [e \in Envelopes |-> NotHeld]
  /\ holding = {}
  /\ ticks = [t \in Tickers |-> {}]
  /\ holds = [e \in Envelopes |-> 0]
  /\ calls = [e \in Envelopes |-> <<>>]
  /\ vetoes = {} /\ dropped = {} /\ overlapped = FALSE
  /\ certChanges = 0 /\ holdFailures = 0

-----------------------------------------------------------------------------
(* hold *)

\* Register the envelope and call deliver for its lowest stage. An empty
\* partition or a held envelope makes the call throw; one that an earlier hold
\* or a tick still has callbacks for is taken.
Hold(e) ==
  LET stages == PartitionStages(certs)
      hold == holds[e] + 1
  IN
  /\ holds[e] < load.holds[e]
  /\ ~IsHeld(e)
  /\ DOMAIN stages # {}
  /\ held' = [held EXCEPT ![e] = [stages |-> stages, votes |-> NoVotes, left |-> StageTimeout]]
  /\ holds' = [holds EXCEPT ![e] = hold]
  /\ holding' = holding \cup {<<e, hold>>}
  /\ calls' = [calls EXCEPT ![e] =
                 Append(@, Call("deliver", e, hold, Lowest(stages), stages[Lowest(stages)]))]
  /\ UNCHANGED <<certs, ticks, vetoes, dropped, overlapped, load, certChanges, holdFailures>>

HoldDelivered(h) ==
  /\ h \in holding
  /\ holding' = holding \ {h}
  /\ UNCHANGED <<certs, held, ticks, holds, calls, vetoes, dropped, overlapped, load, certChanges, holdFailures>>

\* The first deliver rejects: the entry of the envelope is removed so that the
\* caller can hold it again, whatever ticks have made of it meanwhile, and also
\* when it is that of a later hold.
HoldFailed(h) ==
  /\ h \in holding
  /\ holdFailures < MaxHoldFailures
  /\ holdFailures' = holdFailures + 1
  /\ holding' = holding \ {h}
  /\ held' = [held EXCEPT ![h[1]] = NotHeld]
  /\ UNCHANGED <<certs, ticks, holds, calls, vetoes, dropped, overlapped, load, certChanges>>

-----------------------------------------------------------------------------
(* ingestDisposition *)

\* The histories of an accepted vote.
Veto(e) == [id |-> e, hold |-> holds[e], stage |-> Current(e)]
VotedSuppress(e, decision) == vetoes' = IF decision = "suppress" THEN vetoes \cup {Veto(e)} ELSE vetoes

\* Mutant: a repeated disposition replaces the first.
IngestDispositionLast(e, d, decision) ==
  /\ HasStages(e)
  /\ d \in Pending(e)
  /\ held' = [held EXCEPT ![e].votes[d] = decision]
  /\ VotedSuppress(e, decision)
  /\ UNCHANGED <<certs, holding, ticks, holds, calls, dropped, overlapped, load, certChanges, holdFailures>>

\* A device of the current stage votes; a repeat keeps its first vote.
IngestDisposition(e, d, decision) ==
  /\ HasStages(e)
  /\ d \in Pending(e)
  /\ held[e].votes[d] = "none"
  /\ held' = [held EXCEPT ![e].votes[d] = decision]
  /\ VotedSuppress(e, decision)
  /\ UNCHANGED <<certs, holding, ticks, holds, calls, dropped, overlapped, load, certChanges, holdFailures>>

-----------------------------------------------------------------------------
(* tick *)

\* Mutant: the deadline is not looked at.
IsStageCompleteVotesOnly(e) == \A d \in Pending(e) : held[e].votes[d] # "none"

IsStageComplete(e) ==
  held[e].left = 0 \/ \A d \in Pending(e) : held[e].votes[d] # "none"

\* aggregateDispositions: one suppress is enough.
AggregateDispositions(e) ==
  IF \E d \in Devices : held[e].votes[d] = "suppress" THEN "suppress" ELSE "advance"

Due == {e \in Envelopes : HasStages(e) /\ IsStageComplete(e)}

\* Mutant: tick without rec.stages.shift() while stages are left.
RemainingUnshifted(e) ==
  IF Cardinality(DOMAIN held[e].stages) = 1 THEN <<>> ELSE held[e].stages

Remaining(e) ==
  [s \in DOMAIN held[e].stages \ {Current(e)} |-> held[e].stages[s]]

\* What tick leaves in the map for an envelope whose stage is complete.
Advanced(e) ==
  IF AggregateDispositions(e) = "suppress" \/ DOMAIN Remaining(e) = {} THEN NotHeld
  ELSE [stages |-> Remaining(e), votes |-> NoVotes, left |-> StageTimeout]

\* The callback tick will make for it.
Callback(e) ==
  IF AggregateDispositions(e) = "suppress" THEN Call("suppress", e, holds[e], Current(e), {})
  ELSE IF DOMAIN Remaining(e) = {} THEN Call("complete", e, holds[e], Current(e), {})
  ELSE Call("deliver", e, holds[e], Lowest(Remaining(e)), Remaining(e)[Lowest(Remaining(e))])

\* Callbacks run in the order of envelope ids, each after the one before it
\* has settled. One that rejects is reported by tick and changes nothing else.
First(S) == CHOOSE p \in S : \A q \in S : p.id <= q.id
MakeCall(t, S) ==
  /\ calls' = [calls EXCEPT ![First(S).id] = Append(@, First(S))]
  /\ ticks' = [ticks EXCEPT ![t] = S \ {First(S)}]

\* The synchronous part of tick: every complete envelope at once, then the
\* first callback.
TickBegin(t) ==
  /\ t \in load.tickers
  /\ ticks[t] = {}
  /\ Due # {}
  /\ held' = [e \in Envelopes |-> IF e \in Due THEN Advanced(e) ELSE held[e]]
  /\ MakeCall(t, {Callback(e) : e \in Due})
  /\ overlapped' = (overlapped \/ \E u \in Tickers : ticks[u] # {})
  /\ UNCHANGED <<certs, holding, holds, vetoes, dropped, load, certChanges, holdFailures>>

TickCallback(t) ==
  /\ ticks[t] # {}
  /\ MakeCall(t, ticks[t])
  /\ UNCHANGED <<certs, held, holding, holds, vetoes, dropped, overlapped, load, certChanges, holdFailures>>

-----------------------------------------------------------------------------
(* reevaluate, certificates, time *)

\* The new partition from the current stage number up. The votes stay when the
\* stage number is still in use; the deadline is not touched, nothing is
\* delivered, and nothing may be left.
Rebuilt(e) ==
  LET new == PartitionStages(certs) IN
  [s \in {s \in DOMAIN new : s >= Current(e)} |-> new[s]]

Reevaluate(e) ==
  /\ HasStages(e)
  /\ LET kept == Current(e) \in DOMAIN Rebuilt(e) IN
       /\ held' = [held EXCEPT ![e].stages = Rebuilt(e),
                               ![e].votes = IF kept THEN @ ELSE NoVotes]
       /\ dropped' = IF kept THEN dropped
                     ELSE dropped \cup {v \in vetoes : v.id = e /\ v.hold = holds[e]}
  /\ UNCHANGED <<certs, holding, ticks, holds, calls, vetoes, overlapped, load, certChanges, holdFailures>>

\* The directory changes while envelopes are held.
ChangeCert(d, cert) ==
  /\ certChanges < load.certChanges
  /\ certs[d] # cert
  /\ certs' = [certs EXCEPT ![d] = cert]
  /\ certChanges' = certChanges + 1
  /\ UNCHANGED <<held, holding, ticks, holds, calls, vetoes, dropped, overlapped, load, holdFailures>>

Clock ==
  /\ \E e \in Envelopes : IsHeld(e) /\ held[e].left > 0
  /\ held' = [e \in Envelopes |->
                IF IsHeld(e) /\ held[e].left > 0
                THEN [held[e] EXCEPT !.left = @ - 1] ELSE held[e]]
  /\ UNCHANGED <<certs, holding, ticks, holds, calls, vetoes, dropped, overlapped, load, certChanges, holdFailures>>

-----------------------------------------------------------------------------

StagedNext ==
  \/ \E e \in Envelopes :
       \/ Hold(e)
       \/ Reevaluate(e)
       \/ \E d \in Devices, v \in Decisions : IngestDisposition(e, d, v)
  \/ \E h \in holding : HoldDelivered(h) \/ HoldFailed(h)
  \/ \E t \in Tickers : TickBegin(t) \/ TickCallback(t)
  \/ \E d \in Delegates, cert \in CertChoices : ChangeCert(d, cert)
  \/ Clock

StagedSpec == StagedInit /\ [][StagedNext]_stagedVars

\* The operator's timer keeps calling tick, callbacks settle, time passes.
StagedFairness ==
  /\ WF_stagedVars(\E t \in Tickers : TickBegin(t))
  /\ \A t \in Tickers : WF_stagedVars(TickCallback(t))
  /\ WF_stagedVars(Clock)

FairStagedSpec == StagedSpec /\ StagedFairness

-----------------------------------------------------------------------------
(* Properties *)

\* A suppress vote obeyed: no callback of its hold goes beyond its stage.
Obeyed(v) ==
  \A i \in DOMAIN calls[v.id] :
    LET c == calls[v.id][i]
    IN  c.hold = v.hold => c.kind # "complete" /\ c.stage <= v.stage

\* "If any disposition is `suppress`, return `suppress`" (aggregateDispositions),
\* and reevaluate "carries forward dispositions already collected at the current
\* stage": a suppress vote that ingestDisposition accepted is obeyed for the rest
\* of its hold, with other reevaluations, repeated votes, timeouts and overlapping
\* ticks, and with other holds of the envelope before and after it. The votes that
\* reevaluate drops, as its new partition has no stage of the current number, are
\* an exception: the code loses them, and they bind nothing. A hold whose first
\* delivery fails ends, and its votes with it: the next hold begins without.
SuppressBinds == \A v \in vetoes \ dropped : Obeyed(v)

\* Two callbacks of one hold are for two stages, or one ends the hold.
Once(c, d) ==
  c.hold = d.hold =>
    IF c.kind = "deliver" /\ d.kind = "deliver" THEN c.stage # d.stage
    ELSE c.kind = "deliver" \/ d.kind = "deliver"

\* The first comes before the second.
InTurn(c, d) ==
  c.hold = d.hold => c.kind = "deliver" /\ (d.kind = "deliver" => c.stage < d.stage)

\* Whatever ticks overlap, and however often an envelope is held, no stage of a
\* hold is delivered twice and it ends once, by suppress or by complete. Until
\* ticks overlap, the callbacks of a hold come in the order of the stages, and
\* nothing after suppress or complete: with overlapping ticks they do not,
\* although "each call is run-to-completion atomic". Once one certificate numbers
\* its stage that order has every delegated device, also one whose certificate
\* gives no number, review an envelope before any full-access device sees it:
\* without any number they are one stage, which the comment about a certificate
\* without a number ("so it does not collide with the full-access implicit
\* stage") does not say.
CallbacksInOrder ==
  /\ \A e \in Envelopes : \A j \in DOMAIN calls[e] : \A i \in 1..(j - 1) :
       /\ Once(calls[e][i], calls[e][j])
       /\ ~overlapped => InTurn(calls[e][i], calls[e][j])
  /\ MaxDelegateStage(certs) > 0 =>
       \A d \in EligibleDelegates(certs), f \in FullAccess : StageOf(certs, d) < StageOf(certs, f)

\* "Let the next tick detect completion": a held envelope leaves the map. The
\* code breaks this: an entry that a reevaluation leaves without stages is
\* skipped by every tick and stays held for ever.
EveryHoldEnds == \A e \in Envelopes : IsHeld(e) ~> ~IsHeld(e)

\* Apart from the entries that reevaluate empties in that way, a held envelope
\* leaves the map, by votes, timeouts or a failed first delivery.
Emptied(e) == IsHeld(e) /\ ~HasStages(e)
StagesRunOut == \A e \in Envelopes : IsHeld(e) ~> (~IsHeld(e) \/ Emptied(e))
=============================================================================
