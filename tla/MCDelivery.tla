---------------------------- MODULE MCDelivery ----------------------------
(***************************************************************************)
(* Small instances of staged delivery and of the forwarder. They share no  *)
(* state, so a behaviour exercises one of them.                            *)
(***************************************************************************)
EXTENDS StagedRunner, Forwarder, TLC

CONSTANT Parts    \* those of this run: of "staged" and "forwarder"

-----------------------------------------------------------------------------
(* Staged delivery *)

Cert(stage) == [mode |-> "open", allowsSender |-> TRUE, delivery_stage |-> stage]

\* Certificates with a stage of their own, one without, a revoked one, and one
\* whose lists exclude the sender but whose stage still counts.
StagedCerts == {Cert(0), Cert(1), Cert(2), NoCert, [Cert(2) EXCEPT !.allowsSender = FALSE]}

\* Three stages and two.
Given(first, second) == "d1" :> first @@ "d2" :> second
ThreeStages == Given(Cert(1), Cert(2))
TwoStages == Given(Cert(1), NoCert)

\* One envelope while certificates change; one that is held again; two at the
\* same time under overlapping ticks; two of which one is held again while a
\* tick still has callbacks to make.
ChangingLoad == [holds |-> 1 :> 1 @@ 2 :> 0, tickers |-> {"t1"}, certs |-> {TwoStages}, certChanges |-> 2]
SomeLoads ==
  {ChangingLoad,
   [ChangingLoad EXCEPT !.certs = [Delegates -> StagedCerts], !.certChanges = 1],
   [ChangingLoad EXCEPT !.holds = 1 :> 2 @@ 2 :> 0, !.certChanges = 1],
   [holds |-> 1 :> 1 @@ 2 :> 1, tickers |-> {"t1", "t2"}, certs |-> {ThreeStages}, certChanges |-> 0],
   [holds |-> 1 :> 1 @@ 2 :> 2, tickers |-> {"t1"}, certs |-> {TwoStages}, certChanges |-> 0]}
OneLoad == {ChangingLoad}

-----------------------------------------------------------------------------
(* The forwarder *)

TwoPeers == [c \in Calls |-> IF c = "c3" THEN "b" ELSE "a"]

-----------------------------------------------------------------------------

VARIABLE part

DeliveryInit ==
  /\ part \in Parts
  /\ StagedInit /\ ForwarderInit
  /\ part # "staged" => load = ChangingLoad

DeliveryNext ==
  /\ \/ part = "staged" /\ StagedNext /\ UNCHANGED forwarderVars
     \/ part = "forwarder" /\ ForwarderNext /\ UNCHANGED stagedVars
  /\ UNCHANGED part

DeliverySpec ==
  /\ DeliveryInit
  /\ [][DeliveryNext]_<<part, stagedVars, forwarderVars>>
  /\ StagedFairness
  /\ ForwarderFairness
=============================================================================
