------------------------------ MODULE Account ------------------------------
(***************************************************************************)
(* The account stores of a home server: closures, migrations and backup    *)
(* bundles. They share the clock and nothing else (no file of one imports  *)
(* another), so a behaviour exercises one of them: interleaving them adds  *)
(* states and no new case.                                                 *)
(***************************************************************************)
EXTENDS Closure, Migration, BundleStore

Parts == {"closure", "migration", "bundles"}

CONSTANT MaxTime     \* bound: part -> the last time of its behaviours

ASSUME ClockAssumption == MaxTime \in [Parts -> Nat]

VARIABLE part     \* the store this behaviour exercises

vars == <<now, part, closureVars, migrationVars, bundleVars>>

Init ==
  /\ now = 0
  /\ part \in Parts
  /\ ClosureInit /\ MigrationInit /\ BundleInit

Next ==
  /\ \/ Advance(MaxTime[part]) /\ UNCHANGED <<closureVars, migrationVars, bundleVars>>
     \/ part = "closure" /\ ClosureNext /\ UNCHANGED <<now, migrationVars, bundleVars>>
     \/ part = "migration" /\ MigrationNext /\ UNCHANGED <<now, closureVars, bundleVars>>
     \/ part = "bundles" /\ BundleNext /\ UNCHANGED <<now, closureVars, migrationVars>>
  /\ UNCHANGED part

Spec == Init /\ [][Next]_vars

\* Time passes, and the operator keeps calling the closure driver's tick.
FairSpec == Spec /\ WF_now(Advance(MaxTime[part])) /\ (part = "closure" => ClosureFairness)

-----------------------------------------------------------------------------
=============================================================================
