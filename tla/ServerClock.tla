---------------------------- MODULE ServerClock ----------------------------
(* The wall clock that the stores of a home server read. *)
EXTENDS Integers

VARIABLE now

\* The bound is on what a model looks at, not on the clock.
Advance(bound) == now < bound /\ now' = now + 1

AtLeast(a, b) == IF a < b THEN b ELSE a
=============================================================================
