------------------------------ MODULE MCWires ------------------------------
(***************************************************************************)
(* Small instances of the drivers that make a session and of what a        *)
(* session runs over. They share no state, so a behaviour exercises one.   *)
(***************************************************************************)
EXTENDS Wires, Connect

CONSTANT Exercises   \* what behaviours may exercise

\* runClient implements two; a client may be configured with a third.
Both == {"x25519", "pq"}
AnySuite == Both \cup {"p256"}
Preferences == {<<"x25519">>, <<"pq", "x25519">>}
AllPrograms == {"full", "resumeClient", "resumeOrFull"}

VARIABLE exercise    \* "drivers" or "wires"

\* While the drivers are exercised nothing is enabled that the fairness of the
\* wires asks for: the WebSocket has not been dialed.
ExerciseInit ==
  /\ exercise \in Exercises
  /\ WiresInit /\ ConnectInit
  /\ exercise = "drivers" => layer = "websocket"
  /\ exercise = "wires" => cfg = CHOOSE x \in Configs : TRUE

ExerciseNext ==
  /\ \/ exercise = "wires" /\ WiresNext /\ UNCHANGED connectVars
     \/ exercise = "drivers" /\ ConnectNext /\ UNCHANGED wiresVars
  /\ UNCHANGED exercise

\* A driver's call settles in a behaviour that exercises the drivers.
ExerciseSpec ==
  /\ ExerciseInit
  /\ [][ExerciseNext]_<<exercise, wiresVars, connectVars>>
  /\ WiresFairness
  /\ WF_connectVars(exercise = "drivers" /\ ClientStep)
  /\ WF_connectVars(exercise = "drivers" /\ ServerStep)

\* driver.ts, server.ts, resume.ts: "on error the transport is closed so the
\* peer's pending receive unblocks". In a behaviour that exercises the drivers
\* every call ends, with the one exception of Settles.
DriversSettle == exercise = "drivers" => Settles
=============================================================================
