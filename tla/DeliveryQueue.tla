--------------------------- MODULE DeliveryQueue ---------------------------
(***************************************************************************)
(* What the delivery queue promises its clients, whatever the schedule: a  *)
(* record is queued once, ends in one terminal state that no later step    *)
(* changes, is announced to the client at most once, and is forgotten only *)
(* after it ended. The promise is one per record: a step may move several  *)
(* records, each along its own life.                                       *)
(***************************************************************************)
EXTENDS Integers

CONSTANTS Keys, TerminalStates

VARIABLES state, notices

vars == <<state, notices>>

Init ==
  /\ state = [k \in Keys |-> "absent"]
  /\ notices = [k \in Keys |-> 0]

Accept(k) ==
  /\ state[k] = "absent" /\ state'[k] = "queued"
  /\ notices'[k] = notices[k]

\* The client may be told in the same step or later.
Resolve(k) ==
  /\ state[k] = "queued" /\ state'[k] \in TerminalStates
  /\ notices'[k] \in {notices[k], notices[k] + 1}

Announce(k) ==
  /\ state[k] \in TerminalStates /\ state'[k] = state[k]
  /\ notices[k] = 0 /\ notices'[k] = 1

\* Eviction ends the record's life; a later record of the same key is new.
Evict(k) ==
  /\ state[k] \in TerminalStates /\ state'[k] = "absent"
  /\ notices'[k] = 0

Keep(k) == state'[k] = state[k] /\ notices'[k] = notices[k]

Next ==
  \A k \in Keys : Accept(k) \/ Resolve(k) \/ Announce(k) \/ Evict(k) \/ Keep(k)

Spec == Init /\ [][Next]_vars
=============================================================================
