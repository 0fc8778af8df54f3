---------------------------- MODULE Negotiation ----------------------------
(***************************************************************************)
(* What the handshakes of src/src/handshake compute from their messages:   *)
(* the suite, the confirmation hash and the session keys, symbolically.    *)
(***************************************************************************)
EXTENDS Integers, Sequences

CONSTANT NoSuite    \* pickSuite's undefined

\* pickSuite: the answering side's first choice among the offered suites.
PickSuite(offers, supports) ==
  LET common == {i \in DOMAIN supports : supports[i] \in offers} IN
  IF common = {} THEN NoSuite
  ELSE supports[CHOOSE i \in common : \A j \in common : i <= j]

\* A hash is what it was computed over.
ConfirmationHash(init, resp) == <<init, resp>>

\* Key agreement and KDF: the suite and the two parties' fresh secrets.
SessionKeys(suite, initiator, responder) ==
  [suite |-> suite, initiator |-> initiator, responder |-> responder]
=============================================================================
