------------------------------- MODULE Rekey -------------------------------
(***************************************************************************)
(* A session after the handshake and its rekey exchange:                   *)
(* src/src/session/session.ts, rekey.ts and rekey_seal.ts, over the FIFO   *)
(* transport of src/src/transport/memory.ts.                               *)
(*                                                                         *)
(* Either end may initiate. An end runs one call at a time that reads from *)
(* the transport (rekeyClient, rekeyServer or the application's receive);  *)
(* it may send an application frame at any time. The code between two      *)
(* awaits is one action. Session keys and session id change together, so   *)
(* they are one value: the two fresh nonces they were derived from.        *)
(***************************************************************************)
EXTENDS Integers, Sequences

CONSTANTS
  MaxNonces,    \* bound: no rekey is initiated once so many nonces were drawn
  MaxFrames     \* bound: application frames sent

ASSUME RekeyAssumption == MaxNonces \in Nat /\ MaxFrames \in Nat

Ends == {"client", "server"}
Peer(e) == IF e = "client" THEN "server" ELSE "client"
InitialKeys == [a |-> 0, b |-> 0]

VARIABLES
  keys,      \* per end: the current session keys and id
  closed,    \* ends whose session (and transport end) is closed
  erased,    \* ends whose keys have been zeroized
  inbox,     \* per end: frames on their way to it
  call,      \* per end: "idle", "initiate", "respond" or "sending"
  mine,      \* per end: the nonce of its pending rekeyClient, or 0
  next,      \* per end: the keys its pending rekeyServer will apply
  displaced, \* history: a rekeyClient read an application frame for its response
  nonces, frames

vars == <<keys, closed, erased, inbox, call, mine, next, displaced, nonces, frames>>

Init ==
  /\ keys = [e \in Ends |-> InitialKeys]
  /\ closed = {} /\ erased = {}
  /\ inbox = [e \in Ends |-> <<>>]
  /\ call = [e \in Ends |-> "idle"]
  /\ mine = [e \in Ends |-> 0]
  /\ next = [e \in Ends |-> InitialKeys]
  /\ displaced = FALSE /\ nonces = 0 /\ frames = 0

-----------------------------------------------------------------------------
(* Frames *)

\* sealRekeyMessage: sealed under the keys and the session id of the sender.
Sealed(e, step, nonce) ==
  [type |-> "SEMP_REKEY", from |-> e, under |-> keys[e], step |-> step, nonce |-> nonce]
AppFrame(e) == [type |-> "app", from |-> e, under |-> keys[e], step |-> "", nonce |-> 0]

\* openRekeyMessage, and the checks on type, direction and step around it.
Opens(e, f, step) ==
  f.type = "SEMP_REKEY" /\ f.from = Peer(e) /\ f.under = keys[e] /\ f.step = step

Send(e, f) == inbox' = [inbox EXCEPT ![Peer(e)] = Append(@, f)]
Take(e) == inbox' = [inbox EXCEPT ![e] = Tail(@)]
Return(e) == call' = [call EXCEPT ![e] = "idle"]

\* A receive that cannot be served: the own end is closed, or the peer closed
\* its end and everything it had sent was read.
Gone(e) == e \in closed \/ (Peer(e) \in closed /\ inbox[e] = <<>>)

-----------------------------------------------------------------------------
(* rekeyClient *)

RekeyClient(e) ==
  /\ call[e] = "idle"
  /\ e \notin closed /\ e \notin erased
  /\ nonces < MaxNonces
  /\ nonces' = nonces + 1
  /\ mine' = [mine EXCEPT ![e] = nonces + 1]
  /\ Send(e, Sealed(e, "rekey-init", nonces + 1))
  /\ call' = [call EXCEPT ![e] = "initiate"]
  /\ UNCHANGED <<keys, closed, erased, next, displaced, frames>>

\* The response opens: derive the new keys and apply them.
RekeyClientApplies(e) ==
  /\ call[e] = "initiate"
  /\ e \notin closed
  /\ inbox[e] # <<>>
  /\ Opens(e, Head(inbox[e]), "rekey-accepted")
  /\ keys' = [keys EXCEPT ![e] = [a |-> mine[e], b |-> Head(inbox[e]).nonce]]
  /\ Take(e) /\ Return(e)
  /\ mine' = [mine EXCEPT ![e] = 0]
  /\ UNCHANGED <<closed, erased, next, displaced, nonces, frames>>

\* Anything else, whatever it is, is consumed and makes the call throw.
RekeyClientThrows(e) ==
  /\ call[e] = "initiate"
  /\ \/ Gone(e) /\ UNCHANGED <<inbox, displaced>>
     \/ /\ e \notin closed
        /\ inbox[e] # <<>>
        /\ ~Opens(e, Head(inbox[e]), "rekey-accepted")
        /\ Take(e)
        /\ displaced' = (displaced \/ Head(inbox[e]).type = "app")
  /\ Return(e)
  /\ mine' = [mine EXCEPT ![e] = 0]
  /\ UNCHANGED <<keys, closed, erased, next, nonces, frames>>

-----------------------------------------------------------------------------
(* rekeyServer *)

RekeyServer(e) ==
  /\ call[e] = "idle"
  /\ e \notin closed
  /\ call' = [call EXCEPT ![e] = "respond"]
  /\ UNCHANGED <<keys, closed, erased, inbox, mine, next, displaced, nonces, frames>>

\* An init opens: new keys, and the accepted message under the current ones.
RekeyServerAccepts(e) ==
  /\ call[e] = "respond"
  /\ e \notin closed
  /\ inbox[e] # <<>>
  /\ Opens(e, Head(inbox[e]), "rekey-init")
  /\ nonces' = nonces + 1
  /\ next' = [next EXCEPT ![e] = [a |-> Head(inbox[e]).nonce, b |-> nonces + 1]]
  /\ inbox' = [inbox EXCEPT ![e] = Tail(@),
                            ![Peer(e)] = Append(@, Sealed(e, "rekey-accepted", nonces + 1))]
  /\ call' = [call EXCEPT ![e] = "sending"]
  /\ UNCHANGED <<keys, closed, erased, mine, displaced, frames>>

\* Mutant: the responder leaves the new keys to the next call.
RekeyServerAppliesNothing(e) ==
  /\ call[e] = "sending"
  /\ Return(e)
  /\ next' = [next EXCEPT ![e] = InitialKeys]
  /\ UNCHANGED <<keys, closed, erased, inbox, mine, displaced, nonces, frames>>

\* After the awaited send; applyRekey throws on a closed session.
RekeyServerApplies(e) ==
  /\ call[e] = "sending"
  /\ keys' = IF e \in closed THEN keys ELSE [keys EXCEPT ![e] = next[e]]
  /\ Return(e)
  /\ next' = [next EXCEPT ![e] = InitialKeys]
  /\ UNCHANGED <<closed, erased, inbox, mine, displaced, nonces, frames>>

RekeyServerThrows(e) ==
  /\ call[e] = "respond"
  /\ \/ Gone(e) /\ UNCHANGED inbox
     \/ /\ e \notin closed
        /\ inbox[e] # <<>>
        /\ ~Opens(e, Head(inbox[e]), "rekey-init")
        /\ Take(e)
  /\ Return(e)
  /\ UNCHANGED <<keys, closed, erased, mine, next, displaced, nonces, frames>>

-----------------------------------------------------------------------------
(* Application traffic, close, erase *)

SendApp(e) ==
  /\ e \notin closed
  /\ frames < MaxFrames
  /\ frames' = frames + 1
  /\ Send(e, AppFrame(e))
  /\ UNCHANGED <<keys, closed, erased, call, mine, next, displaced, nonces>>

\* The dispatcher hands an application frame to its handler.
ReceiveApp(e) ==
  /\ call[e] = "idle"
  /\ e \notin closed
  /\ inbox[e] # <<>> /\ Head(inbox[e]).type = "app"
  /\ Take(e)
  /\ UNCHANGED <<keys, closed, erased, call, mine, next, displaced, nonces, frames>>

Close(e) ==
  /\ e \notin closed
  /\ closed' = closed \cup {e}
  /\ UNCHANGED <<keys, erased, inbox, call, mine, next, displaced, nonces, frames>>

\* erase awaits close, then zeroizes.
Erase(e) ==
  /\ e \in closed
  /\ e \notin erased
  /\ erased' = erased \cup {e}
  /\ UNCHANGED <<keys, closed, inbox, call, mine, next, displaced, nonces, frames>>

-----------------------------------------------------------------------------

RekeyStep(e) ==
  \/ RekeyClientApplies(e) \/ RekeyClientThrows(e)
  \/ RekeyServerAccepts(e) \/ RekeyServerApplies(e) \/ RekeyServerThrows(e)

Next ==
  \E e \in Ends :
    \/ RekeyClient(e) \/ RekeyServer(e) \/ RekeyStep(e)
    \/ SendApp(e) \/ ReceiveApp(e) \/ Close(e) \/ Erase(e)

Spec == Init /\ [][Next]_vars

-----------------------------------------------------------------------------
(* Properties *)

Settled ==
  /\ closed = {}
  /\ \A e \in Ends : call[e] \in {"idle", "respond"}
  /\ \A e \in Ends : \A n \in DOMAIN inbox[e] : inbox[e][n].type = "app"

\* "Both call session.applyRekey() to swap in the new keys and new session_id
\* atomically": when no rekey is under way any more and nobody hung up, the
\* two ends have the same keys. The code breaks this: an application frame that
\* is under way when rekeyClient waits is taken for its response. The call
\* throws, the responder applies its new keys, and the ends part for good.
KeysAlwaysAgree == Settled => keys["client"] = keys["server"]

\* Apart from that, the two ends have the same keys, whoever initiated, also
\* both at once and repeatedly, with application frames sent, under way and read
\* at any time, also by a rekeyServer call, as long as none was read by a
\* rekeyClient.
KeysAgree == Settled /\ ~displaced => keys["client"] = keys["server"]

\* A rekeyClient call is answered: it returns or throws, whatever the other
\* end is doing, and does not wait for ever on a response nobody will send. Once
\* the ends have parted there may be none: an init under keys the other end does
\* not have is consumed and never answered.
InitiatorAnswered ==
  \A e \in Ends : call[e] = "initiate" ~> call[e] # "initiate" \/ displaced
=============================================================================
