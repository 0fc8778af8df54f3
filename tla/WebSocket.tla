----------------------------- MODULE WebSocket -----------------------------
(***************************************************************************)
(* The WebSocket transport of src/src/transport/ws.ts: dial and the        *)
(* WSTransport it resolves with, over one socket.                          *)
(*                                                                         *)
(* Every handler and every method runs to its end before another one      *)
(* starts, so each is one action. The socket is the platform's: it         *)
(* delivers the peer's frames in order while it is open, delivers none     *)
(* once close was called on it, and reports its end with a close event,    *)
(* which an error event may precede. Frames are numbered from 1.           *)
(***************************************************************************)
EXTENDS Integers, Sequences

CONSTANTS
  MaxWsFrames,     \* bound: frames the peer sends
  MaxWsReceives,   \* bound: receive calls
  MaxWsSends       \* bound: send calls

ASSUME WebSocketAssumption == MaxWsFrames \in Nat /\ MaxWsReceives \in Nat /\ MaxWsSends \in Nat

\* What a receive call has instead of a message.
Pending == 0
Null == -1
Rejected == -2

VARIABLES
  dialing,     \* "idle", "pending", "resolved" or "rejected"
  readyState,  \* of the socket: "none", "connecting", "open", "closing", "closed"
  wsWire,      \* frames on their way: [n, text]
  wsFrames,    \* frames the peer has sent
  wsBuffer,    \* messages that wait for a receive
  waiters,     \* receive calls that wait for a message, by number
  wsClosed,    \* this.closed
  closeError,  \* this.closeError is set
  wsResults,   \* per receive call: its message, Pending, Null or Rejected
  wsSends,     \* per send call: "sent", "discarded" or "rejected"
  closing,     \* the close call: "none", "pending" or "resolved"
  arrivals     \* history: the messages the socket delivered

socketVars == <<readyState, wsWire, wsFrames>>
wsVars == <<dialing, socketVars, wsBuffer, waiters, wsClosed, closeError, wsResults, wsSends,
            closing, arrivals>>

WebSocketInit ==
  /\ dialing = "idle" /\ readyState = "none"
  /\ wsWire = <<>> /\ wsFrames = 0
  /\ wsBuffer = <<>> /\ waiters = <<>> /\ wsClosed = FALSE /\ closeError = FALSE
  /\ wsResults = <<>> /\ wsSends = <<>> /\ closing = "none" /\ arrivals = <<>>

transportVars == <<wsBuffer, waiters, wsClosed, closeError, wsResults, wsSends, closing, arrivals>>

-----------------------------------------------------------------------------
(* dial *)

\* A scheme other than wss throws before there is a socket.
Dial ==
  /\ dialing = "idle"
  /\ \/ dialing' = "rejected" /\ UNCHANGED readyState
     \/ dialing' = "pending" /\ readyState' = "connecting"
  /\ UNCHANGED <<wsWire, wsFrames, transportVars>>

\* The open event. The transport attaches its listeners in the same task; a
\* server that confirmed another subprotocol is hung up on.
DialOpens ==
  /\ dialing = "pending" /\ readyState = "connecting"
  /\ \/ dialing' = "resolved" /\ readyState' = "open"
     \/ dialing' = "rejected" /\ readyState' = "closing"
  /\ UNCHANGED <<wsWire, wsFrames, transportVars>>

\* Mutant: the timer and the abort listener reject and leave the socket alone.
DialFailsOpen ==
  /\ dialing = "pending"
  /\ dialing' = "rejected"
  /\ readyState' \in {"connecting", "closed"}
  /\ UNCHANGED <<wsWire, wsFrames, transportVars>>

\* The timer or the abort signal, which make dial close the socket, or the
\* socket's own close or error event.
DialFails ==
  /\ dialing = "pending"
  /\ dialing' = "rejected"
  /\ readyState' \in {"closing", "closed"}
  /\ UNCHANGED <<wsWire, wsFrames, transportVars>>

\* The socket of a rejected dial finishes closing; nobody listens any more.
SocketEnds ==
  /\ dialing = "rejected"
  /\ readyState = "closing" /\ readyState' = "closed"
  /\ UNCHANGED <<dialing, wsWire, wsFrames, transportVars>>

-----------------------------------------------------------------------------
(* The socket's events *)

PeerSendsFrame(text) ==
  /\ dialing = "resolved" /\ readyState \in {"open", "closing"}
  /\ wsFrames < MaxWsFrames
  /\ wsFrames' = wsFrames + 1
  /\ wsWire' = Append(wsWire, [n |-> wsFrames + 1, text |-> text])
  /\ UNCHANGED <<dialing, readyState, transportVars>>

Settle(calls, outcome) ==
  [i \in DOMAIN wsResults |-> IF \E k \in DOMAIN calls : calls[k] = i THEN outcome ELSE wsResults[i]]

\* failAll
FailAll ==
  /\ closeError' = TRUE /\ wsClosed' = TRUE
  /\ wsResults' = Settle(waiters, Rejected)
  /\ waiters' = <<>>

\* The message event: to the first waiter, or into the buffer. A binary frame
\* fails the transport and closes the socket.
OnMessage ==
  /\ readyState = "open" /\ dialing = "resolved" /\ wsWire # <<>>
  /\ wsWire' = Tail(wsWire)
  /\ LET frame == Head(wsWire) IN
     \/ /\ frame.text /\ waiters # <<>>
        /\ wsResults' = Settle(<<Head(waiters)>>, frame.n)
        /\ waiters' = Tail(waiters)
        /\ arrivals' = Append(arrivals, frame.n)
        /\ UNCHANGED <<readyState, wsBuffer, wsClosed, closeError>>
     \/ /\ frame.text /\ waiters = <<>>
        /\ wsBuffer' = Append(wsBuffer, frame.n)
        /\ arrivals' = Append(arrivals, frame.n)
        /\ UNCHANGED <<readyState, waiters, wsResults, wsClosed, closeError>>
     \/ /\ ~frame.text
        /\ FailAll
        /\ readyState' = "closing"
        /\ UNCHANGED <<wsBuffer, arrivals>>
  /\ UNCHANGED <<dialing, wsFrames, wsSends, closing>>

\* The error event, when the platform fails the connection, also one that is
\* closing.
OnError ==
  /\ readyState \in {"open", "closing"} /\ dialing = "resolved"
  /\ readyState' = "closing"
  /\ FailAll
  /\ UNCHANGED <<dialing, wsWire, wsFrames, wsBuffer, wsSends, closing, arrivals>>

\* The close event: after close was called, after the peer's close frame, or
\* because the connection broke, which loses what was on the wire.
OnClose ==
  /\ dialing = "resolved"
  /\ readyState \in {"open", "closing"}
  /\ readyState' = "closed" /\ wsClosed' = TRUE
  /\ wsResults' = Settle(waiters, Null) /\ waiters' = <<>>
  /\ closing' = IF closing = "pending" THEN "resolved" ELSE closing
  /\ UNCHANGED <<dialing, wsWire, wsFrames, wsBuffer, closeError, wsSends, arrivals>>

-----------------------------------------------------------------------------
(* The transport's methods *)

\* A socket that is closing discards what it is given and says nothing.
WsSend ==
  /\ dialing = "resolved" /\ Len(wsSends) < MaxWsSends
  /\ wsSends' = Append(wsSends, IF wsClosed THEN "rejected"
                                ELSE IF readyState = "open" THEN "sent" ELSE "discarded")
  /\ UNCHANGED <<dialing, socketVars, wsBuffer, waiters, wsClosed, closeError, wsResults, closing, arrivals>>

WsReceive ==
  /\ dialing = "resolved" /\ Len(wsResults) < MaxWsReceives
  /\ \/ /\ wsBuffer # <<>>
        /\ wsResults' = Append(wsResults, Head(wsBuffer))
        /\ wsBuffer' = Tail(wsBuffer)
        /\ UNCHANGED waiters
     \/ /\ wsBuffer = <<>> /\ wsClosed
        /\ wsResults' = Append(wsResults, IF closeError THEN Rejected ELSE Null)
        /\ UNCHANGED <<wsBuffer, waiters>>
     \/ /\ wsBuffer = <<>> /\ ~wsClosed
        /\ wsResults' = Append(wsResults, Pending)
        /\ waiters' = Append(waiters, Len(wsResults) + 1)
        /\ UNCHANGED wsBuffer
  /\ UNCHANGED <<dialing, socketVars, wsClosed, closeError, wsSends, closing, arrivals>>

\* close resolves with the close event, or at once on a closed transport.
WsClose ==
  /\ dialing = "resolved" /\ closing = "none"
  /\ \/ wsClosed /\ closing' = "resolved" /\ UNCHANGED readyState
     \/ ~wsClosed /\ closing' = "pending" /\ readyState' = "closing"
  /\ UNCHANGED <<dialing, wsWire, wsFrames, wsBuffer, waiters, wsClosed, closeError, wsResults, wsSends, arrivals>>

-----------------------------------------------------------------------------

WebSocketNext ==
  \/ Dial \/ DialOpens \/ DialFails \/ SocketEnds
  \/ \E text \in BOOLEAN : PeerSendsFrame(text)
  \/ OnMessage \/ OnError \/ OnClose
  \/ WsSend \/ WsReceive \/ WsClose

WebSocketSpec == WebSocketInit /\ [][WebSocketNext]_wsVars

-----------------------------------------------------------------------------
(* Properties *)

IsEnd(r) == r \in {Null, Rejected}

\* ws.ts receive and the message, close and error handlers: the calls return
\* the socket's messages in order, none twice and none left out, also those
\* that came before a close or an error; a call that was made earlier is
\* answered earlier; after the first null or rejection every call gets the
\* same answer; and no send goes out after one that did not.
WsInOrder ==
  /\ \E n \in 0..Len(wsResults) :
       /\ SubSeq(wsResults, 1, n) \o wsBuffer = arrivals
       /\ \A i \in DOMAIN wsResults : wsResults[i] > 0 => i <= n
  /\ \A i, j \in DOMAIN wsResults : i < j =>
       /\ wsResults[i] = Pending => wsResults[j] = Pending
       /\ IsEnd(wsResults[i]) => wsResults[j] = wsResults[i]
  /\ (\E i \in DOMAIN wsResults : IsEnd(wsResults[i])) => wsBuffer = <<>>
  /\ \A i, j \in DOMAIN wsSends : i < j /\ wsSends[i] # "sent" => wsSends[j] # "sent"

\* ws.ts dial: whether the timer, the abort signal, an event or the wrong
\* subprotocol ends it, a dial that rejects leaves no connection behind.
DialLeavesNothing ==
  dialing = "rejected" => readyState \notin {"connecting", "open"}
=============================================================================
