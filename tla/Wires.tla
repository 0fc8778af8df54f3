------------------------------- MODULE Wires -------------------------------
(***************************************************************************)
(* A session and the wires it may run over. Rekey has its FIFO transport   *)
(* built in, and the WebSocket and the HTTP/2 transport only promise to be *)
(* one, so a behaviour exercises one of the three.                         *)
(***************************************************************************)
EXTENDS Rekey, WebSocket, H2Session

VARIABLE layer    \* "rekey", "websocket" or "h2"

wiresVars == <<layer, vars, wsVars, h2Vars>>

WiresInit ==
  /\ layer \in {"rekey", "websocket", "h2"}
  /\ Init /\ WebSocketInit /\ H2Init

WiresNext ==
  /\ \/ layer = "rekey" /\ Next /\ UNCHANGED <<wsVars, h2Vars>>
     \/ layer = "websocket" /\ WebSocketNext /\ UNCHANGED <<vars, h2Vars>>
     \/ layer = "h2" /\ H2Next /\ UNCHANGED <<vars, wsVars>>
  /\ UNCHANGED layer

\* The event loop resumes a rekey call whose message has come, the dispatcher
\* keeps an idle end reading, the platform reports the end of a socket that is
\* closing and answers next() once the stream is over.
WiresFairness ==
  /\ \A e \in Ends :
       /\ WF_vars(layer = "rekey" /\ RekeyStep(e))
       /\ WF_vars(layer = "rekey" /\ ReceiveApp(e))
       /\ WF_vars(layer = "rekey" /\ RekeyServer(e))
  /\ WF_wsVars(layer = "websocket" /\ OnClose)
  /\ WF_h2Vars(layer = "h2" /\ (PullEnd \/ PullFails))

WiresSpec == WiresInit /\ [][WiresNext]_wiresVars /\ WiresFairness

\* transport.ts receive, on the WebSocket and the HTTP/2 transport: the calls
\* return the messages whole, in order, none twice and none left out.
FramesInOrder == WsInOrder /\ H2InOrder

\* rekeyClient, and transport.ts receive on both wires: a rekey gets its answer
\* or throws; and once the socket is closing, or the response stream has ended
\* or broken and its last chunk was pulled, no receive call waits for ever.
CallsReturn ==
  /\ InitiatorAnswered
  /\ readyState = "closing" ~> \A i \in DOMAIN wsResults : wsResults[i] # Pending
  /\ streamEnd # "open" /\ stream = <<>> ~> \A i \in DOMAIN h2Results : h2Results[i] # 0
=============================================================================
