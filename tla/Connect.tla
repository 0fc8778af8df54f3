------------------------------ MODULE Connect ------------------------------
(***************************************************************************)
(* The drivers that run a handshake over a transport: runClient            *)
(* (src/src/handshake/driver.ts), runServer (server.ts), resumeClient and  *)
(* resumeServer (src/src/session/resume.ts), and runClientResumeOrFull     *)
(* (src/src/handshake/resume_driver.ts), which tries a resume on one       *)
(* transport and falls back to a full handshake on a fresh one.            *)
(*                                                                         *)
(* One client, a connection for the resume and one for the full handshake, *)
(* a server run on each connection that is dialed. What matters here is    *)
(* who waits for whom and how a failure reaches the other end; what the    *)
(* messages prove is the subject of Handshake.                             *)
(***************************************************************************)
EXTENDS Negotiation, FiniteSets

CONSTANTS
  Suites,           \* the suites runClient implements
  OtherSuite,       \* a suite name it does not
  Programs,         \* subset of {"full", "resumeClient", "resumeOrFull"}
  ClientSuites,     \* suites a client may be configured with
  ServerSuites,     \* preference lists a server may be configured with
  RejectReasons,    \* reason codes a ticket lookup may answer with
  MaxCuts           \* bound: connections that break

ASSUME ConnectAssumption ==
  /\ OtherSuite \notin Suites
  /\ Programs \subseteq {"full", "resumeClient", "resumeOrFull"}
  /\ ClientSuites \subseteq Suites \cup {OtherSuite}
  /\ \A l \in ServerSuites : l \in Seq(Suites)
  /\ "none" \notin RejectReasons      \* no reason was read
  /\ MaxCuts \in Nat

Conns == {"resume", "full"}
Sides == {"client", "server"}
Other(side) == IF side = "client" THEN "server" ELSE "client"

VARIABLES
  cfg,       \* the two configurations, and whether the peer of a resume is
             \* another implementation of the protocol
  line,      \* per connection and side: messages on their way to it
  closedEnds, \* <<connection, side>> pairs whose end is closed
  cut,       \* connections that broke
  pc,        \* the client: where it waits, or how its call ended
  reason,    \* the reason code of the last rejection the client read
  server,    \* per connection: where its server run is, or how it ended
  suite      \* the suite runServer negotiated

connectVars == <<cfg, line, closedEnds, cut, pc, reason, server, suite>>

Configs ==
  [program : Programs, suite : ClientSuites, offers : SUBSET Suites,
   pinned : BOOLEAN,          \* the pinned server key is the server's
   identity : {"none", "known", "unknown"},
   supports : ServerSuites,
   lookup : BOOLEAN,          \* runServer has lookupClientIdentityKey
   foreign : BOOLEAN]

ConnectInit ==
  /\ cfg \in Configs
  /\ line = [k \in Conns |-> [s \in Sides |-> <<>>]]
  /\ closedEnds = {} /\ cut = {}
  /\ pc = "start" /\ reason = "none"
  /\ server = [k \in Conns |-> "none"]
  /\ suite = NoSuite

-----------------------------------------------------------------------------
(* The transport *)

Open(k, side) == <<k, side>> \notin closedEnds
Msg(step, what) == [step |-> step, what |-> what]

Has(k, side, step) ==
  Open(k, side) /\ line[k][side] # <<>> /\ Head(line[k][side]).step = step
What(k, side) == Head(line[k][side]).what

\* A receive that will answer null, or reject.
AtEnd(k, side) ==
  ~Open(k, side) \/ (~Open(k, Other(side)) /\ line[k][side] = <<>>)

\* Read the next message; read it and answer it on an end that is still open.
Reads(k, side) == [line EXCEPT ![k][side] = Tail(@)]
ReadThenSend(k, side, m) ==
  line' = [line EXCEPT ![k][side] = Tail(@), ![k][Other(side)] = Append(@, m)]
CloseEnd(k, side) == closedEnds' = closedEnds \cup {<<k, side>>}

\* A connection breaks: what was under way is lost, both ends are closed.
Cut(k) ==
  /\ server[k] # "none"
  /\ Cardinality(cut) < MaxCuts
  /\ k \notin cut
  /\ cut' = cut \cup {k}
  /\ closedEnds' = closedEnds \cup {<<k, "client">>, <<k, "server">>}
  /\ line' = [line EXCEPT ![k] = [s \in Sides |-> <<>>]]
  /\ UNCHANGED <<cfg, pc, reason, server, suite>>

-----------------------------------------------------------------------------
(* The client *)

\* resumeClient, runClientResume: the transport is dialed, the request sent.
ResumeRequest ==
  /\ pc = "start"
  /\ cfg.program # "full"
  /\ server' = [server EXCEPT !["resume"] = "wait"]
  /\ line' = [line EXCEPT !["resume"]["server"] = <<Msg("resume", cfg.program)>>]
  /\ pc' = "resuming"
  /\ UNCHANGED <<cfg, closedEnds, cut, reason, suite>>

ResumeAccepted ==
  /\ pc = "resuming"
  /\ Has("resume", "client", "accepted")
  /\ cfg.pinned
  /\ pc' = "resumed"
  /\ line' = Reads("resume", "client")
  /\ UNCHANGED <<cfg, closedEnds, cut, reason, server, suite>>

\* isResumptionFailed
RecoverableResumptionReasons == {"resumption_failed", "session_expired", "no_session"}

\* A rejection: resumeClient closes and throws; runClientResumeOrFull falls
\* back or throws, and leaves the transport to its caller.
ResumeRejected ==
  /\ pc = "resuming"
  /\ Has("resume", "client", "rejected")
  /\ reason' = What("resume", "client")
  /\ line' = Reads("resume", "client")
  /\ IF cfg.program = "resumeClient"
     THEN pc' = "rejected" /\ CloseEnd("resume", "client")
     ELSE /\ pc' = IF reason' \in RecoverableResumptionReasons THEN "fallback" ELSE "rejected"
          /\ UNCHANGED closedEnds
  /\ UNCHANGED <<cfg, cut, server, suite>>

\* The connection is gone or the accepted message does not verify.
ResumeFails ==
  /\ pc = "resuming"
  /\ AtEnd("resume", "client") \/ (Has("resume", "client", "accepted") /\ ~cfg.pinned)
  /\ pc' = "failed"
  /\ IF cfg.program = "resumeClient" THEN CloseEnd("resume", "client") ELSE UNCHANGED closedEnds
  /\ UNCHANGED <<cfg, line, cut, reason, server, suite>>

\* runClient on a fresh transport: INIT. A suite it does not implement makes
\* it throw before anything else.
RunClient ==
  /\ pc = "fallback" \/ (pc = "start" /\ cfg.program = "full")
  /\ server' = [server EXCEPT !["full"] = "wait"]
  /\ IF cfg.suite \in Suites
     THEN /\ pc' = "response"
          /\ line' = [line EXCEPT !["full"]["server"] = <<Msg("init", cfg.suite)>>]
     ELSE pc' = "failed" /\ UNCHANGED line
  /\ UNCHANGED <<cfg, closedEnds, cut, reason, suite>>

\* RESPONSE verifies: derive the keys, send CONFIRM.
OnResponse ==
  /\ pc = "response"
  /\ Has("full", "client", "response")
  /\ cfg.pinned
  /\ ReadThenSend("full", "client", Msg("confirm", cfg.identity))
  /\ pc' = "accepted"
  /\ UNCHANGED <<cfg, closedEnds, cut, reason, server, suite>>

OnAccepted ==
  /\ pc = "accepted"
  /\ Has("full", "client", "accepted")
  /\ cfg.pinned
  /\ line' = Reads("full", "client")
  /\ pc' = "session"
  /\ UNCHANGED <<cfg, closedEnds, cut, reason, server, suite>>

OnRejected ==
  /\ pc \in {"response", "accepted"}
  /\ Has("full", "client", "rejected")
  /\ reason' = What("full", "client")
  /\ line' = Reads("full", "client")
  /\ pc' = "rejected"
  /\ CloseEnd("full", "client")
  /\ UNCHANGED <<cfg, cut, server, suite>>

\* Mutant: runClient without its catch.
RunClientFailsOpen ==
  /\ pc \in {"response", "accepted"}
  /\ AtEnd("full", "client") \/ (Has("full", "client", pc) /\ ~cfg.pinned)
  /\ pc' = "failed"
  /\ UNCHANGED <<cfg, line, closedEnds, cut, reason, server, suite>>

\* The connection is gone or a signature does not verify: close and throw.
RunClientFails ==
  /\ pc \in {"response", "accepted"}
  /\ AtEnd("full", "client") \/ (Has("full", "client", pc) /\ ~cfg.pinned)
  /\ pc' = "failed"
  /\ CloseEnd("full", "client")
  /\ UNCHANGED <<cfg, line, cut, reason, server, suite>>

-----------------------------------------------------------------------------
(* The server *)

\* Mutant: the transport is closed before the rejection is sent.
RejectClosed(k, code) ==
  /\ line' = [line EXCEPT ![k]["server"] = IF @ = <<>> THEN @ ELSE Tail(@)]
  /\ CloseEnd(k, "server")
  /\ server' = [server EXCEPT ![k] = "rejected"]

\* sendRejected, which swallows a failing send, then the close of the catch.
Reject(k, code) ==
  /\ line' = [line EXCEPT
       ![k]["server"] = IF @ = <<>> THEN @ ELSE Tail(@),
       ![k]["client"] = IF Open(k, "server") THEN Append(@, Msg("rejected", code)) ELSE @]
  /\ CloseEnd(k, "server")
  /\ server' = [server EXCEPT ![k] = "rejected"]

\* resumeServer up to the awaited lookupTicket.
ResumeServer ==
  /\ server["resume"] = "wait"
  /\ Has("resume", "server", "resume")
  /\ line' = Reads("resume", "server")
  /\ server' = [server EXCEPT !["resume"] = "lookup"]
  /\ UNCHANGED <<cfg, closedEnds, cut, pc, reason, suite>>

\* HandshakeClient.resume names its fields differently: resumeServer looks up
\* an undefined ticket for it, which no store holds.
ReadsTicket == cfg.foreign \/ cfg.program = "resumeClient"

\* The ticket is good. Sending on a connection that broke meanwhile throws.
LookupOk ==
  /\ server["resume"] = "lookup"
  /\ ReadsTicket
  /\ IF Open("resume", "server")
     THEN /\ line' = [line EXCEPT !["resume"]["client"] = Append(@, Msg("accepted", ""))]
          /\ server' = [server EXCEPT !["resume"] = "session"]
     ELSE server' = [server EXCEPT !["resume"] = "failed"] /\ UNCHANGED line
  /\ UNCHANGED <<cfg, closedEnds, cut, pc, reason, suite>>

\* lookupTicket throws: the transport is closed, and no rejection is sent.
LookupThrows ==
  /\ server["resume"] = "lookup"
  /\ server' = [server EXCEPT !["resume"] = "failed"]
  /\ CloseEnd("resume", "server")
  /\ UNCHANGED <<cfg, line, cut, pc, reason, suite>>

LookupFails(code) ==
  /\ server["resume"] = "lookup"
  /\ Reject("resume", code)
  /\ UNCHANGED <<cfg, cut, pc, reason, suite>>

\* Mutant: whatever key the client sent is used for the negotiated suite.
OnInitAnyKey ==
  /\ server["full"] = "wait"
  /\ Has("full", "server", "init")
  /\ PickSuite(cfg.offers, cfg.supports) # NoSuite
  /\ suite' = PickSuite(cfg.offers, cfg.supports)
  /\ ReadThenSend("full", "server", Msg("response", suite'))
  /\ server' = [server EXCEPT !["full"] = "confirm"]
  /\ UNCHANGED <<cfg, closedEnds, cut, pc, reason>>

\* runServer reads an INIT that fits: RESPONSE.
OnInit ==
  /\ server["full"] = "wait"
  /\ Has("full", "server", "init")
  /\ PickSuite(cfg.offers, cfg.supports) = What("full", "server")
  /\ suite' = What("full", "server")
  /\ ReadThenSend("full", "server", Msg("response", suite'))
  /\ server' = [server EXCEPT !["full"] = "confirm"]
  /\ UNCHANGED <<cfg, closedEnds, cut, pc, reason>>

OnInitNoCommonSuite ==
  /\ server["full"] = "wait"
  /\ Has("full", "server", "init")
  /\ PickSuite(cfg.offers, cfg.supports) = NoSuite
  /\ Reject("full", "version_unsupported")
  /\ UNCHANGED <<cfg, cut, pc, reason, suite>>

\* The client's key is not one of the negotiated suite: the key agreement
\* throws, and no rejection is sent.
OnInitWrongKey ==
  /\ server["full"] = "wait"
  /\ Has("full", "server", "init")
  /\ PickSuite(cfg.offers, cfg.supports) \notin {NoSuite, What("full", "server")}
  /\ server' = [server EXCEPT !["full"] = "failed"]
  /\ CloseEnd("full", "server")
  /\ line' = Reads("full", "server")
  /\ UNCHANGED <<cfg, cut, pc, reason, suite>>

\* CONFIRM: the identity is looked up, the operator's verifier has its say.
UnknownIdentity == cfg.lookup /\ What("full", "server") = "unknown"

OnConfirm ==
  /\ server["full"] = "confirm"
  /\ Has("full", "server", "confirm")
  /\ ~UnknownIdentity
  /\ ReadThenSend("full", "server", Msg("accepted", ""))
  /\ server' = [server EXCEPT !["full"] = "session"]
  /\ UNCHANGED <<cfg, closedEnds, cut, pc, reason, suite>>

OnConfirmRejects ==
  /\ server["full"] = "confirm"
  /\ Has("full", "server", "confirm")
  /\ Reject("full", "auth_failed")
  /\ UNCHANGED <<cfg, cut, pc, reason, suite>>

\* The verifier or the ticket builder throws: no rejection is sent.
OnConfirmThrows ==
  /\ server["full"] = "confirm"
  /\ Has("full", "server", "confirm")
  /\ line' = Reads("full", "server")
  /\ server' = [server EXCEPT !["full"] = "failed"]
  /\ CloseEnd("full", "server")
  /\ UNCHANGED <<cfg, cut, pc, reason, suite>>

\* The connection is gone while a receive is pending.
ServerFails(k) ==
  /\ server[k] \in {"wait", "confirm"}
  /\ AtEnd(k, "server")
  /\ server' = [server EXCEPT ![k] = "failed"]
  /\ CloseEnd(k, "server")
  /\ UNCHANGED <<cfg, line, cut, pc, reason, suite>>

-----------------------------------------------------------------------------

ClientStep ==
  \/ ResumeRequest \/ ResumeAccepted \/ ResumeRejected \/ ResumeFails
  \/ RunClient \/ OnResponse \/ OnAccepted \/ OnRejected \/ RunClientFails
ServerStep ==
  \/ ResumeServer \/ LookupOk \/ LookupThrows \/ \E code \in RejectReasons : LookupFails(code)
  \/ OnInit \/ OnInitNoCommonSuite \/ OnInitWrongKey
  \/ OnConfirm \/ OnConfirmRejects \/ OnConfirmThrows
  \/ \E k \in Conns : ServerFails(k)

ConnectNext == ClientStep \/ ServerStep \/ \E k \in Conns : Cut(k)

ConnectSpec == ConnectInit /\ [][ConnectNext]_connectVars

\* The event loop resumes every call whose promise has settled. No timeout is
\* assumed: the drivers have none.
ConnectFairness == WF_connectVars(ClientStep) /\ WF_connectVars(ServerStep)
FairConnectSpec == ConnectSpec /\ ConnectFairness

-----------------------------------------------------------------------------
(* Properties *)

ClientEnded == pc \in {"resumed", "session", "rejected", "failed"}
ServerWaits(k) == server[k] \in {"wait", "lookup", "confirm"}

\* A client that has a session has it with a server run that has it too, under
\* the suite of the client's own key.
SessionShared ==
  /\ pc = "session" => server["full"] = "session" /\ suite = cfg.suite
  /\ pc = "resumed" => server["resume"] = "session"

\* runServer and resumeServer "send a signed REJECTED then close the
\* transport": on a connection that did not break, the client learns that it
\* was refused, and does not just see the connection go.
RejectionIsSeen ==
  ClientEnded /\ cut = {} =>
    /\ server["resume"] = "rejected" => reason # "none"
    /\ server["full"] = "rejected" => pc = "rejected"

\* runClient throws for a suite it does not implement before its try, and leaves
\* the transport open.
ThrewBeforeTry == pc = "failed" /\ cfg.suite \notin Suites /\ Open("full", "client")

\* "On error the transport is closed so the peer's pending receive unblocks": the
\* client's call ends, and so does every server run, whatever fails where. One
\* error the code does not treat so: the server waits for ever for the INIT of a
\* client that has thrown before its try.
Settles ==
  /\ <>ClientEnded
  /\ ServerWaits("resume") ~> ~ServerWaits("resume")
  /\ ServerWaits("full") ~> (~ServerWaits("full") \/ ThrewBeforeTry)
=============================================================================
