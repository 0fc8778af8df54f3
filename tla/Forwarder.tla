----------------------------- MODULE Forwarder -----------------------------
(***************************************************************************)
(* The federation forwarder: src/src/delivery/forwarder.ts.                *)
(*                                                                         *)
(* forward and fetchKeys are the same call here: get the peer's session,   *)
(* opening one if there is none, wait for its wire lock, one request, one  *)
(* response. A call runs from one await to the next in one action. The     *)
(* handshake of openSession is one exchange that succeeds or fails (its    *)
(* steps are those of the handshake models); the peer answers the requests *)
(* of a session in the order in which they arrive. A session's TTL is left *)
(* out: getSession never looks at it.                                      *)
(***************************************************************************)
EXTENDS Integers, Sequences, FiniteSets

CONSTANTS
  PeerDomains,   \* peer domains
  Calls,         \* forward and fetchKeys calls
  PeerOf,        \* the domain each call is for
  MaxSessions,   \* bound: sessions opened in a behaviour
  MaxFaults,     \* bound: connections the peer drops, responses that do not parse,
                 \* requests that cannot be encoded
  NoSession      \* absent map entry

Sessions == 1..MaxSessions

ASSUME ForwarderAssumption ==
  /\ PeerOf \in [Calls -> PeerDomains]
  /\ MaxSessions \in Nat /\ MaxFaults \in Nat
  /\ NoSession \notin Sessions

VARIABLES
  sessions,     \* this.sessions: domain -> session or NoSession
  connecting,   \* this.connecting: domain -> session being opened or NoSession
  opened,       \* number of sessions opened so far
  transport,    \* per session: "none", "open", "peer_closed" or "closed" (by us)
  locked,       \* sessions whose wireMu is locked
  requests,     \* per session: requests at the peer, not answered yet
  responses,    \* per session: responses on their way back
  pc,           \* per call: "idle", "opening", "spin", "receive", "done", "failed"
  using,        \* per call: its session (fs), or NoSession
  answer,       \* per call: the request its response answers, or "none"
  closed,       \* Forwarder.close was called
  toClose,      \* sessions close still has to close
  faults

forwarderVars == <<sessions, connecting, opened, transport, locked, requests,
          responses, pc, using, answer, closed, toClose, faults>>

ForwarderInit ==
  /\ sessions = [d \in PeerDomains |-> NoSession]
  /\ connecting = [d \in PeerDomains |-> NoSession]
  /\ opened = 0
  /\ transport = [s \in Sessions |-> "none"]
  /\ locked = {}
  /\ requests = [s \in Sessions |-> <<>>] /\ responses = [s \in Sessions |-> <<>>]
  /\ pc = [c \in Calls |-> "idle"]
  /\ using = [c \in Calls |-> NoSession]
  /\ answer = [c \in Calls |-> "none"]
  /\ closed = FALSE /\ toClose = {}
  /\ faults = 0

-----------------------------------------------------------------------------
(* getSession and openSession *)

\* Mutant: no look at the sessions that are being opened.
GetSessionNoInflight(c) ==
  LET d == PeerOf[c] IN
  /\ pc[c] = "idle"
  /\ ~closed
  /\ \/ /\ sessions[d] # NoSession
        /\ using' = [using EXCEPT ![c] = sessions[d]]
        /\ pc' = [pc EXCEPT ![c] = "spin"]
        /\ UNCHANGED <<connecting, opened>>
     \/ /\ sessions[d] = NoSession
        /\ opened < MaxSessions
        /\ opened' = opened + 1
        /\ connecting' = [connecting EXCEPT ![d] = opened + 1]
        /\ using' = [using EXCEPT ![c] = opened + 1]
        /\ pc' = [pc EXCEPT ![c] = "opening"]
  /\ UNCHANGED <<sessions, transport, locked, requests, responses, answer,
                 closed, toClose, faults>>

\* The cached session, the one being opened, or a new one.
GetSession(c) ==
  LET d == PeerOf[c] IN
  /\ pc[c] = "idle"
  /\ ~closed
  /\ \/ /\ sessions[d] # NoSession
        /\ using' = [using EXCEPT ![c] = sessions[d]]
        /\ pc' = [pc EXCEPT ![c] = "spin"]
        /\ UNCHANGED <<connecting, opened>>
     \/ /\ sessions[d] = NoSession
        /\ connecting[d] # NoSession
        /\ using' = [using EXCEPT ![c] = connecting[d]]
        /\ pc' = [pc EXCEPT ![c] = "opening"]
        /\ UNCHANGED <<connecting, opened>>
     \/ /\ sessions[d] = NoSession
        /\ connecting[d] = NoSession
        /\ opened < MaxSessions
        /\ opened' = opened + 1
        /\ connecting' = [connecting EXCEPT ![d] = opened + 1]
        /\ using' = [using EXCEPT ![c] = opened + 1]
        /\ pc' = [pc EXCEPT ![c] = "opening"]
  /\ UNCHANGED <<sessions, transport, locked, requests, responses, answer, closed,
                 toClose, faults>>

\* The endpoint and key lookups and the dial: a transport is open.
Dialed(d) ==
  /\ connecting[d] # NoSession
  /\ transport[connecting[d]] = "none"
  /\ transport' = [transport EXCEPT ![connecting[d]] = "open"]
  /\ UNCHANGED <<sessions, connecting, opened, locked, requests, responses,
                 pc, using, answer, closed, toClose, faults>>

\* The accepted message is in: the session is cached, every waiting call goes on.
SessionOpened(d) ==
  LET s == connecting[d] IN
  /\ s # NoSession
  /\ transport[s] = "open"
  /\ sessions' = [sessions EXCEPT ![d] = s]
  /\ connecting' = [connecting EXCEPT ![d] = NoSession]
  /\ pc' = [c \in Calls |-> IF pc[c] = "opening" /\ using[c] = s THEN "spin" ELSE pc[c]]
  /\ UNCHANGED <<opened, transport, locked, requests, responses, using,
                 answer, closed, toClose, faults>>

\* A lookup, the dial or the handshake fails: the transport is closed if there
\* is one, every waiting call throws, and no session is dropped.
OpenFailed(d) ==
  LET s == connecting[d] IN
  /\ s # NoSession
  /\ transport' = [transport EXCEPT ![s] = "closed"]
  /\ connecting' = [connecting EXCEPT ![d] = NoSession]
  /\ pc' = [c \in Calls |-> IF pc[c] = "opening" /\ using[c] = s THEN "failed" ELSE pc[c]]
  /\ UNCHANGED <<sessions, opened, locked, requests, responses, using,
                 answer, closed, toClose, faults>>

-----------------------------------------------------------------------------
(* forwardOnSession, fetchKeysOnSession *)

\* dropSession(peerDomain): whatever session the map holds now.
DropSession(d) ==
  /\ sessions' = [sessions EXCEPT ![d] = NoSession]
  /\ transport' = [s \in Sessions |-> IF s = sessions[d] THEN "closed" ELSE transport[s]]

\* Mutant: the send does not wait for the wire lock.
SendUnlocked(c) ==
  LET s == using[c] IN
  /\ pc[c] = "spin"
  /\ pc' = [pc EXCEPT ![c] = "receive"]
  /\ requests' = [requests EXCEPT ![s] = IF transport[s] = "open" THEN Append(@, c) ELSE @]
  /\ UNCHANGED <<sessions, connecting, opened, transport, locked, responses,
                 using, answer, closed, toClose, faults>>

\* The lock is free: take it and send. Sending on a closed transport rejects.
Send(c) ==
  LET s == using[c] IN
  /\ pc[c] = "spin"
  /\ s \notin locked
  /\ locked' = locked \cup {s}
  /\ pc' = [pc EXCEPT ![c] = "receive"]
  /\ requests' = [requests EXCEPT ![s] = IF transport[s] = "open" THEN Append(@, c) ELSE @]
  /\ UNCHANGED <<sessions, connecting, opened, transport, responses, using,
                 answer, closed, toClose, faults>>

\* The lock is taken, but the envelope cannot be signed or encoded: the call
\* frees the lock, throws and drops the session.
SendThrows(c) ==
  /\ pc[c] = "spin"
  /\ using[c] \notin locked
  /\ faults < MaxFaults
  /\ faults' = faults + 1
  /\ pc' = [pc EXCEPT ![c] = "failed"]
  /\ DropSession(PeerOf[c])
  /\ UNCHANGED <<connecting, opened, locked, requests, responses, using, answer,
                 closed, toClose>>

\* A JSON object comes back: the call returns it.
Receive(c) ==
  LET s == using[c] IN
  /\ pc[c] = "receive"
  /\ transport[s] # "closed"
  /\ responses[s] # <<>> /\ Head(responses[s]).json
  /\ answer' = [answer EXCEPT ![c] = Head(responses[s]).to]
  /\ responses' = [responses EXCEPT ![s] = Tail(@)]
  /\ locked' = locked \ {s}
  /\ pc' = [pc EXCEPT ![c] = "done"]
  /\ UNCHANGED <<sessions, connecting, opened, transport, requests, using,
                 closed, toClose, faults>>

\* Something else comes back: the call throws and drops the session.
ReceiveUnparsable(c) ==
  LET s == using[c] IN
  /\ pc[c] = "receive"
  /\ transport[s] # "closed"
  /\ responses[s] # <<>> /\ ~Head(responses[s]).json
  /\ responses' = [responses EXCEPT ![s] = Tail(@)]
  /\ locked' = locked \ {s}
  /\ pc' = [pc EXCEPT ![c] = "failed"]
  /\ DropSession(PeerOf[c])
  /\ UNCHANGED <<connecting, opened, requests, using, answer, closed,
                 toClose, faults>>

\* Mutant: the failing call leaves the wire lock behind.
TransportFailsLocked(c) ==
  LET s == using[c] IN
  /\ pc[c] = "receive"
  /\ transport[s] = "closed" \/ (transport[s] = "peer_closed" /\ responses[s] = <<>>)
  /\ pc' = [pc EXCEPT ![c] = "failed"]
  /\ DropSession(PeerOf[c])
  /\ UNCHANGED <<connecting, opened, locked, requests, responses, using, answer,
                 closed, toClose, faults>>

\* The transport is gone: send or receive fails, the call drops the session.
TransportFails(c) ==
  LET s == using[c] IN
  /\ pc[c] = "receive"
  /\ transport[s] = "closed" \/ (transport[s] = "peer_closed" /\ responses[s] = <<>>)
  /\ locked' = locked \ {s}
  /\ pc' = [pc EXCEPT ![c] = "failed"]
  /\ DropSession(PeerOf[c])
  /\ UNCHANGED <<connecting, opened, requests, responses, using, answer,
                 closed, toClose, faults>>

-----------------------------------------------------------------------------
(* close *)

\* The map is emptied and the first transport closed; the others follow one
\* await at a time. The application starts no call after close.
Cached == {sessions[d] : d \in PeerDomains} \ {NoSession}

Close ==
  /\ ~closed
  /\ closed' = TRUE
  /\ sessions' = [d \in PeerDomains |-> NoSession]
  /\ \/ Cached = {} /\ toClose' = {} /\ UNCHANGED transport
     \/ \E s \in Cached :
          /\ toClose' = Cached \ {s}
          /\ transport' = [transport EXCEPT ![s] = "closed"]
  /\ UNCHANGED <<connecting, opened, locked, requests, responses,
                 pc, using, answer, faults>>

CloseNext(s) ==
  /\ s \in toClose
  /\ toClose' = toClose \ {s}
  /\ transport' = [transport EXCEPT ![s] = "closed"]
  /\ UNCHANGED <<sessions, connecting, opened, locked, requests, responses,
                 pc, using, answer, closed, faults>>

-----------------------------------------------------------------------------
(* The peer and time *)

PeerAnswers(s, json) ==
  /\ requests[s] # <<>>
  /\ transport[s] = "open"
  /\ faults' = IF json THEN faults ELSE faults + 1
  /\ faults' <= MaxFaults
  /\ requests' = [requests EXCEPT ![s] = Tail(@)]
  /\ responses' = [responses EXCEPT ![s] = Append(@, [to |-> Head(requests[s]), json |-> json])]
  /\ UNCHANGED <<sessions, connecting, opened, transport, locked, pc, using,
                 answer, closed, toClose>>

PeerCloses(s) ==
  /\ transport[s] = "open"
  /\ faults < MaxFaults
  /\ faults' = faults + 1
  /\ transport' = [transport EXCEPT ![s] = "peer_closed"]
  /\ UNCHANGED <<sessions, connecting, opened, locked, requests, responses,
                 pc, using, answer, closed, toClose>>

-----------------------------------------------------------------------------

OpenStep(d) == Dialed(d) \/ SessionOpened(d) \/ OpenFailed(d)
CallStep(c) == Send(c) \/ SendThrows(c) \/ Receive(c) \/ ReceiveUnparsable(c) \/ TransportFails(c)
PeerStep(s) == PeerAnswers(s, TRUE) \/ PeerAnswers(s, FALSE)

ForwarderNext ==
  \/ \E c \in Calls : GetSession(c) \/ CallStep(c)
  \/ \E d \in PeerDomains : OpenStep(d)
  \/ Close
  \/ \E s \in Sessions : CloseNext(s) \/ PeerStep(s) \/ PeerCloses(s)

ForwarderSpec == ForwarderInit /\ [][ForwarderNext]_forwarderVars

\* Promises settle and peers answer what reaches them. There is no timeout:
\* a peer that stays silent with the connection open holds the wire lock.
ForwarderFairness ==
  /\ \A c \in Calls : WF_forwarderVars(CallStep(c))
  /\ \A d \in PeerDomains : WF_forwarderVars(OpenStep(d))
  /\ \A s \in Sessions : WF_forwarderVars(PeerStep(s)) /\ WF_forwarderVars(CloseNext(s))

FairForwarderSpec == ForwarderSpec /\ ForwarderFairness

-----------------------------------------------------------------------------
(* Properties *)

\* A call that returns has the answer to its own request: the wire lock pairs
\* requests and responses, also when calls fail, sessions are replaced and the
\* forwarder is closed in the middle of a round trip.
ResponseMatches == \A c \in Calls : pc[c] = "done" => answer[c] = c

\* "Each (localDomain, peerDomain) pair gets at most one live session at a
\* time": never two connections to one peer whose sessions may still be used.
Live(d) ==
  {s \in Sessions : transport[s] \in {"open", "peer_closed"} /\ s \notin toClose
                    /\ (connecting[d] = s \/ \E c \in Calls : PeerOf[c] = d /\ using[c] = s)}
AtMostOneLiveSession == \A d \in PeerDomains : Cardinality(Live(d)) <= 1

\* Every call ends, as long as its peer answers or hangs up.
CallsEnd == \A c \in Calls : pc[c] # "idle" ~> pc[c] \in {"done", "failed"}
=============================================================================
