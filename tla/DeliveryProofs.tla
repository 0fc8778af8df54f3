-------------------------- MODULE DeliveryProofs ---------------------------
(***************************************************************************)
(* What holds of the two ends of a delivery for any number of envelopes,   *)
(* peers, calls and devices. The forwarder of the sending server: a call   *)
(* that returns has the answer to its own request, and a peer has at most  *)
(* one live session. The staged runner of the receiving server: a suppress *)
(* vote binds, and an envelope's callbacks come in order.                  *)
(***************************************************************************)
EXTENDS Forwarder, StagedRunner, FiniteSetTheorems, SequenceTheorems, WellFoundedInduction, TLAPS

-----------------------------------------------------------------------------
(* Types *)

States == {"none", "open", "peer_closed", "closed"}
Response == [to : Calls, json : BOOLEAN]

TypeOK ==
  /\ sessions \in [PeerDomains -> Sessions \cup {NoSession}]
  /\ connecting \in [PeerDomains -> Sessions \cup {NoSession}]
  /\ opened \in 0..MaxSessions
  /\ transport \in [Sessions -> States]
  /\ locked \subseteq Sessions
  /\ requests \in [Sessions -> Seq(Calls)]
  /\ responses \in [Sessions -> Seq(Response)]
  /\ pc \in [Calls -> {"idle", "opening", "spin", "receive", "done", "failed"}]
  /\ using \in [Calls -> Sessions \cup {NoSession}]
  /\ \A c \in Calls : pc[c] \in {"opening", "spin", "receive"} => using[c] \in Sessions
  /\ answer \in [Calls -> Calls \cup {"none"}]
  /\ toClose \subseteq Sessions

\* The variables of the forwarder have their types in every reachable state.
LEMMA Typed == ForwarderSpec => []TypeOK
<1>1. ForwarderInit => TypeOK
  BY ForwarderAssumption DEF ForwarderInit, TypeOK, Sessions, States
<1>2. TypeOK /\ [ForwarderNext]_forwarderVars => TypeOK'
  <2> SUFFICES ASSUME TypeOK, [ForwarderNext]_forwarderVars PROVE TypeOK'
    OBVIOUS
  <2> USE ForwarderAssumption DEF TypeOK, States
  <2>1. ASSUME NEW c \in Calls, GetSession(c) PROVE TypeOK'
    <3>1. opened < MaxSessions => opened + 1 \in Sessions /\ opened + 1 \in 0..MaxSessions
      BY DEF Sessions
    <3>2. PeerOf[c] \in PeerDomains
      OBVIOUS
    <3>3. using'[c] \in Sessions /\ using' = [using EXCEPT ![c] = using'[c]]
      <4>1. \E s \in Sessions : using' = [using EXCEPT ![c] = s]
        <5>1. sessions[PeerOf[c]] \in Sessions \cup {NoSession} /\ connecting[PeerOf[c]] \in Sessions \cup {NoSession}
          BY <3>2
        <5> QED
          BY <2>1, <3>1, <5>1 DEF GetSession
      <4> QED
        BY <4>1
    <3>4. connecting' \in [PeerDomains -> Sessions \cup {NoSession}] /\ opened' \in 0..MaxSessions
      BY <2>1, <3>1, <3>2 DEF GetSession
    <3>5. \/ pc' = [pc EXCEPT ![c] = "spin"]
          \/ pc' = [pc EXCEPT ![c] = "opening"]
      BY <2>1 DEF GetSession
    <3>6. using' \in [Calls -> Sessions \cup {NoSession}]
      BY <3>3
    <3>7. /\ pc' \in [Calls -> {"idle", "opening", "spin", "receive", "done", "failed"}]
          /\ \A x \in Calls : pc'[x] \in {"opening", "spin", "receive"} => using'[x] \in Sessions
      BY <3>3, <3>5
    <3>8. UNCHANGED <<sessions, transport, locked, requests, responses, answer, toClose>>
      BY <2>1 DEF GetSession
    <3> QED
      BY <3>4, <3>6, <3>7, <3>8
  <2>2. ASSUME NEW c \in Calls, Send(c) PROVE TypeOK'
    BY <2>2 DEF Send
  <2>3. ASSUME NEW c \in Calls, Receive(c) PROVE TypeOK'
    <3>1. using[c] \in Sessions /\ Head(responses[using[c]]) \in Response
          /\ Tail(responses[using[c]]) \in Seq(Response)
      BY <2>3 DEF Receive
    <3> QED
      BY <2>3, <3>1 DEF Receive, Response
  <2>4. ASSUME NEW c \in Calls, ReceiveUnparsable(c) PROVE TypeOK'
    BY <2>4 DEF ReceiveUnparsable, DropSession
  <2>5. ASSUME NEW c \in Calls, TransportFails(c) \/ SendThrows(c) PROVE TypeOK'
    BY <2>5 DEF TransportFails, SendThrows, DropSession
  <2>6. ASSUME NEW d \in PeerDomains, OpenStep(d) PROVE TypeOK'
    <3>1. CASE Dialed(d)
      BY <3>1 DEF Dialed
    <3>2. CASE SessionOpened(d)
      BY <3>2 DEF SessionOpened
    <3>3. CASE OpenFailed(d)
      BY <3>3 DEF OpenFailed
    <3> QED
      BY <2>6, <3>1, <3>2, <3>3 DEF OpenStep
  <2>7. CASE Close
    BY <2>7 DEF Close, Cached
  <2>8. ASSUME NEW s \in Sessions, CloseNext(s) \/ PeerCloses(s) PROVE TypeOK'
    BY <2>8 DEF CloseNext, PeerCloses
  <2>9. ASSUME NEW s \in Sessions, NEW json \in BOOLEAN, PeerAnswers(s, json) PROVE TypeOK'
    <3>1. [to |-> Head(requests[s]), json |-> json] \in Response
      BY <2>9 DEF PeerAnswers, Response
    <3> QED
      BY <2>9, <3>1 DEF PeerAnswers
  <2>10. CASE UNCHANGED forwarderVars
    BY <2>10 DEF forwarderVars
  <2> QED
    BY <2>1, <2>2, <2>3, <2>4, <2>5, <2>6, <2>7, <2>8, <2>9, <2>10 DEF ForwarderNext, CallStep, PeerStep
<1> QED
  BY <1>1, <1>2, PTL DEF ForwarderSpec

-----------------------------------------------------------------------------
(* Request and response *)

OneResponse(c, s) == Len(responses[s]) = 1 /\ responses[s][1].to = c
OneMessage(c, s) ==
  \/ requests[s] = <<c>> /\ responses[s] = <<>>
  \/ requests[s] = <<>> /\ OneResponse(c, s)

\* Nothing is under way on a session that nobody has locked; the one call that
\* has locked it finds its own request or its own response there, unless the
\* transport is closed, when nothing is read from it any more.
UnlockedIsQuiet ==
  \A s \in Sessions :
    /\ transport[s] = "none" => s \notin locked
    /\ s \notin locked /\ transport[s] # "closed" => responses[s] = <<>>
    /\ s \notin locked /\ transport[s] \in {"none", "open"} => requests[s] = <<>>
LockIsExclusive ==
  \A c1, c2 \in Calls :
    pc[c1] = "receive" /\ pc[c2] = "receive" /\ using[c1] = using[c2] => c1 = c2
OwnMessage ==
  \A c \in Calls : pc[c] = "receive" =>
    /\ using[c] \in locked
    /\ transport[using[c]] = "open" => OneMessage(c, using[c])
    /\ transport[using[c]] = "peer_closed" => responses[using[c]] = <<>> \/ OneResponse(c, using[c])
Dialled ==
  /\ \A c \in Calls : pc[c] = "spin" => transport[using[c]] # "none"
  /\ \A d \in PeerDomains : sessions[d] # NoSession => transport[sessions[d]] # "none"

RoundTrip == UnlockedIsQuiet /\ LockIsExclusive /\ OwnMessage /\ Dialled /\ ResponseMatches

\* What is left of a sequence of one element.
LEMMA TailOfOne ==
  ASSUME NEW S, NEW q \in Seq(S), Len(q) = 1
  PROVE  Tail(q) = <<>> /\ Head(q) = q[1]
<1>1. Tail(q) \in Seq(S) /\ Len(Tail(q)) = 0 /\ Head(q) = q[1]
  OBVIOUS
<1>2. Tail(q) = <<>>
  BY <1>1, EmptySeq
<1> QED
  BY <1>1, <1>2

\* The pairing of requests and responses is kept by every step.
LEMMA RoundTripStep == TypeOK /\ TypeOK' /\ RoundTrip /\ [ForwarderNext]_forwarderVars => RoundTrip'
<1> SUFFICES ASSUME TypeOK, TypeOK', RoundTrip, [ForwarderNext]_forwarderVars PROVE RoundTrip'
  OBVIOUS
<1> USE ForwarderAssumption DEF TypeOK, RoundTrip, UnlockedIsQuiet, LockIsExclusive, OwnMessage,
                                Dialled, ResponseMatches, OneMessage, OneResponse, States
<1>1. ASSUME NEW c \in Calls, GetSession(c) PROVE RoundTrip'
  <2>1. PICK p, s : /\ p \in {"spin", "opening"} /\ pc' = [pc EXCEPT ![c] = p]
                    /\ using' = [using EXCEPT ![c] = s]
                    /\ p = "spin" => s \in Sessions /\ transport[s] # "none"
    BY <1>1 DEF GetSession
  <2>2. UNCHANGED <<sessions, transport, locked, requests, responses, answer>>
    BY <1>1 DEF GetSession
  <2>3. LockIsExclusive' /\ ResponseMatches' /\ UnlockedIsQuiet'
    BY <2>1, <2>2
  <2>4. OwnMessage' /\ Dialled'
    BY <2>1, <2>2
  <2> QED
    BY <2>3, <2>4
<1>2. ASSUME NEW c \in Calls, Send(c) PROVE RoundTrip'
  <2>1. \A q \in Seq(Calls) : q = <<>> => Append(q, c) = <<c>>
    OBVIOUS
  <2> QED
    BY <1>2, <2>1 DEF Send
<1>3. ASSUME NEW c \in Calls, Receive(c) PROVE RoundTrip'
  <2>1. OneResponse(c, using[c]) /\ (transport[using[c]] = "open" => requests[using[c]] = <<>>)
    BY <1>3 DEF Receive
  <2>2. Head(responses[using[c]]).to = c /\ Tail(responses[using[c]]) = <<>>
    BY <1>3, <2>1, TailOfOne DEF Receive
  <2> QED
    BY <1>3, <2>1, <2>2 DEF Receive
<1>4. ASSUME NEW c \in Calls, ReceiveUnparsable(c) PROVE RoundTrip'
  <2>1. OneResponse(c, using[c]) /\ (transport[using[c]] = "open" => requests[using[c]] = <<>>)
    BY <1>4 DEF ReceiveUnparsable
  <2>2. Tail(responses[using[c]]) = <<>>
    BY <1>4, <2>1, TailOfOne DEF ReceiveUnparsable
  <2> QED
    BY <1>4, <2>1, <2>2 DEF ReceiveUnparsable, DropSession
<1>5. ASSUME NEW c \in Calls, TransportFails(c) \/ SendThrows(c) PROVE RoundTrip'
  <2>1. CASE TransportFails(c)
    BY <2>1 DEF TransportFails, DropSession
  <2>2. CASE SendThrows(c)
    BY <2>2 DEF SendThrows, DropSession
  <2> QED
    BY <1>5, <2>1, <2>2
<1>6. ASSUME NEW d \in PeerDomains, OpenStep(d) PROVE RoundTrip'
  <2>1. CASE Dialed(d)
    BY <2>1 DEF Dialed
  <2>2. CASE SessionOpened(d)
    BY <2>2 DEF SessionOpened
  <2>3. CASE OpenFailed(d)
    BY <2>3 DEF OpenFailed
  <2> QED
    BY <1>6, <2>1, <2>2, <2>3 DEF OpenStep
<1>7. CASE Close
  BY <1>7 DEF Close, Cached
<1>8. ASSUME NEW s \in Sessions, CloseNext(s) \/ PeerCloses(s) PROVE RoundTrip'
  BY <1>8 DEF CloseNext, PeerCloses
<1>9. ASSUME NEW s \in Sessions, NEW json \in BOOLEAN, PeerAnswers(s, json) PROVE RoundTrip'
  <2>1. \A c \in Calls : pc[c] = "receive" /\ using[c] = s => requests[s] = <<c>> /\ responses[s] = <<>>
    BY <1>9 DEF PeerAnswers
  <2>2. s \in locked
    BY <1>9 DEF PeerAnswers
  <2>3. UNCHANGED <<sessions, transport, locked, pc, using, answer>>
        /\ (\A t \in Sessions \ {s} : requests'[t] = requests[t] /\ responses'[t] = responses[t])
    BY <1>9 DEF PeerAnswers
  <2>4. \A c \in Calls : pc[c] = "receive" /\ using[c] = s => requests'[s] = <<>> /\ OneResponse(c, s)'
    <3> SUFFICES ASSUME NEW c \in Calls, pc[c] = "receive", using[c] = s
                 PROVE requests'[s] = <<>> /\ OneResponse(c, s)'
      OBVIOUS
    <3>1. requests'[s] = Tail(<<c>>)
          /\ responses'[s] = Append(<<>>, [to |-> Head(<<c>>), json |-> json])
      BY <1>9, <2>1 DEF PeerAnswers
    <3> QED
      BY <3>1
  <2>5. UnlockedIsQuiet' /\ LockIsExclusive'
    BY <2>2, <2>3
  <2>6. OwnMessage'
    <3> DEFINE Responded(c, t) == Len(responses'[t]) = 1 /\ responses'[t][1].to = c
    <3>1. ASSUME NEW c \in Calls, pc[c] = "receive"
          PROVE  /\ using[c] \in locked
                 /\ transport[using[c]] = "open" =>
                      \/ requests'[using[c]] = <<c>> /\ responses'[using[c]] = <<>>
                      \/ requests'[using[c]] = <<>> /\ Responded(c, using[c])
                 /\ transport[using[c]] = "peer_closed" =>
                      responses'[using[c]] = <<>> \/ Responded(c, using[c])
      <4>1. CASE using[c] = s
        <5>1. requests'[s] = <<>> /\ Responded(c, s)
          BY <2>4, <3>1, <4>1
        <5> HIDE DEF Responded
        <5> QED
          BY <2>2, <4>1, <5>1, Zenon
      <4>2. CASE using[c] # s
        <5>1. /\ using[c] \in Sessions /\ requests'[using[c]] = requests[using[c]]
              /\ responses'[using[c]] = responses[using[c]]
          BY <2>3, <3>1, <4>2
        <5>2. /\ using[c] \in locked
              /\ transport[using[c]] = "open" => OneMessage(c, using[c])
              /\ transport[using[c]] = "peer_closed" =>
                   responses[using[c]] = <<>> \/ OneResponse(c, using[c])
          BY <3>1
        <5> QED
          BY <5>1, <5>2
      <4> QED
        BY <4>1, <4>2
    <3> QED
      BY <2>3, <3>1
  <2>7. Dialled' /\ ResponseMatches'
    BY <2>3
  <2> QED
    BY <2>5, <2>6, <2>7
<1>10. CASE UNCHANGED forwarderVars
  BY <1>10 DEF forwarderVars
<1> QED
  BY <1>1, <1>2, <1>3, <1>4, <1>5, <1>6, <1>7, <1>8, <1>9, <1>10 DEF ForwarderNext, CallStep, PeerStep

\* forwardOnSession and fetchKeysOnSession: a call that returns has the answer
\* to its own request, however calls fail, sessions are replaced and the
\* forwarder is closed in the middle of a round trip.
THEOREM EveryResponseMatches == ForwarderSpec => []ResponseMatches
<1>1. ForwarderInit => RoundTrip
  BY DEF ForwarderInit, RoundTrip, UnlockedIsQuiet, LockIsExclusive, OwnMessage, Dialled, ResponseMatches
<1>2. RoundTrip => ResponseMatches
  BY DEF RoundTrip
<1> QED
  BY <1>1, <1>2, Typed, RoundTripStep, PTL DEF ForwarderSpec

-----------------------------------------------------------------------------
(* Sessions and peers *)

\* A transport that is open belongs to a session the forwarder still holds:
\* cached or being opened for one peer, never both, or waiting in close.
Holds(d, s) == sessions[d] = s \/ connecting[d] = s

OneOwner ==
  /\ \A d \in PeerDomains : sessions[d] = NoSession \/ connecting[d] = NoSession
  /\ \A d1, d2 \in PeerDomains, s \in Sessions : Holds(d1, s) /\ Holds(d2, s) => d1 = d2
  /\ \A c \in Calls, d \in PeerDomains : using[c] # NoSession /\ Holds(d, using[c]) => PeerOf[c] = d
NumbersAreFresh ==
  /\ \A d \in PeerDomains :
       /\ sessions[d] # NoSession => sessions[d] <= opened
       /\ connecting[d] # NoSession => connecting[d] <= opened
  /\ \A c \in Calls : using[c] # NoSession => using[c] <= opened
OpenIsHeld ==
  \A s \in Sessions : transport[s] \in {"open", "peer_closed"} =>
                        s \in toClose \/ \E d \in PeerDomains : Holds(d, s)
CloseOnce == ~closed => toClose = {}

Ownership == OneOwner /\ NumbersAreFresh /\ OpenIsHeld /\ CloseOnce

\* Who holds a session, and that numbers are used once, is kept by every step.
LEMMA OwnershipStep == TypeOK /\ TypeOK' /\ Ownership /\ [ForwarderNext]_forwarderVars => Ownership'
<1> SUFFICES ASSUME TypeOK, TypeOK', Ownership, [ForwarderNext]_forwarderVars PROVE Ownership'
  OBVIOUS
<1> USE ForwarderAssumption DEF TypeOK, Ownership, OneOwner, NumbersAreFresh, OpenIsHeld, CloseOnce,
                                Holds, States
<1>1. ASSUME NEW c \in Calls, GetSession(c) PROVE Ownership'
  <2>1. opened < MaxSessions => opened + 1 \in Sessions /\ opened + 1 # NoSession
    BY DEF Sessions
  <2>2. PeerOf[c] \in PeerDomains /\ UNCHANGED <<sessions, transport, toClose, closed>>
    BY <1>1 DEF GetSession
  <2>3. CASE \/ /\ sessions[PeerOf[c]] # NoSession
                /\ using' = [using EXCEPT ![c] = sessions[PeerOf[c]]]
                /\ UNCHANGED <<connecting, opened>>
             \/ /\ connecting[PeerOf[c]] # NoSession
                /\ using' = [using EXCEPT ![c] = connecting[PeerOf[c]]]
                /\ UNCHANGED <<connecting, opened>>
    <3>1. PICK s \in Sessions : /\ Holds(PeerOf[c], s) /\ s <= opened
                                /\ using' = [using EXCEPT ![c] = s]
      BY <2>2, <2>3
    <3>2. UNCHANGED <<sessions, connecting, opened, transport, toClose, closed>>
      BY <2>2, <2>3
    <3>3. \A d1, d2 \in PeerDomains : Holds(d1, s) /\ Holds(d2, s) => d1 = d2
      OBVIOUS
    <3>4. \A e \in Calls : using'[e] = IF e = c THEN s ELSE using[e]
      BY <3>1
    <3>5. OneOwner'
      BY <2>2, <3>1, <3>2, <3>3, <3>4
    <3>6. NumbersAreFresh'
      BY <3>1, <3>2, <3>4
    <3> QED
      BY <3>2, <3>5, <3>6
  <2>4. CASE /\ sessions[PeerOf[c]] = NoSession /\ connecting[PeerOf[c]] = NoSession
             /\ opened < MaxSessions /\ opened' = opened + 1
             /\ connecting' = [connecting EXCEPT ![PeerOf[c]] = opened + 1]
             /\ using' = [using EXCEPT ![c] = opened + 1]
    <3>1. \A d \in PeerDomains : sessions[d] # opened + 1 /\ connecting[d] # opened + 1
      BY <2>1, <2>4 DEF Sessions
    <3>2. \A e \in Calls : using[e] # opened + 1
      BY <2>1, <2>4 DEF Sessions
    <3>3. NumbersAreFresh'
      <4>1. \A n \in Sessions : n <= opened => n <= opened + 1
        BY DEF Sessions
      <4>2. opened + 1 <= opened + 1
        OBVIOUS
      <4>3. \A d \in PeerDomains : connecting'[d] = IF d = PeerOf[c] THEN opened + 1 ELSE connecting[d]
        BY <2>2, <2>4
      <4>4. \A e \in Calls : using'[e] = IF e = c THEN opened + 1 ELSE using[e]
        BY <2>4
      <4> QED
        BY <2>2, <2>4, <4>1, <4>2, <4>3, <4>4
    <3>4. OneOwner'
      BY <2>1, <2>2, <2>4, <3>1, <3>2
    <3>5. OpenIsHeld' /\ CloseOnce'
      BY <2>1, <2>2, <2>4
    <3> QED
      BY <3>3, <3>4, <3>5
  <2> QED
    BY <1>1, <2>3, <2>4 DEF GetSession
<1>2. ASSUME NEW c \in Calls, Send(c) \/ Receive(c) PROVE Ownership'
  BY <1>2 DEF Send, Receive
<1>3. ASSUME NEW c \in Calls, ReceiveUnparsable(c) \/ TransportFails(c) \/ SendThrows(c) PROVE Ownership'
  <2>1. PeerOf[c] \in PeerDomains
    OBVIOUS
  <2>2. /\ sessions' = [sessions EXCEPT ![PeerOf[c]] = NoSession]
        /\ transport' = [s \in Sessions |-> IF s = sessions[PeerOf[c]] THEN "closed" ELSE transport[s]]
        /\ UNCHANGED <<connecting, opened, using, closed, toClose>>
    BY <1>3 DEF ReceiveUnparsable, TransportFails, SendThrows, DropSession
  <2>3. OneOwner' /\ NumbersAreFresh' /\ CloseOnce'
    BY <2>1, <2>2
  <2>4. OpenIsHeld'
    BY <2>1, <2>2
  <2> QED
    BY <2>3, <2>4
<1>4. ASSUME NEW d \in PeerDomains, OpenStep(d) PROVE Ownership'
  <2>1. CASE Dialed(d)
    BY <2>1 DEF Dialed
  <2>2. CASE SessionOpened(d)
    BY <2>2 DEF SessionOpened
  <2>3. CASE OpenFailed(d)
    BY <2>3 DEF OpenFailed
  <2> QED
    BY <1>4, <2>1, <2>2, <2>3 DEF OpenStep
<1>5. CASE Close
  <2>1. /\ sessions' = [d \in PeerDomains |-> NoSession]
        /\ UNCHANGED <<connecting, opened, using>> /\ closed'
    BY <1>5 DEF Close
  <2>2. OneOwner' /\ NumbersAreFresh' /\ CloseOnce'
    BY <2>1
  <2>3. \A s \in Sessions : transport'[s] \in {"open", "peer_closed"} =>
          /\ transport[s] \in {"open", "peer_closed"} /\ s \notin toClose
          /\ s \in Cached => s \in toClose'
    BY <1>5 DEF Close
  <2>4. OpenIsHeld'
    BY <2>1, <2>3 DEF Cached
  <2> QED
    BY <2>2, <2>4
<1>6. ASSUME NEW s \in Sessions, CloseNext(s) \/ PeerCloses(s) PROVE Ownership'
  <2>1. CASE CloseNext(s)
    BY <2>1 DEF CloseNext
  <2>2. CASE PeerCloses(s)
    BY <2>2 DEF PeerCloses
  <2> QED
    BY <1>6, <2>1, <2>2
<1>7. ASSUME NEW s \in Sessions, NEW json \in BOOLEAN, PeerAnswers(s, json) PROVE Ownership'
  BY <1>7 DEF PeerAnswers
<1>8. CASE UNCHANGED forwarderVars
  BY <1>8 DEF forwarderVars
<1> QED
  BY <1>1, <1>2, <1>3, <1>4, <1>5, <1>6, <1>7, <1>8 DEF ForwarderNext, CallStep, PeerStep

\* getSession: "each (localDomain, peerDomain) pair gets at most one live
\* session at a time", also while sessions fail, are dropped by calls that held
\* an older one, or are closed one after the other.
THEOREM OneLiveSession == ForwarderSpec => []AtMostOneLiveSession
<1>1. ForwarderInit => Ownership
  BY ForwarderAssumption
     DEF ForwarderInit, Ownership, OneOwner, NumbersAreFresh, OpenIsHeld, CloseOnce, Holds
<1>2. TypeOK /\ Ownership => AtMostOneLiveSession
  <2> SUFFICES ASSUME TypeOK, Ownership, NEW d \in PeerDomains PROVE Cardinality(Live(d)) <= 1
    BY DEF AtMostOneLiveSession
  <2>1. \A s \in Live(d) : Holds(d, s)
    <3> SUFFICES ASSUME NEW s \in Live(d) PROVE Holds(d, s)
      OBVIOUS
    <3>1. /\ s \in Sessions /\ transport[s] \in {"open", "peer_closed"} /\ s \notin toClose
          /\ connecting[d] = s \/ \E c \in Calls : PeerOf[c] = d /\ using[c] = s
      BY DEF Live
    <3>2. PICK e \in PeerDomains : Holds(e, s)
      BY <3>1 DEF Ownership, OpenIsHeld
    <3>3. ASSUME NEW c \in Calls, PeerOf[c] = d, using[c] = s PROVE e = d
      BY <3>1, <3>2, <3>3, ForwarderAssumption DEF Ownership, OneOwner
    <3> QED
      BY <3>1, <3>2, <3>3 DEF Holds
  <2>2. \A s \in Live(d) : s # NoSession
    BY ForwarderAssumption DEF Live
  <2>3. PICK t : Live(d) \subseteq {t}
    BY <2>1, <2>2 DEF Ownership, OneOwner, Holds
  <2> QED
    <3>1. Live(d) = {} \/ Live(d) = {t}
      BY <2>3
    <3> QED
      <4>1. Cardinality({t}) = 1
        BY FS_Singleton, Zenon
      <4>2. Cardinality({}) = 0
        BY FS_EmptySet, Zenon
      <4> QED
        BY <3>1, <4>1, <4>2
<1> QED
  BY <1>1, <1>2, Typed, OwnershipStep, PTL DEF ForwarderSpec

-----------------------------------------------------------------------------
(* Staged delivery *)

Callbacks ==
  [kind : {"deliver", "suppress", "complete"}, id : Envelopes, hold : Nat, stage : Nat, devs : SUBSET Devices]

\* The callbacks made for an envelope, those a tick still has to make, and the
\* accepted suppress votes that no reevaluation dropped.
Made(e) == {calls[e][i] : i \in DOMAIN calls[e]}
Coming(e) == {x \in Callbacks : x.id = e /\ \E t \in Tickers : x \in ticks[t]}
Known(e) == Made(e) \cup Coming(e)
Binding(e) == {v \in vetoes \ dropped : v.id = e}

StagedTypes ==
  /\ certs \in [Delegates -> Certs \cup {NoCert}]
  /\ DOMAIN held = Envelopes
  /\ holds \in [Envelopes -> Nat]
  /\ ticks \in [Tickers -> SUBSET Callbacks]
  /\ calls \in [Envelopes -> Seq(Callbacks)]
  /\ vetoes \subseteq [id : Envelopes, hold : Nat, stage : Nat]

\* What the map holds for an envelope.
Staged(e) ==
  /\ DOMAIN held[e] = {"stages", "votes", "left"}
  /\ DOMAIN held[e].stages \subseteq Nat
  /\ \A s \in DOMAIN held[e].stages : held[e].stages[s] \subseteq Devices
  /\ DOMAIN held[e].votes = Devices

\* In this hold no device beyond the current stage has been handed the envelope,
\* nor is about to be, and a suppress vote is one of the current stage.
AtStage(e) ==
  /\ \A x \in Known(e) : x.hold = holds[e] =>
       x.kind = "deliver" /\ (HasStages(e) => x.stage <= Current(e))
  /\ \A v \in Binding(e) : v.hold = holds[e] =>
       /\ HasStages(e) /\ v.stage = Current(e)
       /\ \E d \in Devices : held[e].votes[d] = "suppress"

\* Callbacks and votes are of this hold or of an earlier one, and a suppress vote
\* is obeyed by what was called and by what is still to be.
Bound(e) ==
  /\ \A x \in Known(e) : x.hold <= holds[e]
  /\ \A v \in Binding(e) :
       /\ v.hold <= holds[e]
       /\ \A x \in Known(e) : x.hold = v.hold => x.kind # "complete" /\ x.stage <= v.stage

Sound(e) == (IsHeld(e) => Staged(e) /\ AtStage(e)) /\ Bound(e)
StagedInv ==
  /\ StagedTypes
  /\ \A e \in Envelopes : Sound(e)

\* A set of numbers has a least one.
LEMMA LeastNumber ==
  ASSUME NEW S \in SUBSET Nat, S # {}
  PROVE  \E x \in S : \A y \in S : x <= y
<1> DEFINE Below == {p \in Nat \X Nat : p[1] < p[2]}
<1>1. IsWellFoundedOn(Below, Nat)
  BY NatLessThanWellFounded DEF OpToRel
<1>2. \A x, y \in Nat : y < x => <<y, x>> \in Below
  OBVIOUS
<1> HIDE DEF Below
<1>3. PICK x \in S : \A y \in S : ~(<<y, x>> \in Below)
  BY <1>1, WFMin
<1>4. ASSUME NEW y \in S PROVE x <= y
  <2>1. x \in Nat /\ y \in Nat
    OBVIOUS
  <2>2. ~(y < x)
    BY <1>2, <1>3, <2>1, Zenon
  <2> QED
    BY <2>1, <2>2
<1> QED
  BY <1>4

\* A set of numbers with a bound has a greatest one.
LEMMA GreatestNumber ==
  ASSUME NEW n \in Nat, NEW S \in SUBSET (0..n), S # {}
  PROVE  MaxOf(S) \in S /\ \A y \in S : y <= MaxOf(S)
<1> DEFINE T == {n - m : m \in S}
<1>1. T \in SUBSET Nat /\ T # {}
  <2>1. \A m \in 0..n : n - m \in Nat
    OBVIOUS
  <2> QED
    BY <2>1
<1>2. PICK x \in T : \A y \in T : x <= y
  BY <1>1, LeastNumber
<1>3. PICK m \in S : x = n - m
  OBVIOUS
<1>4. \A y \in S : y <= m
  BY <1>2, <1>3
<1> QED
  BY <1>3, <1>4, Zenon DEF MaxOf

\* The current stage is the lowest one left.
LEMMA LowestStage ==
  ASSUME NEW f, DOMAIN f \subseteq Nat, DOMAIN f # {}
  PROVE  /\ Lowest(f) \in DOMAIN f
         /\ \A s \in DOMAIN f : Lowest(f) <= s
         /\ \A s \in DOMAIN f : (\A r \in DOMAIN f : s <= r) => s = Lowest(f)
<1>1. PICK x \in DOMAIN f : \A y \in DOMAIN f : x <= y
  BY LeastNumber
<1>2. Lowest(f) \in DOMAIN f /\ \A s \in DOMAIN f : Lowest(f) <= s
  BY <1>1, Zenon DEF Lowest
<1> QED
  BY <1>2

\* partitionStages: stages are numbers and hold devices; a full-access device
\* comes after every delegate whose certificate has a stage number.
LEMMA StageNumbers ==
  ASSUME NEW cs \in [Delegates -> Certs \cup {NoCert}]
  PROVE  /\ MaxDelegateStage(cs) \in Nat
         /\ \A d \in EligibleDelegates(cs) :
              cs[d].delivery_stage \in Nat /\ cs[d].delivery_stage <= MaxDelegateStage(cs)
<1> DEFINE S == {0} \cup {cs[d].delivery_stage : d \in {d \in Delegates : cs[d] # NoCert /\ cs[d].mode # "none"}}
<1>1. \A d \in Delegates : cs[d] # NoCert => cs[d].delivery_stage \in 0..MaxStage
  BY DEF Certs
<1>2. MaxStage \in Nat /\ S \in SUBSET (0..MaxStage) /\ S # {}
  BY <1>1, StagePartitionAssumption
<1>3. MaxOf(S) \in S /\ \A y \in S : y <= MaxOf(S)
  BY <1>2, GreatestNumber
<1>4. MaxDelegateStage(cs) = MaxOf(S)
  BY DEF MaxDelegateStage
<1>5. \A d \in EligibleDelegates(cs) :
        d \in Delegates /\ cs[d] # NoCert /\ cs[d].mode # "none" /\ cs[d].delivery_stage \in S
  BY StagePartitionAssumption DEF EligibleDelegates
<1> HIDE DEF S
<1>6. S \subseteq Nat
  BY <1>2
<1> QED
  BY <1>3, <1>4, <1>5, <1>6

LEMMA PartitionIsStaged ==
  ASSUME NEW cs \in [Delegates -> Certs \cup {NoCert}]
  PROVE  /\ DOMAIN PartitionStages(cs) \subseteq Nat
         /\ \A s \in DOMAIN PartitionStages(cs) : PartitionStages(cs)[s] \subseteq Devices
<1>1. \A d \in FullAccess \cup EligibleDelegates(cs) : StageOf(cs, d) \in Nat /\ d \in Devices
  BY StageNumbers, StagePartitionAssumption DEF StageOf, FullAccessStage, EligibleDelegates, Devices
<1> QED
  BY <1>1 DEF PartitionStages

\* The full-access devices come last once one certificate has a stage number.
LEMMA DelegatesFirst ==
  ASSUME NEW cs \in [Delegates -> Certs \cup {NoCert}], MaxDelegateStage(cs) > 0
  PROVE  \A d \in EligibleDelegates(cs), f \in FullAccess : StageOf(cs, d) < StageOf(cs, f)
<1> SUFFICES ASSUME NEW d \in EligibleDelegates(cs), NEW f \in FullAccess PROVE StageOf(cs, d) < StageOf(cs, f)
  OBVIOUS
<1>1. d \notin FullAccess
  BY StagePartitionAssumption DEF EligibleDelegates
<1>2. cs[d].delivery_stage \in Nat /\ cs[d].delivery_stage <= MaxDelegateStage(cs) /\ MaxDelegateStage(cs) \in Nat
  BY StageNumbers
<1> QED
  BY <1>1, <1>2 DEF StageOf, FullAccessStage

\* An envelope that is held as it was, with no new callbacks or votes.
LEMMA EnvelopeKept ==
  ASSUME NEW e \in Envelopes, Sound(e), held'[e] = held[e], holds'[e] = holds[e],
         Known(e)' \subseteq Known(e), Binding(e)' \subseteq Binding(e)
  PROVE  Sound(e)'
<1>1. /\ IsHeld(e)' = IsHeld(e) /\ HasStages(e)' = HasStages(e) /\ Current(e)' = Current(e)
      /\ Staged(e)' = Staged(e)
  BY DEF IsHeld, HasStages, Current, Staged
<1>2. AtStage(e) => AtStage(e)'
  BY <1>1 DEF AtStage
<1>3. Bound(e) => Bound(e)'
  BY DEF Bound
<1> QED
  BY <1>1, <1>2, <1>3 DEF Sound

LEMMA KnownKept ==
  ASSUME NEW e, ticks' = ticks, calls'[e] = calls[e]
  PROVE  Made(e)' = Made(e) /\ Coming(e)' = Coming(e) /\ Known(e)' = Known(e)
BY DEF Made, Coming, Known

\* The callbacks of an envelope are callbacks.
LEMMA KnownTypes ==
  ASSUME StagedTypes, NEW e \in Envelopes
  PROVE  Made(e) \subseteq Callbacks /\ Coming(e) \subseteq Callbacks /\ Known(e) \subseteq Callbacks
BY DEF StagedTypes, Made, Coming, Known

\* One more callback at the end of an envelope's.
LEMMA MadeOneMore ==
  ASSUME NEW s \in Seq(Callbacks), NEW c \in Callbacks
  PROVE  /\ Append(s, c) \in Seq(Callbacks)
         /\ {Append(s, c)[i] : i \in DOMAIN Append(s, c)} = {s[i] : i \in DOMAIN s} \cup {c}
<1>1. /\ Len(s) \in Nat /\ DOMAIN s = 1..Len(s)
      /\ Append(s, c) \in Seq(Callbacks)
      /\ DOMAIN Append(s, c) = 1..(Len(s) + 1)
      /\ \A i \in 1..Len(s) : Append(s, c)[i] = s[i]
      /\ Append(s, c)[Len(s) + 1] = c
  OBVIOUS
<1>2. 1..(Len(s) + 1) = (1..Len(s)) \cup {Len(s) + 1}
  BY <1>1
<1>3. {Append(s, c)[i] : i \in 1..(Len(s) + 1)} = {s[i] : i \in 1..Len(s)} \cup {c}
  BY <1>1, <1>2
<1> QED
  BY <1>1, <1>3

\* What hold calls: the devices of the lowest stage, in a hold of its own.
LEMMA HoldIs ==
  ASSUME StagedTypes, NEW e \in Envelopes, Hold(e)
  PROVE  \E c, p :
           /\ c \in Callbacks /\ c.kind = "deliver" /\ c.id = e /\ c.hold = holds[e] + 1 /\ c.stage = Lowest(p)
           /\ DOMAIN p \subseteq Nat /\ Lowest(p) \in Nat /\ \A s \in DOMAIN p : p[s] \subseteq Devices
           /\ held' = [held EXCEPT ![e] = [stages |-> p, votes |-> NoVotes, left |-> StageTimeout]]
           /\ holds' = [holds EXCEPT ![e] = holds[e] + 1]
           /\ calls' = [calls EXCEPT ![e] = Append(calls[e], c)]
           /\ UNCHANGED <<certs, ticks, vetoes, dropped, overlapped>>
<1>1. PICK p : p = PartitionStages(certs)
  OBVIOUS
<1>2. PICK c : c = Call("deliver", e, holds[e] + 1, Lowest(p), p[Lowest(p)])
  OBVIOUS
<1>3. /\ DOMAIN p # {}
      /\ held' = [held EXCEPT ![e] = [stages |-> p, votes |-> NoVotes, left |-> StageTimeout]]
      /\ holds' = [holds EXCEPT ![e] = holds[e] + 1]
      /\ calls' = [calls EXCEPT ![e] = Append(calls[e], c)]
      /\ UNCHANGED <<certs, ticks, vetoes, dropped, overlapped>>
  BY <1>1, <1>2 DEF Hold
<1>4. DOMAIN p \subseteq Nat /\ \A s \in DOMAIN p : p[s] \subseteq Devices
  BY <1>1, PartitionIsStaged DEF StagedTypes
<1>5. Lowest(p) \in DOMAIN p
  BY <1>3, <1>4, LowestStage
<1>6. /\ c \in Callbacks
      /\ c.kind = "deliver" /\ c.id = e /\ c.hold = holds[e] + 1 /\ c.stage = Lowest(p)
  BY <1>2, <1>4, <1>5 DEF Callbacks, Call, StagedTypes
<1> QED
  BY <1>3, <1>4, <1>5, <1>6

\* Registering an envelope hands it to its lowest stage, in a hold that has no
\* other callback and no vote yet.
LEMMA HoldKeeps ==
  ASSUME StagedInv, NEW e \in Envelopes, Hold(e)
  PROVE  StagedInv'
<1>1. StagedTypes /\ Bound(e) /\ holds[e] \in Nat
  BY DEF StagedInv, Sound, StagedTypes
<1>2. PICK c, p :
        /\ c \in Callbacks /\ c.kind = "deliver" /\ c.id = e /\ c.hold = holds[e] + 1 /\ c.stage = Lowest(p)
        /\ DOMAIN p \subseteq Nat /\ Lowest(p) \in Nat /\ \A s \in DOMAIN p : p[s] \subseteq Devices
        /\ held' = [held EXCEPT ![e] = [stages |-> p, votes |-> NoVotes, left |-> StageTimeout]]
        /\ holds' = [holds EXCEPT ![e] = holds[e] + 1]
        /\ calls' = [calls EXCEPT ![e] = Append(calls[e], c)]
        /\ UNCHANGED <<certs, ticks, vetoes, dropped, overlapped>>
  BY <1>1, HoldIs
<1>3. c \in Callbacks /\ calls[e] \in Seq(Callbacks) /\ calls'[e] = Append(calls[e], c)
  BY <1>1, <1>2 DEF StagedTypes
<1>4. calls' \in [Envelopes -> Seq(Callbacks)] /\ Made(e)' = Made(e) \cup {c}
  <2>1. /\ Append(calls[e], c) \in Seq(Callbacks)
        /\ {Append(calls[e], c)[i] : i \in DOMAIN Append(calls[e], c)} = {calls[e][i] : i \in DOMAIN calls[e]} \cup {c}
    BY <1>3, MadeOneMore
  <2>2. calls' \in [Envelopes -> Seq(Callbacks)]
    BY <1>1, <1>2, <2>1 DEF StagedTypes
  <2> QED
    BY <1>3, <2>1, <2>2 DEF Made
<1>5. StagedTypes'
  BY <1>1, <1>2, <1>4 DEF StagedTypes
<1>6. /\ held'[e].stages = p /\ held'[e].votes = NoVotes /\ DOMAIN held'[e] = {"stages", "votes", "left"}
      /\ holds'[e] = holds[e] + 1
  BY <1>1, <1>2 DEF StagedTypes
<1>7. Known(e)' = Known(e) \cup {c} /\ Binding(e)' = Binding(e) /\ Current(e)' = Lowest(p)
  BY <1>2, <1>4, <1>6 DEF Known, Coming, Binding, Current
<1>8. Known(e) \subseteq Callbacks /\ \A v \in Binding(e) : v.hold \in Nat
  BY <1>1, KnownTypes DEF StagedTypes, Binding
<1>9. (\A x \in Known(e) : x.hold \in Nat /\ x.hold < holds'[e]) /\ \A v \in Binding(e) : v.hold < holds'[e]
  BY <1>1, <1>6, <1>8 DEF Bound, Callbacks
<1>10. Staged(e)'
  BY <1>2, <1>6 DEF Staged, NoVotes
<1>11. AtStage(e)'
  BY <1>1, <1>2, <1>6, <1>7, <1>8, <1>9 DEF AtStage
<1>12. Bound(e)'
  <2>1. \A x \in Known(e)' : x.hold <= holds'[e]
    BY <1>1, <1>2, <1>6, <1>7, <1>9
  <2>2. ASSUME NEW v \in Binding(e)', NEW x \in Known(e)', x.hold = v.hold PROVE x \in Known(e)
    BY <1>1, <1>2, <1>6, <1>7, <1>8, <1>9, <2>2
  <2> QED
    BY <1>1, <1>7, <1>9, <1>8, <1>6, <2>1, <2>2 DEF Bound
<1>13. \A x \in Envelopes \ {e} : Sound(x)'
  <2> SUFFICES ASSUME NEW x \in Envelopes, x # e PROVE Sound(x)'
    OBVIOUS
  <2>1. held'[x] = held[x] /\ holds'[x] = holds[x] /\ calls'[x] = calls[x] /\ Binding(x)' = Binding(x)
    BY <1>1, <1>2 DEF StagedTypes, Binding
  <2> QED
    BY <1>2, <2>1, EnvelopeKept, KnownKept DEF StagedInv
<1> QED
  BY <1>5, <1>10, <1>11, <1>12, <1>13 DEF StagedInv, Sound

\* A failed first delivery takes the entry of the envelope from the map.
LEMMA HoldFailedKeeps ==
  ASSUME StagedInv, NEW h \in holding, HoldFailed(h)
  PROVE  StagedInv'
<1>1. held' = [held EXCEPT ![h[1]] = NotHeld] /\ UNCHANGED <<certs, holds, ticks, calls, vetoes, dropped>>
  BY DEF HoldFailed
<1>2. StagedTypes'
  BY <1>1 DEF StagedInv, StagedTypes
<1>3. ASSUME NEW e \in Envelopes PROVE Sound(e)'
  <2>1. Sound(e) /\ holds'[e] = holds[e] /\ Known(e)' = Known(e) /\ Binding(e)' = Binding(e)
    BY <1>1, KnownKept DEF StagedInv, Binding
  <2>2. held'[e] = held[e] \/ held'[e] = NotHeld
    BY <1>1 DEF StagedInv, StagedTypes
  <2>3. CASE held'[e] = held[e]
    BY <2>1, <2>3, EnvelopeKept
  <2>4. CASE held'[e] = NotHeld
    BY <2>1, <2>4 DEF Sound, Bound, IsHeld
  <2> QED
    BY <2>2, <2>3, <2>4
<1> QED
  BY <1>2, <1>3 DEF StagedInv

\* A suppress vote is cast at the current stage, and no device beyond it has the
\* envelope.
LEMMA IngestKeeps ==
  ASSUME StagedInv, NEW e \in Envelopes, NEW d \in Devices, NEW v \in Decisions, IngestDisposition(e, d, v)
  PROVE  StagedInv'
<1>1. /\ HasStages(e) /\ held[e].votes[d] = "none"
      /\ held' = [held EXCEPT ![e].votes[d] = v]
      /\ vetoes' = IF v = "suppress" THEN vetoes \cup {Veto(e)} ELSE vetoes
      /\ UNCHANGED <<certs, holds, ticks, calls, dropped>>
  BY DEF IngestDisposition, VotedSuppress
<1>2. IsHeld(e) /\ Staged(e) /\ AtStage(e) /\ Bound(e) /\ StagedTypes
  BY <1>1 DEF HasStages, StagedInv, Sound
<1>3. /\ held'[e].stages = held[e].stages /\ held'[e].votes = [held[e].votes EXCEPT ![d] = v]
      /\ DOMAIN held'[e] = DOMAIN held[e] /\ DOMAIN held' = Envelopes
  BY <1>1, <1>2 DEF StagedTypes, Staged
<1>4. Current(e) \in Nat /\ Veto(e) = [id |-> e, hold |-> holds[e], stage |-> Current(e)]
  BY <1>1, <1>2, LowestStage DEF Staged, HasStages, Current, Veto
<1>5. StagedTypes'
  BY <1>1, <1>2, <1>3, <1>4 DEF StagedTypes
<1>6. /\ Known(e)' = Known(e) /\ Current(e)' = Current(e) /\ holds'[e] = holds[e]
      /\ HasStages(e)' = (IsHeld(e)' /\ HasStages(e))
  BY <1>1, <1>2, <1>3, KnownKept DEF Current, HasStages
<1>7. Staged(e)'
  BY <1>2, <1>3 DEF Staged
<1>8. \A x \in Devices : held[e].votes[x] = "suppress" => held'[e].votes[x] = "suppress"
  BY <1>1, <1>2, <1>3 DEF Staged
<1>9. \A w \in Binding(e)' : w \in Binding(e) \/ (w = Veto(e) /\ v = "suppress")
  BY <1>1 DEF Binding
<1>10. IsHeld(e)' => AtStage(e)'
  <2> SUFFICES ASSUME IsHeld(e)' PROVE AtStage(e)'
    OBVIOUS
  <2>1. HasStages(e)'
    BY <1>1, <1>6
  <2>2. v = "suppress" => held'[e].votes[d] = "suppress"
    BY <1>2, <1>3 DEF Staged
  <2>3. \A w \in Binding(e)' : w.hold = holds[e] =>
          w.stage = Current(e) /\ \E x \in Devices : held'[e].votes[x] = "suppress"
    BY <1>2, <1>4, <1>8, <1>9, <2>2 DEF AtStage
  <2> QED
    BY <1>2, <1>6, <2>1, <2>3 DEF AtStage
<1>11. Bound(e)'
  <2>1. holds[e] \in Nat
    BY <1>2 DEF StagedTypes
  <2>2. ASSUME NEW w \in Binding(e)'
        PROVE  w.hold <= holds[e] /\ \A x \in Known(e) : x.hold = w.hold => x.kind # "complete" /\ x.stage <= w.stage
    BY <1>1, <1>2, <1>4, <1>9, <2>1 DEF Bound, AtStage
  <2> QED
    BY <1>2, <1>6, <2>2 DEF Bound
<1>12. \A x \in Envelopes \ {e} : Sound(x)'
  <2> SUFFICES ASSUME NEW x \in Envelopes, x # e PROVE Sound(x)'
    OBVIOUS
  <2>1. held'[x] = held[x] /\ Binding(x)' = Binding(x)
    BY <1>1, <1>2, <1>4 DEF StagedTypes, Binding
  <2> QED
    BY <1>1, <2>1, EnvelopeKept, KnownKept DEF StagedInv
<1> QED
  BY <1>5, <1>7, <1>10, <1>11, <1>12 DEF StagedInv, Sound

\* A callback moves from what is to be called to what was called.
LEMMA CallMade ==
  ASSUME StagedTypes, NEW t \in Tickers, NEW S \in SUBSET Callbacks, S # {}, ticks[t] \subseteq S, MakeCall(t, S)
  PROVE  /\ First(S) \in S
         /\ calls' \in [Envelopes -> Seq(Callbacks)] /\ ticks' \in [Tickers -> SUBSET Callbacks]
         /\ \A e \in Envelopes :
              /\ Made(e)' = Made(e) \cup {x \in {First(S)} : x.id = e}
              /\ Known(e)' = Known(e) \cup {x \in S : x.id = e}
<1>1. First(S) \in S
  <2> DEFINE Ids == {x.id : x \in S}
  <2>1. Ids \in SUBSET Nat /\ Ids # {}
    <3>1. \A x \in S : x.id \in Nat
      BY StagedRunnerAssumption DEF Callbacks
    <3> QED
      BY <3>1
  <2>2. PICK n \in Ids : \A m \in Ids : n <= m
    BY <2>1, LeastNumber
  <2>3. PICK p \in S : p.id = n
    OBVIOUS
  <2>4. \A q \in S : p.id <= q.id
    BY <2>2, <2>3
  <2> QED
    BY <2>4, Zenon DEF First
<1> DEFINE c == First(S)
<1>2. /\ calls' = [calls EXCEPT ![c.id] = Append(@, c)]
      /\ ticks' = [ticks EXCEPT ![t] = S \ {c}]
  BY Zenon DEF MakeCall
<1> HIDE DEF c
<1>3. c \in S /\ c \in Callbacks /\ c.id \in Envelopes
  BY <1>1 DEF Callbacks, c
<1>4. calls' \in [Envelopes -> Seq(Callbacks)]
  BY <1>2, <1>3 DEF StagedTypes
<1>5. ticks' \in [Tickers -> SUBSET Callbacks]
  BY <1>2 DEF StagedTypes
<1>6. ASSUME NEW e \in Envelopes PROVE Made(e)' = Made(e) \cup {x \in {c} : x.id = e}
  <2>1. CASE c.id # e
    <3>1. calls'[e] = calls[e]
      BY <1>2, <2>1 DEF StagedTypes
    <3> QED
      BY <2>1, <3>1 DEF Made
  <2>2. CASE c.id = e
    <3>1. calls'[e] = Append(calls[e], c) /\ calls[e] \in Seq(Callbacks)
      BY <1>2, <2>2 DEF StagedTypes
    <3>2. Made(e)' = Made(e) \cup {c}
      BY <1>3, <3>1, MadeOneMore DEF Made
    <3> QED
      BY <2>2, <3>2
  <2> QED
    BY <2>1, <2>2
<1>7. ASSUME NEW e \in Envelopes
      PROVE  Coming(e)' \cup {x \in {c} : x.id = e} = Coming(e) \cup {x \in S : x.id = e}
  <2>1. \A u \in Tickers : ticks'[u] = IF u = t THEN S \ {c} ELSE ticks[u]
    BY <1>2 DEF StagedTypes
  <2>2. ASSUME NEW x \in Callbacks
        PROVE  (x = c \/ \E u \in Tickers : x \in ticks'[u]) <=> (x \in S \/ \E u \in Tickers : x \in ticks[u])
    <3>1. ASSUME x = c \/ \E u \in Tickers : x \in ticks'[u]
          PROVE  x \in S \/ \E u \in Tickers : x \in ticks[u]
      BY <1>3, <2>1, <3>1
    <3>2. ASSUME x \in S PROVE x = c \/ \E u \in Tickers : x \in ticks'[u]
      BY <2>1, <3>2
    <3>3. ASSUME NEW u \in Tickers, x \in ticks[u] PROVE x = c \/ \E v \in Tickers : x \in ticks'[v]
      <4>1. u = t => x \in S
        BY <3>3
      <4> QED
        BY <2>1, <3>2, <3>3, <4>1
    <3> QED
      BY <3>1, <3>2, <3>3
  <2> QED
    BY <1>3, <2>2 DEF Coming
<1> QED
  BY <1>1, <1>4, <1>5, <1>6, <1>7 DEF c, Known

\* A reevaluation goes no stage back; a vote stays when the stage does.
LEMMA ReevaluateKeeps ==
  ASSUME StagedInv, NEW e \in Envelopes, Reevaluate(e)
  PROVE  StagedInv'
<1> DEFINE r == Rebuilt(e)
           kept == Current(e) \in DOMAIN r
           gone == {v \in vetoes : v.id = e /\ v.hold = holds[e]}
<1>1. /\ HasStages(e)
      /\ held' = [held EXCEPT ![e].stages = r, ![e].votes = IF kept THEN @ ELSE NoVotes]
      /\ dropped' = IF kept THEN dropped ELSE dropped \cup gone
      /\ UNCHANGED <<certs, holds, ticks, calls, vetoes>>
  BY DEF Reevaluate
<1>2. IsHeld(e) /\ Staged(e) /\ AtStage(e) /\ Bound(e) /\ StagedTypes
  BY <1>1 DEF HasStages, StagedInv, Sound
<1>3. /\ DOMAIN r \subseteq Nat /\ \A s \in DOMAIN r : r[s] \subseteq Devices
      /\ \A s \in DOMAIN r : s >= Current(e)
  BY <1>2, PartitionIsStaged DEF Rebuilt, StagedTypes
<1>4. Current(e) \in Nat
  BY <1>1, <1>2, LowestStage DEF Staged, HasStages, Current
<1> HIDE DEF r
<1>5. /\ held'[e].stages = r /\ held'[e].votes = (IF kept THEN held[e].votes ELSE NoVotes)
      /\ DOMAIN held'[e] = DOMAIN held[e] /\ DOMAIN held' = Envelopes
  BY <1>1, <1>2 DEF StagedTypes, Staged
<1>6. StagedTypes'
  BY <1>1, <1>2, <1>5 DEF StagedTypes
<1>7. Known(e)' = Known(e) /\ Current(e)' = Lowest(r) /\ holds'[e] = holds[e]
  BY <1>1, <1>5, KnownKept DEF Current
<1>8. Staged(e)'
  <2>1. DOMAIN held'[e].votes = Devices
    BY <1>2, <1>5 DEF Staged, NoVotes
  <2> QED
    BY <1>2, <1>3, <1>5, <2>1 DEF Staged
<1>9. DOMAIN r # {} => Lowest(r) \in Nat /\ Current(e) <= Lowest(r)
  BY <1>3, <1>4, LowestStage
<1>10. kept => Lowest(r) = Current(e) /\ DOMAIN r # {}
  BY <1>3, LowestStage
<1>11. HasStages(e)' => DOMAIN r # {}
  BY <1>5 DEF HasStages
<1>12. Binding(e)' \subseteq Binding(e) /\ (~kept => \A v \in Binding(e)' : v.hold # holds[e])
  BY <1>1 DEF Binding
<1>13. \A x \in Known(e) : x.hold = holds[e] =>
         x.kind = "deliver" /\ (HasStages(e)' => x.stage <= Lowest(r))
  <2> SUFFICES ASSUME NEW x \in Known(e), x.hold = holds[e]
               PROVE  x.kind = "deliver" /\ (HasStages(e)' => x.stage <= Lowest(r))
    OBVIOUS
  <2>1. x.kind = "deliver" /\ x.stage <= Current(e) /\ x.stage \in Nat
    BY <1>1, <1>2, KnownTypes DEF AtStage, Callbacks
  <2> QED
    BY <1>4, <1>9, <1>11, <2>1
<1>14. Bound(e)'
  BY <1>2, <1>7, <1>12 DEF Bound
<1>15. IsHeld(e)' => AtStage(e)'
  <2> SUFFICES ASSUME IsHeld(e)' PROVE AtStage(e)'
    OBVIOUS
  <2>1. ASSUME NEW v \in Binding(e)', v.hold = holds[e]
        PROVE  HasStages(e)' /\ v.stage = Current(e)' /\ \E d \in Devices : held'[e].votes[d] = "suppress"
    <3>1. kept /\ v \in Binding(e)
      BY <1>12, <2>1
    <3>2. HasStages(e)' /\ Current(e)' = Current(e) /\ held'[e].votes = held[e].votes
      BY <1>5, <1>7, <1>10, <3>1 DEF HasStages
    <3> QED
      BY <1>2, <2>1, <3>1, <3>2 DEF AtStage
  <2> QED
    BY <1>7, <1>13, <2>1 DEF AtStage
<1>16. \A x \in Envelopes \ {e} : Sound(x)'
  <2> SUFFICES ASSUME NEW x \in Envelopes, x # e PROVE Sound(x)'
    OBVIOUS
  <2>1. held'[x] = held[x] /\ Binding(x)' = Binding(x)
    BY <1>1, <1>2 DEF StagedTypes, Binding
  <2> QED
    BY <1>1, <2>1, EnvelopeKept, KnownKept DEF StagedInv
<1> QED
  BY <1>6, <1>8, <1>14, <1>15, <1>16 DEF StagedInv, Sound

\* Certificates only count when envelopes are split, and time changes no stage.
LEMMA ChangeCertKeeps ==
  ASSUME StagedInv, NEW d \in Delegates, NEW cert \in CertChoices, ChangeCert(d, cert)
  PROVE  StagedInv'
<1>1. certs' = [certs EXCEPT ![d] = cert] /\ UNCHANGED <<held, holds, ticks, calls, vetoes, dropped>>
  BY DEF ChangeCert
<1>2. StagedTypes'
  BY <1>1, StagedRunnerAssumption DEF StagedInv, StagedTypes
<1>3. \A e \in Envelopes : Binding(e)' = Binding(e)
  BY <1>1 DEF Binding
<1> QED
  BY <1>1, <1>2, <1>3, EnvelopeKept, KnownKept DEF StagedInv

LEMMA ClockKeeps ==
  ASSUME StagedInv, Clock
  PROVE  StagedInv'
<1>1. /\ held' = [e \in Envelopes |->
                    IF IsHeld(e) /\ held[e].left > 0 THEN [held[e] EXCEPT !.left = @ - 1] ELSE held[e]]
      /\ UNCHANGED <<certs, holds, ticks, calls, vetoes, dropped>>
  BY DEF Clock
<1>2. StagedTypes'
  BY <1>1 DEF StagedInv, StagedTypes
<1>3. ASSUME NEW e \in Envelopes PROVE Sound(e)'
  <2>1. held'[e] = held[e] \/ (IsHeld(e) /\ held'[e] = [held[e] EXCEPT !.left = @ - 1])
    BY <1>1
  <2>2. Sound(e) /\ Known(e)' = Known(e) /\ Binding(e)' = Binding(e) /\ holds'[e] = holds[e]
    BY <1>1, KnownKept DEF StagedInv, Binding
  <2>3. CASE held'[e] = held[e]
    BY <2>2, <2>3, EnvelopeKept
  <2>4. CASE IsHeld(e) /\ held'[e] = [held[e] EXCEPT !.left = @ - 1]
    <3>1. IsHeld(e) /\ Staged(e) /\ AtStage(e) /\ Bound(e)
      BY <2>2, <2>4 DEF Sound
    <3>2. DOMAIN held'[e] = DOMAIN held[e] /\ held'[e].stages = held[e].stages /\ held'[e].votes = held[e].votes
      BY <2>4, <3>1 DEF Staged
    <3>3. Current(e)' = Current(e) /\ (IsHeld(e)' => (HasStages(e)' <=> HasStages(e)))
      BY <3>1, <3>2 DEF Current, HasStages
    <3>4. Staged(e)' /\ Bound(e)'
      BY <2>2, <3>1, <3>2 DEF Staged, Bound
    <3>5. IsHeld(e)' => AtStage(e)'
      BY <2>2, <3>1, <3>2, <3>3 DEF AtStage
    <3> QED
      BY <3>4, <3>5 DEF Sound
  <2> QED
    BY <2>1, <2>3, <2>4
<1> QED
  BY <1>2, <1>3 DEF StagedInv

LEMMA TickCallbackKeeps ==
  ASSUME StagedInv, NEW t \in Tickers, TickCallback(t)
  PROVE  StagedInv'
<1>1. /\ ticks[t] # {} /\ MakeCall(t, ticks[t])
      /\ UNCHANGED <<certs, held, holds, vetoes, dropped, overlapped>>
  BY DEF TickCallback
<1>2. ticks[t] \in SUBSET Callbacks /\ StagedTypes
  BY DEF StagedInv, StagedTypes
<1>3. /\ calls' \in [Envelopes -> Seq(Callbacks)] /\ ticks' \in [Tickers -> SUBSET Callbacks]
      /\ \A e \in Envelopes : Known(e)' = Known(e) \cup {x \in ticks[t] : x.id = e}
  BY <1>1, <1>2, CallMade
<1>4. \A e \in Envelopes : {x \in ticks[t] : x.id = e} \subseteq Known(e)
  BY <1>2 DEF Coming, Known
<1>5. \A e \in Envelopes : Known(e)' \subseteq Known(e) /\ Binding(e)' = Binding(e)
  BY <1>1, <1>3, <1>4 DEF Binding
<1>6. \A e \in Envelopes : Sound(e)'
  BY <1>1, <1>5, EnvelopeKept DEF StagedInv
<1> QED
  BY <1>1, <1>2, <1>3, <1>6 DEF StagedInv, StagedTypes

\* What is left of the stages comes after the current one.
LEMMA RemainingAfter ==
  ASSUME NEW e, Staged(e), HasStages(e), DOMAIN Remaining(e) # {}
  PROVE  /\ DOMAIN Remaining(e) \subseteq DOMAIN held[e].stages
         /\ Lowest(Remaining(e)) \in DOMAIN Remaining(e)
         /\ Lowest(Remaining(e)) \in Nat /\ Current(e) \in Nat
         /\ Current(e) < Lowest(Remaining(e))
         /\ \A s \in DOMAIN Remaining(e) : Remaining(e)[s] = held[e].stages[s]
<1> DEFINE r == Remaining(e)
<1>1. /\ DOMAIN r = DOMAIN held[e].stages \ {Current(e)}
      /\ \A s \in DOMAIN r : r[s] = held[e].stages[s]
  BY DEF Remaining
<1> HIDE DEF r
<1>2. /\ DOMAIN held[e].stages \subseteq Nat /\ DOMAIN held[e].stages # {}
  BY DEF Staged, HasStages
<1>3. Current(e) \in DOMAIN held[e].stages /\ \A s \in DOMAIN held[e].stages : Current(e) <= s
  BY <1>2, LowestStage DEF Current
<1>4. DOMAIN r # {} /\ DOMAIN r \subseteq Nat
  BY <1>1, <1>2 DEF r
<1>5. Lowest(r) \in DOMAIN r
  BY <1>4, LowestStage
<1>6. Current(e) \in Nat /\ Lowest(r) \in Nat /\ Current(e) <= Lowest(r) /\ Current(e) # Lowest(r)
  BY <1>1, <1>2, <1>3, <1>5
<1> QED
  BY <1>1, <1>5, <1>6 DEF r

\* The callback that tick computes: a suppress of the current stage, the
\* completion, or the delivery to the next stage.
LEMMA CallbackIs ==
  ASSUME StagedTypes, NEW e \in Envelopes, Staged(e), HasStages(e)
  PROVE  /\ Callback(e) \in Callbacks /\ Callback(e).id = e /\ Callback(e).hold = holds[e]
         /\ Current(e) \in Nat
         /\ AggregateDispositions(e) = "suppress" =>
              Callback(e).kind = "suppress" /\ Callback(e).stage = Current(e)
         /\ AggregateDispositions(e) # "suppress" /\ DOMAIN Remaining(e) # {} =>
              Callback(e).kind = "deliver" /\ Callback(e).stage = Lowest(Remaining(e))
         /\ AggregateDispositions(e) # "suppress" /\ DOMAIN Remaining(e) = {} => Callback(e).kind = "complete"
<1>1. Current(e) \in Nat /\ holds[e] \in Nat
  BY LowestStage DEF Staged, HasStages, Current, StagedTypes
<1>2. CASE AggregateDispositions(e) = "suppress"
  BY <1>1, <1>2 DEF Callback, Call, Callbacks
<1>3. CASE AggregateDispositions(e) # "suppress" /\ DOMAIN Remaining(e) = {}
  BY <1>1, <1>3 DEF Callback, Call, Callbacks
<1>4. CASE AggregateDispositions(e) # "suppress" /\ DOMAIN Remaining(e) # {}
  <2> DEFINE s == Lowest(Remaining(e))
             devs == Remaining(e)[s]
  <2>1. Callback(e) = Call("deliver", e, holds[e], s, devs)
    BY <1>4, Zenon DEF Callback
  <2>2. s \in Nat /\ devs \in SUBSET Devices
    BY <1>4, RemainingAfter DEF Staged
  <2> HIDE DEF devs
  <2>3. Callback(e) = [kind |-> "deliver", id |-> e, hold |-> holds[e], stage |-> s, devs |-> devs]
    BY <2>1 DEF Call
  <2> HIDE DEF s
  <2>4. /\ Callback(e) \in Callbacks /\ Callback(e).id = e /\ Callback(e).hold = holds[e]
        /\ Callback(e).kind = "deliver" /\ Callback(e).stage = s
    BY <1>1, <2>2, <2>3 DEF Callbacks
  <2> QED
    BY <1>1, <1>4, <2>4 DEF s
<1> QED
  BY <1>2, <1>3, <1>4

\* tick: a complete stage is suppressed, or the next one follows; in both
\* cases a suppress vote that counts is obeyed.
LEMMA TickBeginKeeps ==
  ASSUME StagedInv, NEW t \in Tickers, TickBegin(t)
  PROVE  StagedInv'
<1> DEFINE S == {Callback(e) : e \in Due}
<1>1. /\ ticks[t] = {} /\ Due # {} /\ MakeCall(t, S) /\ UNCHANGED <<certs, holds, vetoes, dropped>>
      /\ held' = [e \in Envelopes |-> IF e \in Due THEN Advanced(e) ELSE held[e]]
  BY DEF TickBegin
<1>2. StagedTypes
  BY DEF StagedInv
<1>3. \A e \in Due : e \in Envelopes /\ HasStages(e) /\ IsHeld(e) /\ Staged(e) /\ AtStage(e) /\ Bound(e)
  BY DEF Due, HasStages, StagedInv, Sound
<1>4. \A e \in Due : Callback(e) \in Callbacks /\ Callback(e).id = e
  BY <1>2, <1>3, CallbackIs
<1>5. /\ S \in SUBSET Callbacks /\ S # {} /\ ticks[t] \subseteq S
      /\ \A e \in Envelopes : {x \in S : x.id = e} = IF e \in Due THEN {Callback(e)} ELSE {}
  BY <1>1, <1>4
<1> HIDE DEF S
<1>6. /\ calls' \in [Envelopes -> Seq(Callbacks)] /\ ticks' \in [Tickers -> SUBSET Callbacks]
      /\ \A e \in Envelopes : Known(e)' = Known(e) \cup {x \in S : x.id = e}
  BY <1>1, <1>2, <1>5, CallMade
<1>7. \A e \in Envelopes : holds'[e] = holds[e] /\ Binding(e)' = Binding(e)
  BY <1>1 DEF Binding
<1>8. \A e \in Envelopes \ Due : Sound(e)'
  <2> SUFFICES ASSUME NEW e \in Envelopes, e \notin Due PROVE Sound(e)'
    OBVIOUS
  <2>1. held'[e] = held[e] /\ Sound(e)
    BY <1>1 DEF StagedInv
  <2>2. Known(e)' = Known(e)
    BY <1>5, <1>6
  <2> QED
    BY <1>7, <2>1, <2>2, EnvelopeKept
<1>9. ASSUME NEW e \in Due PROVE Sound(e)'
  <2> DEFINE c == Callback(e)
             r == Remaining(e)
  <2>1. /\ e \in Envelopes /\ HasStages(e) /\ IsHeld(e) /\ Staged(e) /\ AtStage(e) /\ Bound(e)
        /\ held'[e] = Advanced(e) /\ holds'[e] = holds[e] /\ Binding(e)' = Binding(e)
        /\ Known(e)' = Known(e) \cup {c}
        /\ holds[e] \in Nat
    BY <1>1, <1>2, <1>3, <1>5, <1>6, <1>7 DEF StagedTypes
  <2>2. /\ c \in Callbacks /\ Current(e) \in Nat /\ c.hold = holds[e]
        /\ AggregateDispositions(e) = "suppress" => c.kind = "suppress" /\ c.stage = Current(e)
        /\ AggregateDispositions(e) # "suppress" /\ DOMAIN r # {} => c.kind = "deliver" /\ c.stage = Lowest(r)
    BY <1>2, <2>1, CallbackIs
  <2>3. \A x \in Known(e) : x.hold = holds[e] => x.kind = "deliver" /\ x.stage \in Nat /\ x.stage <= Current(e)
    BY <1>2, <2>1, KnownTypes DEF AtStage, Callbacks
  <2> HIDE DEF c
  <2>4. AggregateDispositions(e) # "suppress" => \A v \in Binding(e) : v.hold # holds[e]
    BY <2>1 DEF AtStage, AggregateDispositions
  <2>5. Bound(e)'
    <3>1. \A v \in Binding(e) : v.hold = holds[e] => AggregateDispositions(e) = "suppress" /\ v.stage = Current(e)
      BY <2>1, <2>4 DEF AtStage
    <3>2. \A v \in Binding(e) : v.hold = holds[e] => c.kind # "complete" /\ c.stage <= v.stage
      BY <2>2, <3>1
    <3> QED
      BY <2>1, <2>2, <3>2 DEF Bound
  <2>6. CASE AggregateDispositions(e) = "suppress" \/ DOMAIN r = {}
    <3>1. held'[e] = NotHeld
      BY <2>1, <2>6 DEF Advanced
    <3> QED
      BY <2>5, <3>1 DEF Sound, IsHeld
  <2>7. CASE AggregateDispositions(e) # "suppress" /\ DOMAIN r # {}
    <3>1. held'[e] = [stages |-> r, votes |-> NoVotes, left |-> StageTimeout]
      BY <2>1, <2>7 DEF Advanced
    <3>2. /\ DOMAIN r \subseteq DOMAIN held[e].stages
          /\ Lowest(r) \in Nat /\ Current(e) < Lowest(r)
          /\ \A s \in DOMAIN r : r[s] = held[e].stages[s]
      BY <2>1, <2>7, RemainingAfter
    <3> HIDE DEF r
    <3>3. /\ held'[e].stages = r /\ held'[e].votes = NoVotes /\ DOMAIN held'[e] = {"stages", "votes", "left"}
      BY <3>1
    <3>4. Staged(e)'
      BY <2>1, <3>2, <3>3 DEF Staged, NoVotes
    <3>5. Current(e)' = Lowest(r)
      BY <3>3 DEF Current
    <3>6. \A x \in Known(e)' : x.hold = holds[e] => x.kind = "deliver" /\ x.stage <= Lowest(r)
      BY <2>1, <2>2, <2>3, <2>7, <3>2
    <3>7. AtStage(e)'
      BY <2>1, <2>4, <2>7, <3>5, <3>6 DEF AtStage
    <3> QED
      BY <2>5, <3>4, <3>7 DEF Sound
  <2> QED
    BY <2>6, <2>7
<1> QED
  BY <1>1, <1>2, <1>6, <1>8, <1>9 DEF StagedInv, StagedTypes, Advanced

LEMMA NothingKept ==
  ASSUME StagedInv, UNCHANGED <<certs, held, holds, ticks, calls, vetoes, dropped>>
  PROVE  StagedInv'
<1>1. StagedTypes'
  BY DEF StagedInv, StagedTypes
<1>2. \A e \in Envelopes : Binding(e)' = Binding(e) /\ Known(e)' = Known(e)
  BY KnownKept DEF Binding
<1> QED
  BY <1>1, <1>2, EnvelopeKept DEF StagedInv

\* The invariant of staged delivery: what the devices of a held envelope were
\* handed in this hold lies within its stages so far, and a suppress vote is one
\* of the current stage.
LEMMA StagedInvariant == StagedSpec => []StagedInv
<1>1. StagedInit => StagedInv
  <2> SUFFICES ASSUME StagedInit PROVE StagedInv
    OBVIOUS
  <2>1. certs \in [Delegates -> Certs \cup {NoCert}]
    BY StagedRunnerAssumption DEF StagedInit
  <2>2. StagedTypes
    BY <2>1 DEF StagedInit, StagedTypes
  <2>3. \A e \in Envelopes : Known(e) = {} /\ Binding(e) = {}
    BY DEF StagedInit, Known, Made, Coming, Binding
  <2>4. \A e \in Envelopes : Sound(e)
    BY <2>3 DEF StagedInit, Sound, IsHeld, Bound
  <2> QED
    BY <2>2, <2>4 DEF StagedInv
<1>2. StagedInv /\ [StagedNext]_stagedVars => StagedInv'
  <2> SUFFICES ASSUME StagedInv, [StagedNext]_stagedVars PROVE StagedInv'
    OBVIOUS
  <2>1. ASSUME NEW e \in Envelopes, Hold(e) PROVE StagedInv'
    BY <2>1, HoldKeeps
  <2>2. ASSUME NEW h \in holding, HoldDelivered(h) PROVE StagedInv'
    BY <2>2, NothingKept DEF HoldDelivered
  <2>3. ASSUME NEW h \in holding, HoldFailed(h) PROVE StagedInv'
    BY <2>3, HoldFailedKeeps
  <2>4. ASSUME NEW e \in Envelopes, Reevaluate(e) PROVE StagedInv'
    BY <2>4, ReevaluateKeeps
  <2>5. ASSUME NEW e \in Envelopes, NEW d \in Devices, NEW v \in Decisions, IngestDisposition(e, d, v)
        PROVE  StagedInv'
    BY <2>5, IngestKeeps
  <2>6. ASSUME NEW t \in Tickers, TickBegin(t) PROVE StagedInv'
    BY <2>6, TickBeginKeeps
  <2>7. ASSUME NEW t \in Tickers, TickCallback(t) PROVE StagedInv'
    BY <2>7, TickCallbackKeeps
  <2>8. ASSUME NEW d \in Delegates, NEW cert \in CertChoices, ChangeCert(d, cert) PROVE StagedInv'
    BY <2>8, ChangeCertKeeps
  <2>9. ASSUME Clock PROVE StagedInv'
    BY <2>9, ClockKeeps
  <2>10. ASSUME UNCHANGED stagedVars PROVE StagedInv'
    BY <2>10, NothingKept DEF stagedVars
  <2> QED
    BY <2>1, <2>2, <2>3, <2>4, <2>5, <2>6, <2>7, <2>8, <2>9, <2>10 DEF StagedNext
<1> QED
  BY <1>1, <1>2, PTL DEF StagedSpec

\* SuppressBinds (ingestDisposition, aggregateDispositions, reevaluate and tick of
\* staged_runner.ts), for any number of envelopes, holds, overlapping ticks and
\* failing first deliveries.
THEOREM SuppressBindsHolds == StagedSpec => []SuppressBinds
<1>1. ASSUME StagedInv PROVE SuppressBinds
  <2> SUFFICES ASSUME NEW v \in vetoes \ dropped PROVE Obeyed(v)
    BY DEF SuppressBinds
  <2>1. v.id \in Envelopes /\ v \in Binding(v.id) /\ Bound(v.id)
    BY <1>1 DEF StagedInv, StagedTypes, Binding, Sound
  <2>2. \A i \in DOMAIN calls[v.id] : calls[v.id][i] \in Known(v.id)
    BY DEF Made, Known
  <2> QED
    BY <2>1, <2>2 DEF Bound, Obeyed
<1> QED
  BY <1>1, StagedInvariant, PTL

-----------------------------------------------------------------------------
(* The order of an envelope's callbacks *)

\* One callback before another one of its envelope, also while ticks overlap or
\* (over) only until they do.
Before(over, c, x) == Once(c, x) /\ (~over => InTurn(c, x))

InOrder(e) ==
  /\ \A j \in DOMAIN calls[e] : \A i \in 1..(j - 1) : Before(overlapped, calls[e][i], calls[e][j])
  /\ \A x \in Coming(e), c \in Made(e) : Before(overlapped, c, x)
  /\ \A t, u \in Tickers : \A x \in ticks[t], y \in ticks[u] :
       x.id = e /\ y.id = e => IF t = u THEN x = y ELSE Once(x, y)

\* Until ticks overlap there are callbacks to make for one of them.
OneTick == ~overlapped => \A t, u \in Tickers : t = u \/ ticks[t] = {} \/ ticks[u] = {}

OrderInv ==
  /\ StagedInv
  /\ overlapped \in BOOLEAN
  /\ OneTick
  /\ \A e \in Envelopes : InOrder(e)

\* One callback more at the end of those of an envelope that all come before it.
LEMMA MadeInOrder ==
  ASSUME NEW s \in Seq(Callbacks), NEW n \in Callbacks, NEW over,
         \A j \in DOMAIN s : \A i \in 1..(j - 1) : Before(over, s[i], s[j]),
         \A i \in DOMAIN s : Before(over, s[i], n)
  PROVE  \A j \in DOMAIN Append(s, n) : \A i \in 1..(j - 1) : Before(over, Append(s, n)[i], Append(s, n)[j])
<1>1. /\ Len(s) \in Nat /\ DOMAIN s = 1..Len(s)
      /\ DOMAIN Append(s, n) = 1..(Len(s) + 1)
      /\ \A i \in 1..Len(s) : Append(s, n)[i] = s[i]
      /\ Append(s, n)[Len(s) + 1] = n
  OBVIOUS
<1> SUFFICES ASSUME NEW j \in 1..(Len(s) + 1), NEW i \in 1..(j - 1)
             PROVE  Before(over, Append(s, n)[i], Append(s, n)[j])
  BY <1>1
<1>2. i \in 1..Len(s) /\ Append(s, n)[i] = s[i]
  BY <1>1
<1>3. CASE j = Len(s) + 1
  BY <1>1, <1>2, <1>3
<1>4. CASE j # Len(s) + 1
  <2>1. j \in 1..Len(s) /\ Append(s, n)[j] = s[j]
    BY <1>1, <1>4
  <2> QED
    BY <1>1, <1>2, <2>1
<1> QED
  BY <1>3, <1>4

\* A tick makes the first of the callbacks S it has: they come after what was
\* called, one per envelope, and beside those of other ticks.
LEMMA CallInOrder ==
  ASSUME StagedTypes, overlapped \in BOOLEAN, overlapped' \in BOOLEAN, overlapped => overlapped',
         NEW t \in Tickers, NEW S \in SUBSET Callbacks, S # {}, ticks[t] \subseteq S, MakeCall(t, S),
         ~overlapped' => \A u \in Tickers : u = t \/ ticks[u] = {},
         NEW e \in Envelopes, InOrder(e),
         \A x, y \in S : x.id = e /\ y.id = e => x = y,
         \A x \in S, c \in Made(e) : x.id = e => Before(overlapped', c, x),
         \A u \in Tickers : \A x \in S, y \in ticks[u] : u # t /\ x.id = e /\ y.id = e => Once(x, y)
  PROVE  InOrder(e)' /\ OneTick'
<1> DEFINE n == First(S)
           s == calls[e]
<1>1. n \in S /\ n \in Callbacks
  BY CallMade
<1>2. /\ calls' = [calls EXCEPT ![n.id] = Append(@, n)]
      /\ ticks' = [ticks EXCEPT ![t] = S \ {n}]
  BY Zenon DEF MakeCall
<1>3. Made(e)' = Made(e) \cup {x \in {n} : x.id = e}
  BY CallMade
<1> HIDE DEF n
<1>4. \A u \in Tickers : ticks'[u] = IF u = t THEN S \ {n} ELSE ticks[u]
  BY <1>2 DEF StagedTypes
<1>5. OneTick'
  BY <1>4 DEF OneTick
<1>6. \A c, x : Once(c, x) => Once(x, c)
  BY DEF Once
<1>7. \A u, w \in Tickers : \A x \in ticks'[u], y \in ticks'[w] :
        x.id = e /\ y.id = e => IF u = w THEN x = y ELSE Once(x, y)
  <2> SUFFICES ASSUME NEW u \in Tickers, NEW w \in Tickers, NEW x \in ticks'[u], NEW y \in ticks'[w],
                      x.id = e, y.id = e
               PROVE  IF u = w THEN x = y ELSE Once(x, y)
    OBVIOUS
  <2>1. CASE u # t /\ w # t
    BY <1>4, <2>1 DEF InOrder
  <2>2. CASE u = t /\ w = t
    BY <1>4, <2>2
  <2>3. CASE u = t /\ w # t
    BY <1>4, <2>3
  <2>4. CASE u # t /\ w = t
    BY <1>4, <1>6, <2>4
  <2> QED
    BY <2>1, <2>2, <2>3, <2>4
<1>8. \A c, x : Before(overlapped, c, x) => Before(overlapped', c, x)
  BY DEF Before
<1>9. ASSUME NEW x \in Coming(e)', NEW c \in Made(e)' PROVE Before(overlapped', c, x)
  <2>1. PICK u \in Tickers : x \in ticks'[u] /\ x.id = e /\ x \in Callbacks
    BY DEF Coming
  <2>2. CASE u = t
    <3>1. x \in S /\ x # n
      BY <1>4, <2>1, <2>2
    <3>2. c \in Made(e)
      BY <1>1, <1>3, <2>1, <3>1
    <3> QED
      BY <2>1, <3>1, <3>2
  <2>3. CASE u # t
    <3>1. x \in ticks[u] /\ overlapped' /\ x \in Coming(e)
      BY <1>4, <2>1, <2>3 DEF Coming
    <3>2. CASE c \in Made(e)
      BY <1>8, <3>1, <3>2 DEF InOrder
    <3>3. CASE c = n /\ n.id = e
      BY <1>1, <2>1, <2>3, <3>1, <3>3 DEF Before
    <3> QED
      BY <1>3, <3>2, <3>3
  <2> QED
    BY <2>2, <2>3
<1>10. \A j \in DOMAIN calls'[e] : \A i \in 1..(j - 1) : Before(overlapped', calls'[e][i], calls'[e][j])
  <2>1. \A j \in DOMAIN s : \A i \in 1..(j - 1) : Before(overlapped', s[i], s[j])
    BY <1>8 DEF InOrder
  <2>2. CASE n.id # e
    <3>1. calls'[e] = s
      BY <1>2, <2>2 DEF StagedTypes
    <3> QED
      BY <2>1, <3>1
  <2>3. CASE n.id = e
    <3>1. s \in Seq(Callbacks) /\ calls'[e] = Append(s, n)
      BY <1>2, <2>3 DEF StagedTypes
    <3>2. \A i \in DOMAIN s : Before(overlapped', s[i], n)
      BY <1>1, <2>3 DEF Made
    <3> HIDE DEF s
    <3>3. PICK over : over = overlapped'
      OBVIOUS
    <3> QED
      BY <1>1, <2>1, <3>1, <3>2, <3>3, MadeInOrder
  <2> QED
    BY <2>2, <2>3
<1> QED
  BY <1>5, <1>7, <1>9, <1>10 DEF InOrder

\* Nothing is called, and what is to be called is as it was.
LEMMA OrderKept ==
  ASSUME NEW e \in Envelopes, InOrder(e), calls'[e] = calls[e], ticks' = ticks, overlapped' = overlapped
  PROVE  InOrder(e)'
<1>1. Made(e)' = Made(e) /\ Coming(e)' = Coming(e)
  BY KnownKept
<1> QED
  BY <1>1 DEF InOrder

\* The first callback of a hold comes after those of earlier holds.
LEMMA HoldInOrder ==
  ASSUME OrderInv, NEW e \in Envelopes, Hold(e)
  PROVE  InOrder(e)'
<1>1. StagedTypes /\ Bound(e) /\ InOrder(e) /\ holds[e] \in Nat
  BY DEF OrderInv, StagedInv, Sound, StagedTypes
<1>2. PICK c \in Callbacks : /\ c.hold = holds[e] + 1
                             /\ calls' = [calls EXCEPT ![e] = Append(calls[e], c)]
                             /\ UNCHANGED <<ticks, overlapped>>
  BY <1>1, HoldIs
<1>3. calls[e] \in Seq(Callbacks) /\ calls'[e] = Append(calls[e], c)
  BY <1>1, <1>2 DEF StagedTypes
<1>4. Made(e)' = Made(e) \cup {c} /\ Coming(e)' = Coming(e)
  BY <1>2, <1>3, MadeOneMore DEF Made, Coming
<1>5. \A x \in Known(e) : x.hold # c.hold
  BY <1>1, <1>2, KnownTypes DEF Bound, Callbacks
<1>6. \A x \in Known(e) : Before(overlapped, x, c) /\ Before(overlapped, c, x)
  BY <1>5 DEF Before, Once, InTurn
<1>7. \A x \in Coming(e)', d \in Made(e)' : Before(overlapped, d, x)
  BY <1>1, <1>4, <1>6 DEF InOrder, Known
<1>8. \A i \in DOMAIN calls[e] : Before(overlapped, calls[e][i], c)
  BY <1>6 DEF Known, Made
<1>9. \A j \in DOMAIN calls'[e] : \A i \in 1..(j - 1) : Before(overlapped, calls'[e][i], calls'[e][j])
  <2>1. \A j \in DOMAIN calls[e] : \A i \in 1..(j - 1) : Before(overlapped, calls[e][i], calls[e][j])
    BY <1>1 DEF InOrder
  <2> QED
    BY <1>3, <1>8, <2>1, MadeInOrder
<1> QED
  BY <1>1, <1>2, <1>7, <1>9 DEF InOrder

\* A tick's callbacks come after everything that was called in the same hold,
\* and beside what other ticks have to call.
LEMMA TickBeginInOrder ==
  ASSUME OrderInv, NEW t \in Tickers, TickBegin(t), NEW e \in Envelopes
  PROVE  InOrder(e)' /\ OneTick'
<1> DEFINE S == {Callback(d) : d \in Due}
<1>1. /\ ticks[t] = {} /\ Due # {} /\ MakeCall(t, S) /\ StagedTypes /\ InOrder(e)
      /\ overlapped' = (overlapped \/ \E u \in Tickers : ticks[u] # {})
  BY DEF TickBegin, OrderInv, StagedInv
<1>2. \A d \in Due : d \in Envelopes /\ HasStages(d) /\ Staged(d) /\ AtStage(d)
  BY DEF Due, HasStages, OrderInv, StagedInv, Sound
<1>3. \A d \in Due : Callback(d) \in Callbacks /\ Callback(d).id = d
  BY <1>1, <1>2, CallbackIs
<1>4. S \in SUBSET Callbacks /\ S # {} /\ ticks[t] \subseteq S /\ (\A x, y \in S : x.id = e /\ y.id = e => x = y)
  BY <1>1, <1>3
<1>5. ASSUME NEW x \in S, NEW c \in Known(e), x.id = e PROVE Once(c, x) /\ Once(x, c) /\ InTurn(c, x)
  <2> SUFFICES ASSUME c.hold = x.hold PROVE Once(c, x) /\ Once(x, c) /\ InTurn(c, x)
    BY DEF Once, InTurn
  <2>1. e \in Due /\ x = Callback(e)
    BY <1>3, <1>5
  <2>2. HasStages(e) /\ Staged(e) /\ AtStage(e) /\ x.hold = holds[e]
    BY <1>1, <1>2, <2>1, CallbackIs
  <2>3. c.kind = "deliver" /\ c.stage \in Nat /\ c.stage <= Current(e)
    BY <1>1, <2>2, KnownTypes DEF AtStage, Callbacks
  <2>4. CASE x.kind = "deliver"
    <3>1. AggregateDispositions(e) # "suppress" /\ DOMAIN Remaining(e) # {}
      BY <1>1, <2>1, <2>2, <2>4, CallbackIs
    <3>2. x.stage = Lowest(Remaining(e))
      BY <1>1, <2>1, <2>2, <3>1, CallbackIs
    <3>3. Current(e) \in Nat /\ Lowest(Remaining(e)) \in Nat /\ Current(e) < Lowest(Remaining(e))
      BY <2>2, <3>1, RemainingAfter
    <3>4. c.stage < x.stage /\ c.stage # x.stage
      BY <2>3, <3>2, <3>3
    <3> QED
      BY <2>3, <2>4, <3>4 DEF Once, InTurn
  <2>5. CASE x.kind # "deliver"
    BY <2>3, <2>5 DEF Once, InTurn
  <2> QED
    BY <2>4, <2>5
<1>6. \A x \in S, c \in Made(e) : x.id = e => Before(overlapped', c, x)
  BY <1>5 DEF Before, Known
<1>7. \A u \in Tickers : \A x \in S, y \in ticks[u] : u # t /\ x.id = e /\ y.id = e => Once(x, y)
  <2> SUFFICES ASSUME NEW u \in Tickers, NEW x \in S, NEW y \in ticks[u], x.id = e, y.id = e PROVE Once(x, y)
    OBVIOUS
  <2>1. y \in Known(e)
    BY <1>1 DEF Known, Coming, StagedTypes
  <2> QED
    BY <1>5, <2>1
<1>8. /\ overlapped \in BOOLEAN /\ overlapped' \in BOOLEAN /\ (overlapped => overlapped')
      /\ ~overlapped' => \A u \in Tickers : u = t \/ ticks[u] = {}
  BY <1>1 DEF OrderInv
<1> HIDE DEF S
<1> QED
  BY <1>1, <1>4, <1>6, <1>7, <1>8, CallInOrder

\* What a tick has still to call it calls next.
LEMMA TickCallbackInOrder ==
  ASSUME OrderInv, NEW t \in Tickers, TickCallback(t), NEW e \in Envelopes
  PROVE  InOrder(e)' /\ OneTick'
<1>1. /\ ticks[t] # {} /\ MakeCall(t, ticks[t]) /\ StagedTypes /\ InOrder(e) /\ overlapped' = overlapped
      /\ ticks[t] \in SUBSET Callbacks /\ overlapped \in BOOLEAN
  BY DEF TickCallback, OrderInv, StagedInv, StagedTypes
<1>2. \A x \in ticks[t] : x.id = e => x \in Coming(e)
  BY <1>1 DEF Coming
<1>3. /\ \A x, y \in ticks[t] : x.id = e /\ y.id = e => x = y
      /\ \A x \in ticks[t], c \in Made(e) : x.id = e => Before(overlapped', c, x)
      /\ \A u \in Tickers : \A x \in ticks[t], y \in ticks[u] : u # t /\ x.id = e /\ y.id = e => Once(x, y)
  BY <1>1, <1>2 DEF InOrder
<1>4. ~overlapped' => \A u \in Tickers : u = t \/ ticks[u] = {}
  BY <1>1 DEF OrderInv, OneTick
<1> QED
  BY <1>1, <1>3, <1>4, CallInOrder

\* Every stage of a hold is delivered once and in order, and the hold ends once,
\* with nothing after it, until two ticks overlap; then still once, but no longer
\* in order (tick of staged_runner.ts). A delegated device is in an earlier stage
\* than every full-access one once a certificate has a stage number
\* (partitionStages of stage_partition.ts). For any number of ticks, holds and
\* devices and for all certificates.
THEOREM CallbacksInOrderHolds == StagedSpec => []CallbacksInOrder
<1>1. StagedInit /\ StagedInv => OrderInv
  <2> SUFFICES ASSUME StagedInit, StagedInv PROVE OrderInv
    OBVIOUS
  <2>1. overlapped = FALSE /\ \A t \in Tickers : ticks[t] = {}
    BY DEF StagedInit
  <2>2. ASSUME NEW e \in Envelopes PROVE InOrder(e)
    <3>1. calls[e] = <<>> /\ DOMAIN calls[e] = {}
      BY DEF StagedInit
    <3>2. Coming(e) = {}
      BY <2>1 DEF Coming
    <3> QED
      BY <2>1, <3>1, <3>2 DEF InOrder
  <2> QED
    BY <2>1, <2>2 DEF OrderInv, OneTick
<1>2. OrderInv /\ StagedInv' /\ [StagedNext]_stagedVars => OrderInv'
  <2> SUFFICES ASSUME OrderInv, StagedInv', [StagedNext]_stagedVars PROVE OrderInv'
    OBVIOUS
  <2>1. /\ StagedTypes /\ OneTick /\ overlapped \in BOOLEAN
        /\ \A e \in Envelopes : InOrder(e)
    BY DEF OrderInv, StagedInv
  <2>2. overlapped' \in BOOLEAN
    BY <2>1 DEF StagedNext, stagedVars, Hold, HoldDelivered, HoldFailed, Reevaluate, IngestDisposition, TickBegin,
                TickCallback, ChangeCert, Clock
  <2>3. ASSUME NEW x \in Envelopes, Hold(x) PROVE OneTick' /\ \A e \in Envelopes : InOrder(e)'
    <3>1. ticks' = ticks /\ overlapped' = overlapped /\ \A e \in Envelopes \ {x} : calls'[e] = calls[e]
      BY <2>1, <2>3 DEF Hold, StagedTypes
    <3>2. \A e \in Envelopes \ {x} : InOrder(e)'
      BY <2>1, <3>1, OrderKept
    <3> QED
      BY <2>1, <2>3, <3>1, <3>2, HoldInOrder DEF OneTick
  <2>4. ASSUME NEW t \in Tickers, TickBegin(t) \/ TickCallback(t) PROVE OneTick' /\ \A e \in Envelopes : InOrder(e)'
    <3>1. \A e \in Envelopes : OneTick' /\ InOrder(e)'
      BY <2>4, TickBeginInOrder, TickCallbackInOrder
    <3>2. Envelopes # {}
      <4>1. CASE TickBegin(t)
        BY <4>1 DEF TickBegin, Due
      <4>2. CASE TickCallback(t)
        BY <2>1, <4>2 DEF TickCallback, StagedTypes, Callbacks
      <4> QED
        BY <2>4, <4>1, <4>2
    <3> QED
      BY <3>1, <3>2
  <2>5. ASSUME UNCHANGED <<calls, ticks, overlapped>> PROVE OneTick' /\ \A e \in Envelopes : InOrder(e)'
    BY <2>1, <2>5, OrderKept DEF OneTick
  <2>6. \/ \E x \in Envelopes : Hold(x)
        \/ \E t \in Tickers : TickBegin(t) \/ TickCallback(t)
        \/ UNCHANGED <<calls, ticks, overlapped>>
    BY DEF StagedNext, stagedVars, HoldDelivered, HoldFailed, Reevaluate, IngestDisposition, ChangeCert, Clock
  <2> QED
    BY <2>2, <2>3, <2>4, <2>5, <2>6 DEF OrderInv
<1>3. OrderInv => CallbacksInOrder
  <2> SUFFICES ASSUME OrderInv PROVE CallbacksInOrder
    OBVIOUS
  <2>1. certs \in [Delegates -> Certs \cup {NoCert}]
    BY DEF OrderInv, StagedInv, StagedTypes
  <2>2. MaxDelegateStage(certs) > 0 =>
          \A d \in EligibleDelegates(certs), f \in FullAccess : StageOf(certs, d) < StageOf(certs, f)
    BY <2>1, DelegatesFirst
  <2>3. \A e \in Envelopes : \A j \in DOMAIN calls[e] : \A i \in 1..(j - 1) :
          /\ Once(calls[e][i], calls[e][j])
          /\ ~overlapped => InTurn(calls[e][i], calls[e][j])
    BY DEF OrderInv, InOrder, Before
  <2> QED
    BY <2>2, <2>3, Zenon DEF CallbacksInOrder
<1> QED
  BY <1>1, <1>2, <1>3, StagedInvariant, PTL DEF StagedSpec
=============================================================================
