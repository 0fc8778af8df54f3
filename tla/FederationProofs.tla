-------------------------- MODULE FederationProofs --------------------------
(***************************************************************************)
(* PeersAgree of the server-to-server handshake, for any number of          *)
(* initiators, responders and overlapping onInit calls.                    *)
(***************************************************************************)
EXTENDS Federation, TLAPS

Keys == [suite : FederationSuites, initiator : Initiators, responder : SessionIds]
Inits == [step : {"init"}, initiator : Initiators, suite : FederationSuites, offers : SUBSET FederationSuites, signer : ServerDomains]
ResponderStates == [sid : SessionIds, init : Inits, peerDomain : ServerDomains, keys : Keys \cup {NoValue}]

TypeOK ==
  /\ iCfg \in [Initiators -> InitiatorConfigs]
  /\ rCfg \in [Responders -> ResponderConfigs]
  /\ iPc \in [Initiators -> {"new", "init", "confirm", "done", "erased"}]
  /\ iSession \in [Initiators -> SessionIds \cup {NoValue}]
  /\ iKeys \in [Initiators -> Keys \cup {NoValue}]
  /\ agreed \subseteq Initiators
  /\ verifying \in [Responders -> SUBSET [call : 1..MaxInits, init : Inits]]
  /\ inits \in [Responders -> 0..MaxInits]
  /\ rState \in [Responders -> ResponderStates \cup {NoValue}]

Chosen(i) == iSession[i] # NoValue
Response(sid, i) == FedResponseMsg(sid[1], sid, i)
Confirm(i, accepted) ==
  [step |-> "confirm", sid |-> iSession[i], accepted |-> accepted,
   hash |-> ConfirmationHash(FedInitMsg(i), Response(iSession[i], i)), signer |-> iCfg[i].domain]
Accepted(e) == [step |-> "accepted", sid |-> e.sid, signer |-> rCfg[e.sid[1]].domain]
SessionOf(i) == [sid |-> iSession[i], keys |-> iKeys[i], peerDomain |-> iCfg[i].domain]

\* Every message sent was made by one instance from its own state.
MessageForms ==
  \A m \in wire :
    \/ \E i \in Initiators : m = FedInitMsg(i)
    \/ \E sid \in SessionIds, i \in Initiators : m = Response(sid, i)
    \/ \E i \in Initiators, accepted \in BOOLEAN :
         Chosen(i) /\ m = Confirm(i, accepted) /\ (accepted => i \in agreed)
    \/ \E e \in established : m = Accepted(e)

\* The calls of onInit that are under way have numbers of their own, and hold
\* the init of one initiator each.
CallsApart ==
  \A r \in Responders :
    /\ \A v \in verifying[r] : v.call \in 1..inits[r] /\ \E i \in Initiators : v.init = FedInitMsg(i)
    /\ \A v1, v2 \in verifying[r] : v1.call = v2.call => v1 = v2

\* A call of onInit sends one response, when it ends: a session id is in one
\* response, and not in that of a call still under way.
OneResponsePerCall ==
  \A sid \in SessionIds, i \in Initiators : Response(sid, i) \in wire =>
    /\ sid[2] <= inits[sid[1]] /\ \A v \in verifying[sid[1]] : v.call # sid[2]
    /\ iCfg[i].suite = rCfg[sid[1]].suite
    /\ \A j \in Initiators : Response(sid, j) \in wire => j = i

\* What a responder keeps is of one response it sent.
ResponderKeeps ==
  \A r \in Responders : rState[r] # NoValue =>
    /\ rState[r].sid \in SessionIds /\ rState[r].sid[1] = r
    /\ \E i \in Initiators :
         /\ rState[r].init = FedInitMsg(i) /\ rState[r].peerDomain = iCfg[i].domain
         /\ Response(rState[r].sid, i) \in wire
         /\ rState[r].keys # NoValue => rState[r].keys = SessionKeys(rCfg[r].suite, i, rState[r].sid)

\* An initiator goes on with one response, of the domain it called.
InitiatorChoosesOnce ==
  \A i \in Initiators :
    /\ iPc[i] \in {"new", "init"} => ~Chosen(i)
    /\ iPc[i] \in {"confirm", "done"} => Chosen(i)
    /\ Chosen(i) => /\ Response(iSession[i], i) \in wire
                    /\ iKeys[i] = SessionKeys(iCfg[i].suite, i, iSession[i])
                    /\ rCfg[iSession[i][1]].domain = iCfg[i].peer

\* A session is established on the confirm of the initiator it is with, which
\* completes only then.
CompletedTogether ==
  /\ \A e \in established : \E i \in agreed : Chosen(i) /\ e = SessionOf(i)
  /\ \A i \in Initiators : iPc[i] = "done" => SessionOf(i) \in established

IInv ==
  /\ TypeOK /\ MessageForms /\ CallsApart /\ OneResponsePerCall /\ ResponderKeeps
  /\ InitiatorChoosesOnce /\ CompletedTogether

-----------------------------------------------------------------------------

\* The four kinds of message are told apart by their step, and a response by
\* its session id and its nonce.
LEMMA MessageSteps ==
  /\ \A i : FedInitMsg(i).step = "init" /\ FedInitMsg(i).initiator = i
  /\ \A sid, i : /\ Response(sid, i).step = "response"
                 /\ Response(sid, i).sid = sid /\ Response(sid, i).client_nonce = i
                 /\ Response(sid, i).suite = rCfg[sid[1]].suite
                 /\ Response(sid, i).signer = rCfg[sid[1]].domain
  /\ \A i, accepted : /\ Confirm(i, accepted).step = "confirm"
                      /\ Confirm(i, accepted).sid = iSession[i]
                      /\ Confirm(i, accepted).accepted = accepted
                      /\ Confirm(i, accepted).hash = <<FedInitMsg(i), Response(iSession[i], i)>>
  /\ \A e : Accepted(e).step = "accepted" /\ Accepted(e).sid = e.sid
BY DEF FedInitMsg, Response, FedResponseMsg, Confirm, Accepted, ConfirmationHash

\* What a message of each step says about the instance that sent it.
LEMMA InitSays ==
  ASSUME MessageForms, NEW m \in wire, m.step = "init"
  PROVE  \E i \in Initiators : m = FedInitMsg(i)
BY MessageSteps DEF MessageForms

\* A response was sent for one session id and one initiator.
LEMMA ResponseSays ==
  ASSUME MessageForms, NEW m \in wire, m.step = "response"
  PROVE  \E sid \in SessionIds, i \in Initiators : m = Response(sid, i)
BY MessageSteps DEF MessageForms

\* A confirm was sent by an initiator that had chosen; one that accepts, only
\* after it agreed.
LEMMA ConfirmSays ==
  ASSUME MessageForms, NEW m \in wire, m.step = "confirm"
  PROVE  \E i \in Initiators, accepted \in BOOLEAN :
           Chosen(i) /\ m = Confirm(i, accepted) /\ (accepted => i \in agreed)
BY MessageSteps DEF MessageForms

\* An accepted was sent for an established session.
LEMMA AcceptedSays ==
  ASSUME MessageForms, NEW m \in wire, m.step = "accepted"
  PROVE  \E e \in established : m = Accepted(e)
BY MessageSteps DEF MessageForms

\* Messages say the same as long as what they were made from does not change.
LEMMA SameMessages ==
  ASSUME UNCHANGED <<iCfg, rCfg>>
  PROVE  /\ \A i : FedInitMsg(i)' = FedInitMsg(i)
         /\ \A sid, i : Response(sid, i)' = Response(sid, i)
         /\ \A e : Accepted(e)' = Accepted(e)
BY DEF FedInitMsg, Response, FedResponseMsg, Accepted

\* Nor do a confirm and a session, as long as what was chosen does not change.
LEMMA SameSession ==
  ASSUME UNCHANGED <<iCfg, rCfg>>, NEW i, iSession'[i] = iSession[i], iKeys'[i] = iKeys[i]
  PROVE  /\ \A accepted : Confirm(i, accepted)' = Confirm(i, accepted)
         /\ SessionOf(i)' = SessionOf(i) /\ (Chosen(i)' <=> Chosen(i))
BY SameMessages DEF Confirm, SessionOf, Chosen

\* Two initiators never go on with the same session.
LEMMA SessionsApart ==
  ASSUME TypeOK, OneResponsePerCall, InitiatorChoosesOnce,
         NEW i \in Initiators, NEW j \in Initiators, Chosen(i), Chosen(j), iSession[i] = iSession[j]
  PROVE  i = j
<1>1. iSession[i] \in SessionIds
  BY DEF TypeOK, Chosen
<1>2. Response(iSession[i], i) \in wire /\ Response(iSession[i], j) \in wire
  BY DEF InitiatorChoosesOnce
<1> QED
  BY <1>1, <1>2 DEF OneResponsePerCall

-----------------------------------------------------------------------------
(* The invariant is kept by every step *)

\* A step that adds no response leaves what responders keep, and the numbers
\* of their calls, as they were.
LEMMA NoNewResponse ==
  ASSUME IInv, UNCHANGED <<iCfg, rCfg, verifying, inits, rState>>,
         NEW m, wire' = wire \/ wire' = wire \cup {m}, m.step # "response"
  PROVE  CallsApart' /\ OneResponsePerCall' /\ ResponderKeeps'
<1>1. \A sid, i : Response(sid, i)' \in wire' <=> Response(sid, i) \in wire
  BY SameMessages, MessageSteps
<1>2. CallsApart'
  BY SameMessages DEF IInv, CallsApart
<1>3. OneResponsePerCall'
  BY <1>1 DEF IInv, OneResponsePerCall
<1>4. ResponderKeeps'
  <2> SUFFICES ASSUME NEW r \in Responders, rState[r] # NoValue
               PROVE  /\ rState[r].sid \in SessionIds /\ rState[r].sid[1] = r
                      /\ \E i \in Initiators :
                           /\ rState[r].init = FedInitMsg(i)' /\ rState[r].peerDomain = iCfg[i].domain
                           /\ Response(rState[r].sid, i)' \in wire'
                           /\ rState[r].keys # NoValue =>
                                rState[r].keys = SessionKeys(rCfg[r].suite, i, rState[r].sid)
    BY SameMessages DEF ResponderKeeps
  <2> QED
    BY <1>1, SameMessages DEF IInv, ResponderKeeps
<1> QED
  BY <1>2, <1>3, <1>4

\* Every step of an initiator keeps the invariant.
LEMMA InitiatorStepKeeps ==
  ASSUME IInv, NEW i \in Initiators, InitiatorStep(i)
  PROVE  IInv'
<1> USE FederationAssumption DEF responderVars
<1>1. ASSUME NEW p \in {"init", "done", "erased"}, iPc[i] # "done", p = "init" => iPc[i] = "new",
             p = "done" => iPc[i] = "confirm" /\ SessionOf(i) \in established,
             iPc' = [iPc EXCEPT ![i] = p],
             wire' = wire \/ wire' = wire \cup {FedInitMsg(i)},
             UNCHANGED <<iCfg, rCfg, iSession, iKeys, agreed, verifying, inits, rState, established>>
      PROVE  IInv'
  <2>1. TypeOK'
    BY <1>1 DEF IInv, TypeOK
  <2>2. MessageForms'
    BY <1>1, SameMessages, SameSession DEF IInv, MessageForms
  <2>3. CallsApart' /\ OneResponsePerCall' /\ ResponderKeeps'
    BY <1>1, NoNewResponse, MessageSteps
  <2>4. \A j \in Initiators : Response(iSession[j], j)' \in wire' <=> Response(iSession[j], j) \in wire
    BY <1>1, SameMessages, MessageSteps
  <2>5. InitiatorChoosesOnce'
    BY <1>1, <2>4, SameSession DEF IInv, TypeOK, InitiatorChoosesOnce
  <2>6. CompletedTogether'
    BY <1>1, SameSession DEF IInv, TypeOK, CompletedTogether
  <2> QED
    BY <2>1, <2>2, <2>3, <2>5, <2>6 DEF IInv
<1>2. CASE InitiatorInit(i)
  BY <1>1, <1>2 DEF InitiatorInit
<1>3. CASE InitiatorErase(i)
  BY <1>1, <1>3 DEF InitiatorErase
<1>4. ASSUME NEW m \in wire, InitiatorOnAccepted(i, m) PROVE IInv'
  <2>1. PICK e \in established : e.sid = iSession[i]
    BY <1>4, AcceptedSays, MessageSteps DEF InitiatorOnAccepted, IInv
  <2>2. PICK j \in Initiators : Chosen(j) /\ e = SessionOf(j)
    BY <2>1 DEF IInv, TypeOK, CompletedTogether
  <2>3. j = i
    BY <1>4, <2>1, <2>2, SessionsApart DEF InitiatorOnAccepted, IInv, InitiatorChoosesOnce, SessionOf
  <2> QED
    BY <1>1, <1>4, <2>2, <2>3 DEF InitiatorOnAccepted
<1>5. ASSUME NEW m \in wire, NEW accepted \in BOOLEAN, InitiatorOnResponse(i, m, accepted) PROVE IInv'
  <2>1. PICK sid \in SessionIds, j \in Initiators : m = Response(sid, j)
    BY <1>5, ResponseSays DEF InitiatorOnResponse, IInv
  <2>2. /\ m.sid = sid /\ j = i /\ Response(sid, i) \in wire
        /\ rCfg[sid[1]].domain = iCfg[i].peer /\ rCfg[sid[1]].suite = iCfg[i].suite
    BY <1>5, <2>1, MessageSteps DEF InitiatorOnResponse
  <2>3. /\ iPc[i] = "init" /\ iPc' = [iPc EXCEPT ![i] = "confirm"]
        /\ iSession' = [iSession EXCEPT ![i] = sid]
        /\ iKeys' = [iKeys EXCEPT ![i] = SessionKeys(iCfg[i].suite, i, sid)]
        /\ agreed' = IF accepted THEN agreed \cup {i} ELSE agreed
        /\ UNCHANGED <<iCfg, rCfg, verifying, inits, rState, established>>
    BY <1>5, <2>2 DEF InitiatorOnResponse
  <2>4. ~Chosen(i) /\ sid # NoValue
    BY <2>3 DEF IInv, InitiatorChoosesOnce
  <2>5. TypeOK'
    <3>1. SessionKeys(iCfg[i].suite, i, sid) \in Keys
      BY DEF IInv, TypeOK, SessionKeys, Keys
    <3> QED
      BY <2>3, <3>1 DEF IInv, TypeOK
  <2>6. wire' = wire \cup {Confirm(i, accepted)'}
    BY <1>5, <2>1, <2>2, <2>3, SameMessages DEF InitiatorOnResponse, Confirm, IInv, TypeOK
  <2>7. iSession'[i] = sid /\ Chosen(i)' /\ iKeys'[i] = SessionKeys(iCfg[i].suite, i, sid)
    BY <2>3, <2>4 DEF Chosen, IInv, TypeOK
  <2>8. \A j2 \in Initiators : Chosen(j2) =>
          /\ iSession'[j2] = iSession[j2] /\ iKeys'[j2] = iKeys[j2] /\ iPc'[j2] = iPc[j2] /\ Chosen(j2)'
          /\ SessionOf(j2)' = SessionOf(j2) /\ \A acc : Confirm(j2, acc)' = Confirm(j2, acc)
    BY <2>3, <2>4, SameSession DEF IInv, TypeOK, Chosen
  <2>9. MessageForms'
    BY <2>3, <2>6, <2>7, <2>8, SameMessages DEF MessageForms, IInv
  <2>10. CallsApart' /\ OneResponsePerCall' /\ ResponderKeeps'
    <3>1. Confirm(i, accepted)'.step = "confirm"
      BY DEF Confirm
    <3> QED
      BY <2>3, <2>6, <3>1, NoNewResponse
  <2>11. InitiatorChoosesOnce'
    <3> SUFFICES ASSUME NEW j2 \in Initiators
                 PROVE  /\ iPc'[j2] \in {"new", "init"} => ~Chosen(j2)'
                        /\ iPc'[j2] \in {"confirm", "done"} => Chosen(j2)'
                        /\ Chosen(j2)' => /\ Response(iSession[j2], j2)' \in wire'
                                          /\ iKeys'[j2] = SessionKeys(iCfg'[j2].suite, j2, iSession'[j2])
                                          /\ rCfg'[iSession'[j2][1]].domain = iCfg'[j2].peer
      BY DEF InitiatorChoosesOnce
    <3>1. CASE j2 = i
      BY <2>2, <2>3, <2>6, <2>7, <3>1, SameMessages DEF IInv, TypeOK
    <3>2. CASE j2 # i
      BY <2>3, <2>6, <3>2, SameMessages, SameSession DEF IInv, TypeOK, InitiatorChoosesOnce
    <3> QED
      BY <3>1, <3>2
  <2>12. CompletedTogether'
    BY <2>3, <2>8 DEF IInv, TypeOK, CompletedTogether, InitiatorChoosesOnce
  <2> QED
    BY <2>5, <2>9, <2>10, <2>11, <2>12 DEF IInv
<1> QED
  BY <1>2, <1>3, <1>4, <1>5 DEF InitiatorStep

\* Every step of a responder keeps the invariant.
LEMMA ResponderStepKeeps ==
  ASSUME IInv, NEW r \in Responders, ResponderStep(r)
  PROVE  IInv'
<1> USE FederationAssumption DEF initiatorVars
<1>1. ASSUME UNCHANGED <<iCfg, rCfg, iPc, iSession, iKeys, agreed>>, 
             inits' \in [Responders -> 0..MaxInits],
             verifying' \in [Responders -> SUBSET [call : 1..MaxInits, init : Inits]],
             rState' \in [Responders -> ResponderStates \cup {NoValue}],
             established \subseteq established', wire \subseteq wire'
      PROVE  TypeOK' /\ InitiatorChoosesOnce'
             /\ \A i \in Initiators : iPc'[i] = "done" => SessionOf(i)' \in established'
  <2>1. TypeOK'
    BY <1>1 DEF IInv, TypeOK
  <2>2. \A i \in Initiators : Response(iSession[i], i)' = Response(iSession[i], i)
                              /\ (Chosen(i)' <=> Chosen(i)) /\ SessionOf(i)' = SessionOf(i)
    BY <1>1, SameMessages, SameSession
  <2>3. InitiatorChoosesOnce'
    BY <1>1, <2>2 DEF IInv, InitiatorChoosesOnce
  <2> QED
    BY <1>1, <2>1, <2>2, <2>3 DEF IInv, CompletedTogether
<1>2. ASSUME UNCHANGED <<iCfg, rCfg, iPc, iSession, iKeys, agreed>>, UNCHANGED <<wire, established>>
      PROVE  MessageForms' /\ \A e \in established' : \E i \in agreed' : Chosen(i)' /\ e = SessionOf(i)'
  <2>1. MessageForms'
    BY <1>2, SameMessages, SameSession DEF IInv, MessageForms
  <2>2. \A e \in established' : \E i \in agreed' : Chosen(i)' /\ e = SessionOf(i)'
    BY <1>2, SameSession DEF IInv, CompletedTogether
  <2> QED
    BY <2>1, <2>2
<1>3. CASE ResponderErase(r)
  <2>1. /\ UNCHANGED <<iCfg, rCfg, wire, verifying, inits, established, iPc, iSession, iKeys, agreed>>
        /\ rState[r] # NoValue /\ rState' = [rState EXCEPT ![r].keys = NoValue]
    BY <1>3 DEF ResponderErase
  <2>2. CallsApart' /\ OneResponsePerCall'
    BY <2>1, SameMessages DEF IInv, CallsApart, OneResponsePerCall
  <2>3. \A q \in Responders :
          \/ rState'[q] = rState[q]
          \/ /\ rState[q] # NoValue /\ rState[q] \in ResponderStates
             /\ rState'[q] = [rState[q] EXCEPT !.keys = NoValue] /\ rState'[q] \in ResponderStates
             /\ rState'[q].sid = rState[q].sid /\ rState'[q].init = rState[q].init
             /\ rState'[q].peerDomain = rState[q].peerDomain /\ rState'[q].keys = NoValue
    BY <2>1 DEF IInv, TypeOK, ResponderStates
  <2>4. ResponderKeeps'
    BY <2>1, <2>3, SameMessages DEF IInv, ResponderKeeps
  <2>5. rState' \in [Responders -> ResponderStates \cup {NoValue}]
    BY <2>1, <2>3 DEF IInv, TypeOK
  <2> QED
    BY <1>1, <1>2, <2>1, <2>2, <2>4, <2>5 DEF IInv, TypeOK, CompletedTogether
<1>4. ASSUME NEW v \in verifying[r], OnInitThrows(r, v) PROVE IInv'
  <2>1. /\ UNCHANGED <<iCfg, rCfg, wire, inits, rState, established, iPc, iSession, iKeys, agreed>>
        /\ \A q \in Responders : verifying'[q] \subseteq verifying[q]
        /\ verifying' \in [Responders -> SUBSET [call : 1..MaxInits, init : Inits]]
    BY <1>4 DEF OnInitThrows, IInv, TypeOK
  <2>2. CallsApart' /\ OneResponsePerCall' /\ ResponderKeeps'
    <3>1. CallsApart'
      BY <2>1, SameMessages DEF IInv, CallsApart
    <3>2. OneResponsePerCall'
      <4>1. \A sid \in SessionIds : sid[1] \in Responders
        BY DEF SessionIds
      <4> QED
        BY <2>1, <4>1, SameMessages DEF IInv, OneResponsePerCall
    <3>3. ResponderKeeps'
      BY <2>1, SameMessages DEF IInv, ResponderKeeps
    <3> QED
      BY <3>1, <3>2, <3>3
  <2> QED
    BY <1>1, <1>2, <2>1, <2>2 DEF IInv, TypeOK, CompletedTogether
<1>5. ASSUME NEW m \in wire, OnInitBegin(r, m) PROVE IInv'
  <2>1. PICK i \in Initiators : m = FedInitMsg(i)
    BY <1>5, InitSays DEF OnInitBegin, IInv
  <2>2. /\ inits[r] < MaxInits /\ inits' = [inits EXCEPT ![r] = inits[r] + 1]
        /\ UNCHANGED <<iCfg, rCfg, wire, rState, established, iPc, iSession, iKeys, agreed>>
    BY <1>5 DEF OnInitBegin
  <2>3. inits[r] \in Nat /\ inits' \in [Responders -> 0..MaxInits]
        /\ \A q \in Responders : inits[q] \in Nat /\ inits'[q] = IF q = r THEN inits[q] + 1 ELSE inits[q]
    BY <2>2 DEF IInv, TypeOK
  <2>4. \A q \in Responders : \A v \in verifying'[q] :
          v \in verifying[q] \/ (q = r /\ v = [call |-> inits[r] + 1, init |-> m])
    <3>1. verifying' = [verifying EXCEPT ![r] = verifying[r] \cup {[call |-> inits[r] + 1, init |-> m]}]
      BY <1>5 DEF OnInitBegin
    <3> QED
      BY <3>1 DEF IInv, TypeOK
  <2>5. CallsApart'
    <3> SUFFICES ASSUME NEW q \in Responders
                 PROVE  /\ \A v \in verifying'[q] : v.call \in 1..inits'[q]
                                                  /\ \E j \in Initiators : v.init = FedInitMsg(j)'
                        /\ \A v1, v2 \in verifying'[q] : v1.call = v2.call => v1 = v2
      BY DEF CallsApart
    <3>1. \A v \in verifying[q] : v.call \in 1..inits[q] /\ v.call # inits[q] + 1
                                  /\ \E j \in Initiators : v.init = FedInitMsg(j)
      BY <2>3 DEF IInv, CallsApart
    <3>2. \A v \in verifying'[q] : v.call \in 1..inits'[q]
                                   /\ \E j \in Initiators : v.init = FedInitMsg(j)'
      BY <2>1, <2>2, <2>3, <2>4, <3>1, SameMessages
    <3>3. \A v1, v2 \in verifying'[q] : v1.call = v2.call => v1 = v2
      BY <2>4, <3>1 DEF IInv, CallsApart
    <3> QED
      BY <3>2, <3>3
  <2>6. OneResponsePerCall'
    <3>1. \A sid \in SessionIds : \A j \in Initiators : Response(sid, j) \in wire =>
            sid[2] <= inits'[sid[1]] /\ \A v \in verifying'[sid[1]] : v.call # sid[2]
      <4> SUFFICES ASSUME NEW sid \in SessionIds, NEW j \in Initiators, Response(sid, j) \in wire
                   PROVE  sid[2] <= inits'[sid[1]] /\ \A v \in verifying'[sid[1]] : v.call # sid[2]
        OBVIOUS
      <4>1. sid[1] \in Responders /\ sid[2] \in Nat
        BY DEF SessionIds
      <4>2. sid[2] <= inits[sid[1]] /\ \A v \in verifying[sid[1]] : v.call # sid[2]
        BY DEF IInv, OneResponsePerCall
      <4> QED
        BY <2>3, <2>4, <4>1, <4>2
    <3> QED
      BY <2>2, <3>1, SameMessages DEF IInv, OneResponsePerCall
  <2>7. ResponderKeeps'
    BY <2>2, SameMessages DEF IInv, ResponderKeeps
  <2>8. verifying' \in [Responders -> SUBSET [call : 1..MaxInits, init : Inits]]
    <3>1. m \in Inits /\ inits[r] + 1 \in 1..MaxInits
      BY <2>1, <2>2, <2>3 DEF FedInitMsg, Inits, IInv, TypeOK
    <3> QED
      BY <1>5, <3>1 DEF OnInitBegin, IInv, TypeOK
  <2> QED
    BY <1>1, <1>2, <2>2, <2>3, <2>5, <2>6, <2>7, <2>8 DEF IInv, TypeOK, CompletedTogether
<1>6. ASSUME NEW v \in verifying[r], OnInitVerified(r, v) PROVE IInv'
  <2> DEFINE sid == <<r, v.call>>
  <2>1. PICK i \in Initiators : v.init = FedInitMsg(i)
    BY DEF IInv, CallsApart
  <2>2. /\ v.init.initiator = i /\ v.init.suite = iCfg[i].suite /\ v.init.signer = iCfg[i].domain
        /\ rCfg[r].suite = iCfg[i].suite
    BY <1>6, <2>1 DEF OnInitVerified, FedInitMsg
  <2>3. /\ wire' = wire \cup {Response(sid, i)}
        /\ rState' = [rState EXCEPT ![r] =
             [sid |-> sid, init |-> FedInitMsg(i), peerDomain |-> iCfg[i].domain,
              keys |-> SessionKeys(rCfg[r].suite, i, sid)]]
        /\ verifying' = [verifying EXCEPT ![r] = verifying[r] \ {v}]
        /\ UNCHANGED <<iCfg, rCfg, inits, established, iPc, iSession, iKeys, agreed>>
    BY <1>6, <2>1, <2>2 DEF OnInitVerified, Response
  <2>4. v.call \in 1..inits[r] /\ sid \in SessionIds /\ sid[1] = r /\ sid[2] = v.call
    BY DEF IInv, CallsApart, TypeOK, SessionIds
  <2>5. \A q \in Responders : \A w \in verifying'[q] : w \in verifying[q] /\ (q = r => w.call # v.call)
    BY <2>3 DEF IInv, TypeOK, CallsApart
  <2>6. \A j \in Initiators : Response(sid, j) \notin wire
    BY <2>4 DEF IInv, OneResponsePerCall
  <2>7. MessageForms'
    BY <2>3, <2>4, SameMessages, SameSession DEF IInv, MessageForms
  <2>8. CallsApart'
    BY <2>3, <2>5, SameMessages DEF IInv, CallsApart
  <2>9. OneResponsePerCall'
    <3> SUFFICES ASSUME NEW t \in SessionIds, NEW j \in Initiators, Response(t, j)' \in wire'
                 PROVE  /\ t[2] <= inits'[t[1]] /\ \A w \in verifying'[t[1]] : w.call # t[2]
                        /\ iCfg'[j].suite = rCfg'[t[1]].suite
                        /\ \A k \in Initiators : Response(t, k)' \in wire' => k = j
      BY DEF OneResponsePerCall
    <3>1. Response(t, j) \in wire'
      BY <2>3, SameMessages
    <3>2. CASE t = sid
      <4>1. \A k \in Initiators : Response(sid, k) \in wire' => k = i
        BY <2>3, <2>6, MessageSteps
      <4>2. j = i /\ \A k \in Initiators : Response(t, k)' \in wire' => k = j
        BY <2>3, <3>1, <3>2, <4>1, SameMessages
      <4>3. t[2] <= inits[t[1]] /\ \A w \in verifying'[t[1]] : w.call # t[2]
        BY <2>4, <2>5, <3>2 DEF IInv, TypeOK
      <4> QED
        BY <2>2, <2>3, <2>4, <3>2, <4>2, <4>3
    <3>3. CASE t # sid
      <4>1. \A k \in Initiators : Response(t, k)' \in wire' => Response(t, k) \in wire
        BY <2>3, <3>3, SameMessages, MessageSteps
      <4>2. t[1] \in Responders
        BY DEF SessionIds
      <4> QED
        BY <2>3, <2>5, <4>1, <4>2 DEF IInv, OneResponsePerCall
    <3> QED
      BY <3>2, <3>3
  <2>10. ResponderKeeps'
    <3> SUFFICES ASSUME NEW q \in Responders, rState'[q] # NoValue
                 PROVE  /\ rState'[q].sid \in SessionIds /\ rState'[q].sid[1] = q
                        /\ \E j \in Initiators :
                             /\ rState'[q].init = FedInitMsg(j)' /\ rState'[q].peerDomain = iCfg'[j].domain
                             /\ Response(rState[q].sid, j)' \in wire'
                             /\ rState'[q].keys # NoValue =>
                                  rState'[q].keys = SessionKeys(rCfg'[q].suite, j, rState'[q].sid)
      BY DEF ResponderKeeps
    <3>1. CASE q = r /\ rState'[q] = [sid |-> sid, init |-> FedInitMsg(i), peerDomain |-> iCfg[i].domain,
                                      keys |-> SessionKeys(rCfg[r].suite, i, sid)]
      <4>1. /\ rState'[q].sid = sid /\ rState'[q].init = FedInitMsg(i)
            /\ rState'[q].peerDomain = iCfg[i].domain
            /\ rState'[q].keys = SessionKeys(rCfg[r].suite, i, sid)
        BY <3>1
      <4>2. Response(rState[q].sid, i)' = Response(rState'[q].sid, i)
        BY <2>3 DEF Response, FedResponseMsg
      <4>3. Response(rState[q].sid, i)' \in wire'
        BY <2>3, <4>1, <4>2
      <4> QED
        BY <2>3, <2>4, <3>1, <4>1, <4>3, SameMessages
    <3>2. CASE rState'[q] = rState[q]
      BY <2>3, <3>2, SameMessages DEF IInv, ResponderKeeps
    <3> QED
      BY <2>3, <3>1, <3>2 DEF IInv, TypeOK
  <2>11. \A e \in established' : \E j \in agreed' : Chosen(j)' /\ e = SessionOf(j)'
    BY <2>3, SameSession DEF IInv, CompletedTogether
  <2>12. verifying' \in [Responders -> SUBSET [call : 1..MaxInits, init : Inits]]
    BY <2>3 DEF IInv, TypeOK
  <2>13. rState' \in [Responders -> ResponderStates \cup {NoValue}]
    <3>1. FedInitMsg(i) \in Inits /\ iCfg[i].domain \in ServerDomains
          /\ SessionKeys(rCfg[r].suite, i, sid) \in Keys
      BY <2>4 DEF FedInitMsg, Inits, SessionKeys, Keys, IInv, TypeOK
    <3>2. [sid |-> sid, init |-> FedInitMsg(i), peerDomain |-> iCfg[i].domain,
           keys |-> SessionKeys(rCfg[r].suite, i, sid)] \in ResponderStates
      BY <2>4, <3>1 DEF ResponderStates
    <3> QED
      BY <2>3, <3>2 DEF IInv, TypeOK
  <2> QED
    BY <1>1, <2>3, <2>7, <2>8, <2>9, <2>10, <2>11, <2>12, <2>13 DEF IInv, TypeOK, CompletedTogether
<1>7. ASSUME NEW m \in wire, ResponderOnConfirm(r, m) PROVE IInv'
  <2>1. PICK i \in Initiators, accepted \in BOOLEAN :
          Chosen(i) /\ m = Confirm(i, accepted) /\ (accepted => i \in agreed)
    BY <1>7, ConfirmSays DEF ResponderOnConfirm, IInv
  <2>2. i \in agreed /\ iSession[i] = rState[r].sid
    BY <1>7, <2>1, MessageSteps DEF ResponderOnConfirm
  <2>3. PICK j \in Initiators :
          /\ rState[r].init = FedInitMsg(j) /\ rState[r].peerDomain = iCfg[j].domain
          /\ rState[r].keys = SessionKeys(rCfg[r].suite, j, rState[r].sid)
    BY <1>7 DEF ResponderOnConfirm, IInv, ResponderKeeps
  <2>4. FedInitMsg(i) = FedInitMsg(j)
    BY <1>7, <2>1, <2>3, MessageSteps DEF ResponderOnConfirm, FedWantHash, ConfirmationHash
  <2>5. j = i
    BY <2>4, MessageSteps
  <2>6. rState[r].sid \in SessionIds /\ rState[r].sid[1] = r
    BY <1>7 DEF ResponderOnConfirm, IInv, ResponderKeeps
  <2>7. iCfg[i].suite = rCfg[r].suite /\ iKeys[i] = SessionKeys(iCfg[i].suite, i, iSession[i])
    BY <2>1, <2>2, <2>6 DEF IInv, InitiatorChoosesOnce, OneResponsePerCall
  <2>8. m.sid = rState[r].sid
    BY <1>7 DEF ResponderOnConfirm
  <2>9. /\ established' = established \cup {SessionOf(i)}
        /\ wire' = wire \cup {Accepted(SessionOf(i))}
        /\ UNCHANGED <<iCfg, rCfg, verifying, inits, rState, iPc, iSession, iKeys, agreed>>
    BY <1>7, <2>2, <2>3, <2>5, <2>6, <2>7, <2>8 DEF ResponderOnConfirm, SessionOf, Accepted
  <2>10. MessageForms'
    BY <2>9, SameMessages, SameSession DEF IInv, MessageForms
  <2>11. CallsApart' /\ OneResponsePerCall' /\ ResponderKeeps'
    BY <2>9, NoNewResponse, MessageSteps
  <2>12. \A e \in established' : \E k \in agreed' : Chosen(k)' /\ e = SessionOf(k)'
    BY <2>1, <2>2, <2>9, SameSession DEF IInv, CompletedTogether
  <2> QED
    BY <1>1, <2>9, <2>10, <2>11, <2>12 DEF IInv, TypeOK, CompletedTogether
<1> QED
  BY <1>3, <1>4, <1>5, <1>6, <1>7 DEF ResponderStep

\* FederationInitiator and FederationResponder: both ends of a session agree
\* on it, also when any number of onInit calls on a responder overlap between
\* the look at its state and the assignment after the await.
THEOREM FederationAgreement == FederationSpec => []PeersAgree
<1>1. FederationInit => IInv
  BY FederationAssumption
     DEF FederationInit, IInv, TypeOK, MessageForms, CallsApart, OneResponsePerCall, ResponderKeeps,
         InitiatorChoosesOnce, CompletedTogether, Chosen
<1>2. IInv /\ [FederationNext]_federationVars => IInv'
  <2>1. ASSUME IInv, UNCHANGED federationVars PROVE IInv'
    <3>1. CallsApart' /\ OneResponsePerCall' /\ ResponderKeeps'
      BY <2>1, SameMessages DEF federationVars, IInv, CallsApart, OneResponsePerCall, ResponderKeeps
    <3>2. TypeOK' /\ MessageForms' /\ InitiatorChoosesOnce' /\ CompletedTogether'
      BY <2>1, SameMessages, SameSession
         DEF federationVars, IInv, TypeOK, MessageForms, InitiatorChoosesOnce, CompletedTogether
    <3> QED
      BY <3>1, <3>2 DEF IInv
  <2> QED
    BY <2>1, InitiatorStepKeeps, ResponderStepKeeps DEF FederationNext
<1>3. IInv => PeersAgree
  <2> SUFFICES ASSUME IInv PROVE PeersAgree
    OBVIOUS
  <2>1. \A i \in Initiators : iPc[i] = "done" =>
          SessionOf(i) \in established /\ rCfg[iSession[i][1]].domain = iCfg[i].peer
    BY DEF IInv, CompletedTogether, InitiatorChoosesOnce
  <2>2. ASSUME NEW e \in established
        PROVE  \E i \in agreed : /\ iKeys[i] = e.keys /\ iSession[i] = e.sid
                                 /\ iCfg[i].domain = e.peerDomain /\ iCfg[i].peer = rCfg[e.sid[1]].domain
    BY <2>2 DEF IInv, TypeOK, CompletedTogether, InitiatorChoosesOnce, SessionOf
  <2> QED
    BY <2>1, <2>2 DEF PeersAgree, SessionOf
<1> QED
  BY <1>1, <1>2, <1>3, PTL DEF FederationSpec
=============================================================================
