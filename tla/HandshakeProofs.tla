-------------------------- MODULE HandshakeProofs --------------------------
(***************************************************************************)
(* Agreement of the client-to-server handshake, for any number of client   *)
(* and server instances, configurations, suites and identities.            *)
(***************************************************************************)
EXTENDS Handshake, TLAPS

TypeOK ==
  /\ clientCfg \in [Clients -> ClientConfigs]
  /\ serverCfg \in [Servers -> ServerConfigs]
  /\ cPc \in [Clients -> {"new", "init", "confirm", "done", "rejected", "erased"}]
  /\ cSession \in [Clients -> Servers \cup {None}]
  /\ derived \in [Clients -> Keys \cup {None}]
  /\ sPc \in [Servers -> {"new", "responded", "spent", "done", "discarded"}]
  /\ sPeer \in [Servers -> Clients \cup {None}]
  /\ sSuite \in [Servers -> Suites \cup {None}]
  /\ sKeys \in [Servers -> Keys \cup {None}]
  /\ sIdentity \in [Servers -> Identities \cup {None}]

ResponseOf(s) == ResponseMsg(s, sPeer[s], sSuite[s])
ConfirmOf(c) ==
  LET resp == ResponseMsg(cSession[c], c, clientCfg[c].suite)
  IN  [step |-> "confirm", sid |-> cSession[c], hash |-> ConfirmationHash(InitMsg(c), resp),
       proof |-> IdentityProof(c, resp, derived[c])]

\* Every message sent was made by one instance from its own state, and still
\* says what that state says.
MessageForms ==
  \A m \in net :
    \/ \E c \in Clients : m = InitMsg(c)
    \/ \E s \in Servers : sPeer[s] # None /\ m = ResponseOf(s)
    \/ \E c \in Clients : cSession[c] # None /\ m = ConfirmOf(c)
    \/ \E s \in Servers : sPc[s] = "done" /\ m = AcceptedMsg(s)
    \/ \E s \in Servers : m = RejectedMsg(s)

\* A server answers one init, and its suite and keys follow from it.
ServerAnswersOnce ==
  \A s \in Servers :
    /\ sPc[s] = "new" => sPeer[s] = None
    /\ sPc[s] \in {"responded", "done"} => sPeer[s] # None
    /\ sPeer[s] # None => /\ sSuite[s] = clientCfg[sPeer[s]].suite
                          /\ sKeys[s] = SessionKeys(sSuite[s], sPeer[s], s)

\* A client goes on with one server: the one that answered it.
ClientChoosesOnce ==
  \A c \in Clients :
    /\ cPc[c] \in {"new", "init"} => cSession[c] = None
    /\ cPc[c] \in {"confirm", "done"} => cSession[c] # None
    /\ cSession[c] # None => /\ sPeer[cSession[c]] = c
                             /\ derived[c] = SessionKeys(clientCfg[c].suite, c, cSession[c])
                             /\ serverCfg[cSession[c]].domain = clientCfg[c].pinned

\* A server that completed did so on the confirm of the client it answered,
\* and a client that completed did so after its server.
CompletedTogether ==
  /\ \A s \in Servers : sPc[s] = "done" =>
       LET c == sPeer[s] IN
       /\ cSession[c] = s
       /\ sIdentity[s] = IF clientCfg[c].identity = NoIdentity THEN None ELSE clientCfg[c].identity
       /\ clientCfg[c].identity # NoIdentity /\ serverCfg[s].lookup =>
            Registered[clientCfg[c].identity] = clientCfg[c].key
  /\ \A c \in Clients : cPc[c] = "done" => sPc[cSession[c]] = "done"

IInv == TypeOK /\ MessageForms /\ ServerAnswersOnce /\ ClientChoosesOnce /\ CompletedTogether

-----------------------------------------------------------------------------

\* The five kinds of message are told apart by their step.
LEMMA MessageSteps ==
  /\ \A c \in Clients : InitMsg(c).step = "init" /\ ConfirmOf(c).step = "confirm"
  /\ \A s \in Servers : /\ ResponseOf(s).step = "response"
                        /\ AcceptedMsg(s).step = "accepted"
                        /\ RejectedMsg(s).step = "rejected"
BY DEF InitMsg, ResponseOf, ResponseMsg, ConfirmOf, AcceptedMsg, RejectedMsg

\* What a message of each step says about the instance that sent it.
LEMMA InitSays ==
  ASSUME MessageForms, NEW m \in net, m.step = "init"
  PROVE  \E c \in Clients : m = InitMsg(c)
BY MessageSteps DEF MessageForms

\* A response was sent by a server that had answered an init, and is its answer.
LEMMA ResponseSays ==
  ASSUME MessageForms, NEW m \in net, m.step = "response"
  PROVE  \E s \in Servers : sPeer[s] # None /\ m = ResponseOf(s)
BY MessageSteps DEF MessageForms

\* A confirm was sent by a client that had chosen a server.
LEMMA ConfirmSays ==
  ASSUME MessageForms, NEW m \in net, m.step = "confirm"
  PROVE  \E c \in Clients : cSession[c] # None /\ m = ConfirmOf(c)
BY MessageSteps DEF MessageForms

\* An accepted was sent by a server that was done.
LEMMA AcceptedSays ==
  ASSUME MessageForms, NEW m \in net, m.step = "accepted"
  PROVE  \E s \in Servers : sPc[s] = "done" /\ m = AcceptedMsg(s)
BY MessageSteps DEF MessageForms

\* A client with an identity sends a proof, and the proof is not None.
LEMMA ProofIsSent ==
  ASSUME TypeOK, ClientChoosesOnce, NEW c \in Clients, cSession[c] # None,
         clientCfg[c].identity # NoIdentity
  PROVE  ConfirmOf(c).proof # None
<1> DEFINE resp == ResponseMsg(cSession[c], c, clientCfg[c].suite)
<1>1. /\ cSession[c] \in Servers /\ clientCfg[c].suite \in Suites /\ clientCfg[c].offers \in SUBSET Suites
      /\ clientCfg[c].identity \in Identities /\ clientCfg[c].key \in LongTermKeys
      /\ serverCfg[cSession[c]].domain \in Domains
  BY HandshakeAssumption DEF TypeOK
<1>2. derived[c] \in Keys
  <2>1. derived[c] = SessionKeys(clientCfg[c].suite, c, cSession[c])
    BY DEF ClientChoosesOnce
  <2> QED
    BY <1>1, <2>1 DEF SessionKeys, Keys
<1>3. ConfirmationHash(InitMsg(c), resp) \in Hashes
  BY <1>1 DEF ConfirmationHash, InitMsg, ResponseMsg, Hashes
<1>4. <<resp.sid, ConfirmationHash(InitMsg(c), resp)>> \in Servers \X Hashes /\ resp.sid \in Servers
  BY <1>1, <1>3 DEF ResponseMsg
<1>5. ConfirmOf(c).proof = IdentityProof(c, resp, derived[c])
  BY DEF ConfirmOf
<1>6. IdentityProof(c, resp, derived[c]) \in IdentityProofs
  BY <1>1, <1>2, <1>4 DEF IdentityProof, IdentityProofs
<1> QED
  BY <1>5, <1>6, HandshakeAssumption

-----------------------------------------------------------------------------
(* The invariant is kept by every step *)

\* Every step of a client keeps the invariant.
LEMMA ClientStepKeeps ==
  ASSUME IInv, NEW c \in Clients, ClientStep(c)
  PROVE  IInv'
<1> USE HandshakeAssumption
<1> USE DEF IInv, TypeOK, serverVars
<1>1. CASE ClientInit(c)
  <2>1. MessageForms'
    BY <1>1 DEF ClientInit, MessageForms, InitMsg, ResponseOf, ResponseMsg, ConfirmOf, AcceptedMsg, RejectedMsg,
                ConfirmationHash, IdentityProof
  <2> QED
    BY <1>1, <2>1 DEF ClientInit, ServerAnswersOnce, ClientChoosesOnce, CompletedTogether
<1>2. CASE ClientErase(c)
  <2>1. MessageForms'
    BY <1>2 DEF ClientErase, MessageForms, InitMsg, ResponseOf, ResponseMsg, ConfirmOf, AcceptedMsg, RejectedMsg,
                ConfirmationHash, IdentityProof
  <2> QED
    BY <1>2, <2>1 DEF ClientErase, ServerAnswersOnce, ClientChoosesOnce, CompletedTogether
<1>3. ASSUME NEW m \in net, OnRejected(c, m) PROVE IInv'
  <2>1. MessageForms'
    BY <1>3 DEF OnRejected, MessageForms, InitMsg, ResponseOf, ResponseMsg, ConfirmOf, AcceptedMsg, RejectedMsg,
                ConfirmationHash, IdentityProof
  <2> QED
    BY <1>3, <2>1 DEF OnRejected, ServerAnswersOnce, ClientChoosesOnce, CompletedTogether
<1>4. ASSUME NEW m \in net, OnAccepted(c, m) PROVE IInv'
  <2>1. MessageForms'
    BY <1>4 DEF OnAccepted, MessageForms, InitMsg, ResponseOf, ResponseMsg, ConfirmOf, AcceptedMsg, RejectedMsg,
                ConfirmationHash, IdentityProof
  <2>2. sPc[cSession[c]] = "done"
    BY <1>4, AcceptedSays DEF OnAccepted, AcceptedMsg
  <2> QED
    BY <1>4, <2>1, <2>2 DEF OnAccepted, ServerAnswersOnce, ClientChoosesOnce, CompletedTogether
<1>5. ASSUME NEW m \in net, OnResponse(c, m) PROVE IInv'
  <2>1. PICK s \in Servers : sPeer[s] # None /\ m = ResponseOf(s)
    BY <1>5, ResponseSays DEF OnResponse
  <2>2. /\ m.sid = s /\ sPeer[s] = c /\ sSuite[s] = clientCfg[c].suite
        /\ serverCfg[s].domain = clientCfg[c].pinned
    BY <1>5, <2>1 DEF OnResponse, ResponseOf, ResponseMsg
  <2>3. m = ResponseMsg(s, c, clientCfg[c].suite)
    BY <2>1, <2>2 DEF ResponseOf
  <2>4. /\ cSession' = [cSession EXCEPT ![c] = s]
        /\ derived' = [derived EXCEPT ![c] = SessionKeys(clientCfg[c].suite, c, s)]
        /\ cPc' = [cPc EXCEPT ![c] = "confirm"] /\ cPc[c] = "init"
        /\ UNCHANGED <<clientCfg, serverCfg, sPc, sPeer, sSuite, sKeys, sIdentity>>
    BY <1>5, <2>2 DEF OnResponse
  <2>5. TypeOK'
    BY <2>4 DEF SessionKeys, Keys
  <2>6. net' = net \cup {ConfirmOf(c)'}
    BY <1>5, <2>2, <2>3, <2>4 DEF OnResponse, ConfirmOf, InitMsg, ResponseMsg, ConfirmationHash, IdentityProof
  <2>7. \A d \in Clients : cSession[d] # None => cSession'[d] # None /\ ConfirmOf(d)' = ConfirmOf(d)
    <3> SUFFICES ASSUME NEW d \in Clients, cSession[d] # None
                 PROVE  cSession'[d] # None /\ ConfirmOf(d)' = ConfirmOf(d)
      OBVIOUS
    <3>1. cSession'[d] = cSession[d] /\ derived'[d] = derived[d]
      BY <2>4 DEF ClientChoosesOnce
    <3> QED
      BY <2>4, <3>1 DEF ConfirmOf, InitMsg, ResponseMsg, ConfirmationHash, IdentityProof
  <2>8. MessageForms'
    BY <2>2, <2>4, <2>6, <2>7 DEF MessageForms, InitMsg, ResponseOf, ResponseMsg, AcceptedMsg, RejectedMsg
  <2>9. ServerAnswersOnce'
    BY <2>4 DEF ServerAnswersOnce
  <2>10. ClientChoosesOnce'
    BY <2>2, <2>4 DEF ClientChoosesOnce
  <2>11. CompletedTogether'
    BY <2>4 DEF ClientChoosesOnce, ServerAnswersOnce, CompletedTogether
  <2> QED
    BY <2>5, <2>8, <2>9, <2>10, <2>11
<1> QED
  BY <1>1, <1>2, <1>3, <1>4, <1>5 DEF ClientStep

\* Every step of a server keeps the invariant.
LEMMA ServerStepKeeps ==
  ASSUME IInv, NEW s \in Servers, ServerStep(s)
  PROVE  IInv'
<1> USE HandshakeAssumption
<1> USE DEF IInv, TypeOK, clientVars
<1>1. ASSUME NEW p \in {"discarded", "spent"},
             sPc[s] \in {"new", "responded"}, sPc' = [sPc EXCEPT ![s] = p],
             net' = net \/ net' = net \cup {RejectedMsg(s)},
             UNCHANGED <<clientCfg, serverCfg, sPeer, sSuite, sKeys, sIdentity, clientVars>>
      PROVE  IInv'
  <2>1. MessageForms'
    BY <1>1 DEF MessageForms, InitMsg, ResponseOf, ResponseMsg, ConfirmOf, AcceptedMsg, RejectedMsg,
                ConfirmationHash, IdentityProof
  <2>2. TypeOK' /\ ServerAnswersOnce' /\ ClientChoosesOnce'
    BY <1>1 DEF ServerAnswersOnce, ClientChoosesOnce
  <2>3. CompletedTogether'
    BY <1>1 DEF ClientChoosesOnce, CompletedTogether
  <2> QED
    BY <2>1, <2>2, <2>3
<1>2. CASE ServerErase(s)
  BY <1>1, <1>2 DEF ServerErase
<1>3. ASSUME NEW m \in net, OnInitNoCommonSuite(s, m) \/ OnInitWrongKey(s, m) \/ OnConfirmRejects(s, m)
      PROVE  IInv'
  BY <1>1, <1>3 DEF OnInitNoCommonSuite, OnInitWrongKey, OnConfirmRejects, Reject
<1>4. ASSUME NEW m \in net, OnInit(s, m) PROVE IInv'
  <2>1. PICK c \in Clients : m = InitMsg(c)
    BY <1>4, InitSays DEF OnInit
  <2>2. m.client = c /\ m.suite = clientCfg[c].suite
    BY <2>1 DEF InitMsg
  <2>3. /\ sPc[s] = "new" /\ sPc' = [sPc EXCEPT ![s] = "responded"]
        /\ sPeer' = [sPeer EXCEPT ![s] = c]
        /\ sSuite' = [sSuite EXCEPT ![s] = clientCfg[c].suite]
        /\ sKeys' = [sKeys EXCEPT ![s] = SessionKeys(clientCfg[c].suite, c, s)]
        /\ net' = net \cup {ResponseMsg(s, c, clientCfg[c].suite)}
        /\ UNCHANGED <<clientCfg, serverCfg, sIdentity, cPc, cSession, derived>>
    BY <1>4, <2>2 DEF OnInit
  <2>4. clientCfg[c].suite \in Suites
    OBVIOUS
  <2>5. TypeOK'
    BY <2>3, <2>4 DEF SessionKeys, Keys
  <2>6. sPeer[s] = None /\ \A d \in Clients : cSession[d] # s
    <3>1. sPeer[s] = None
      BY <2>3 DEF ServerAnswersOnce
    <3>2. ASSUME NEW d \in Clients, cSession[d] = s PROVE FALSE
      <4>1. sPeer[cSession[d]] = d
        BY <3>2 DEF ClientChoosesOnce
      <4> QED
        BY <3>1, <3>2, <4>1
    <3> QED
      BY <3>1, <3>2
  <2>7. ResponseOf(s)' = ResponseMsg(s, c, clientCfg[c].suite)
        /\ \A t \in Servers \ {s} : ResponseOf(t)' = ResponseOf(t)
    BY <2>3 DEF ResponseOf, ResponseMsg
  <2>8. MessageForms'
    BY <2>3, <2>6, <2>7 DEF MessageForms, InitMsg, ResponseMsg, ConfirmOf, AcceptedMsg, RejectedMsg,
                            ConfirmationHash, IdentityProof
  <2>9. ServerAnswersOnce'
    BY <2>3 DEF ServerAnswersOnce
  <2>10. ClientChoosesOnce'
    BY <2>3, <2>6 DEF ClientChoosesOnce
  <2>11. CompletedTogether'
    BY <2>3, <2>6 DEF CompletedTogether, ClientChoosesOnce
  <2> QED
    BY <2>5, <2>8, <2>9, <2>10, <2>11
<1>5. ASSUME NEW m \in net, OnConfirm(s, m) PROVE IInv'
  <2>1. PICK c \in Clients : cSession[c] # None /\ m = ConfirmOf(c)
    BY <1>5, ConfirmSays DEF OnConfirm
  <2>2. sPeer[s] \in Clients /\ sPc[s] = "responded"
    BY <1>5 DEF OnConfirm, ServerAnswersOnce
  <2>3. ResponseMsg(cSession[c], c, clientCfg[c].suite) = ResponseOf(s)
    BY <1>5, <2>1 DEF OnConfirm, ConfirmOf, WantHash, ConfirmationHash, ResponseOf
  <2>4. cSession[c] = s /\ sPeer[s] = c
    BY <2>3 DEF ResponseMsg, ResponseOf
  <2>5. m.proof = None <=> clientCfg[c].identity = NoIdentity
    BY <2>1, ProofIsSent DEF ConfirmOf, IdentityProof
  <2>6. m.proof # None => m.proof.identity = clientCfg[c].identity /\ m.proof.signer = clientCfg[c].key
    BY <2>1, <2>5 DEF ConfirmOf, IdentityProof
  <2>7. clientCfg[c].identity # NoIdentity /\ serverCfg[s].lookup =>
          Registered[clientCfg[c].identity] = clientCfg[c].key
    BY <1>5, <2>5, <2>6 DEF OnConfirm, ProofOk, ProofVerifies
  <2>8. /\ sPc' = [sPc EXCEPT ![s] = "done"]
        /\ sIdentity' = [sIdentity EXCEPT
             ![s] = IF clientCfg[c].identity = NoIdentity THEN None ELSE clientCfg[c].identity]
        /\ net' = net \cup {AcceptedMsg(s)}
        /\ UNCHANGED <<clientCfg, serverCfg, sPeer, sSuite, sKeys, cPc, cSession, derived>>
    BY <1>5, <2>5, <2>6 DEF OnConfirm
  <2>9. TypeOK'
    BY <2>8
  <2>10. MessageForms'
    BY <2>8 DEF MessageForms, InitMsg, ResponseOf, ResponseMsg, ConfirmOf, AcceptedMsg, RejectedMsg,
                ConfirmationHash, IdentityProof
  <2>11. ServerAnswersOnce' /\ ClientChoosesOnce'
    BY <2>2, <2>8 DEF ServerAnswersOnce, ClientChoosesOnce
  <2>12. CompletedTogether'
    BY <2>2, <2>4, <2>7, <2>8 DEF CompletedTogether
  <2> QED
    BY <2>9, <2>10, <2>11, <2>12
<1> QED
  BY <1>2, <1>3, <1>4, <1>5 DEF ServerStep

\* HandshakeClient and HandshakeServer: whoever completes agrees with its peer
\* on session, keys and identity, whatever the network does with the messages
\* of any number of concurrent handshakes.
THEOREM HandshakeAgreement == Spec => []Agreement
<1>1. Init => IInv
  BY HandshakeAssumption
     DEF Init, IInv, TypeOK, MessageForms, ServerAnswersOnce, ClientChoosesOnce, CompletedTogether
<1>2. IInv /\ [Next]_vars => IInv'
  <2>1. ASSUME IInv, UNCHANGED vars PROVE IInv'
    BY <2>1 DEF vars, IInv, TypeOK, MessageForms, ServerAnswersOnce, ClientChoosesOnce, CompletedTogether,
                InitMsg, ResponseOf, ResponseMsg, ConfirmOf, AcceptedMsg, RejectedMsg, ConfirmationHash, IdentityProof
  <2> QED
    BY <2>1, ClientStepKeeps, ServerStepKeeps DEF Next
<1>3. IInv => Agreement
  <2> SUFFICES ASSUME IInv PROVE Agreement
    OBVIOUS
  <2> USE HandshakeAssumption DEF IInv, TypeOK
  <2>1. \A s \in Servers : sPc[s] = "done" => sPeer[s] \in Clients /\ cSession[sPeer[s]] = s
    BY DEF ServerAnswersOnce, CompletedTogether
  <2>2. \A c \in Clients : cSession[c] # None =>
          cSession[c] \in Servers /\ sPeer[cSession[c]] = c /\ sKeys[cSession[c]] = derived[c]
    <3> SUFFICES ASSUME NEW c \in Clients, cSession[c] # None
                 PROVE  cSession[c] \in Servers /\ sPeer[cSession[c]] = c /\ sKeys[cSession[c]] = derived[c]
      OBVIOUS
    <3>1. cSession[c] \in Servers /\ sPeer[cSession[c]] = c /\ sPeer[cSession[c]] # None
          /\ derived[c] = SessionKeys(clientCfg[c].suite, c, cSession[c])
      BY DEF ClientChoosesOnce
    <3> QED
      BY <3>1 DEF ServerAnswersOnce
  <2>3. ASSUME NEW s \in Servers, sPc[s] = "done", NEW c, c = sPeer[s]
        PROVE  /\ cSession[c] = s
               /\ derived[c] = sKeys[s]
               /\ sIdentity[s] # None /\ serverCfg[s].lookup =>
                    /\ sIdentity[s] = clientCfg[c].identity
                    /\ Registered[sIdentity[s]] = clientCfg[c].key
    BY <2>1, <2>2, <2>3 DEF CompletedTogether
  <2>4. ASSUME NEW c \in Clients, cPc[c] = "done", NEW s, s = cSession[c]
        PROVE  /\ sPc[s] = "done"
               /\ sPeer[s] = c
               /\ sKeys[s] = derived[c]
               /\ serverCfg[s].domain = clientCfg[c].pinned
               /\ sIdentity[s] = IF clientCfg[c].identity = NoIdentity THEN None ELSE clientCfg[c].identity
    <3>1. s \in Servers /\ s # None
      BY <2>4 DEF ClientChoosesOnce
    <3> QED
      BY <2>2, <2>4, <3>1 DEF ClientChoosesOnce, CompletedTogether
  <2> QED
    BY <2>3, <2>4 DEF Agreement
<1> QED
  BY <1>1, <1>2, <1>3, PTL DEF Spec
=============================================================================
