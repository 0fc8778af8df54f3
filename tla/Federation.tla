----------------------------- MODULE Federation -----------------------------
(***************************************************************************)
(* The server-to-server handshake: FederationInitiator and                 *)
(* FederationResponder of src/src/handshake/federation.ts.                 *)
(*                                                                         *)
(* As in Handshake, any message ever sent may reach any instance, late or  *)
(* repeatedly, and cryptography is symbolic; an initiator stands for its   *)
(* nonce and ephemeral key. The responder's onInit awaits the domain       *)
(* verifier before it assigns its state, so two onInit calls on a          *)
(* responder may overlap; each makes a session id, a nonce and an          *)
(* ephemeral key of its own, and the session id stands for all three. The  *)
(* responder has no rejection to send: it throws. A handler that throws    *)
(* before it assigned anything is no step.                                 *)
(***************************************************************************)
EXTENDS Negotiation

CONSTANTS
  Initiators, Responders,    \* instances of the two classes
  InitiatorConfigs, ResponderConfigs,
  FederationSuites, ServerDomains, NoValue,
  MaxInits                   \* bound: onInit calls on a responder

\* A session id names the responder and the onInit call that made it.
SessionIds == Responders \X (1..MaxInits)

ASSUME FederationAssumption ==
  /\ InitiatorConfigs \subseteq
       [domain : ServerDomains, peer : ServerDomains, suite : FederationSuites,
        offers : SUBSET FederationSuites]
  /\ ResponderConfigs \subseteq
       [domain : ServerDomains, suite : FederationSuites, supports : Seq(FederationSuites)]
  /\ MaxInits \in Nat
  /\ NoSuite \notin FederationSuites
  /\ NoValue \notin SessionIds

VARIABLES
  iCfg, rCfg,    \* the constructors' arguments
  wire,          \* every message sent so far
  iPc,           \* "new", "init", "confirm", "done", "erased"
  iSession,      \* sessionId, or NoValue
  iKeys,         \* history: the session keys the initiator derived, or NoValue
  agreed,        \* history: initiators whose confirm accepted the policy
  verifying,     \* per responder: calls of onInit that await the verifier
  inits,         \* per responder: calls of onInit so far
  rState,        \* per responder: what onInit assigned, or NoValue
  established    \* history: the sessions that onConfirm returned

federationVars == <<iCfg, rCfg, wire, iPc, iSession, iKeys, agreed, verifying, inits,
                    rState, established>>

initiatorVars == <<iPc, iSession, iKeys, agreed>>
responderVars == <<verifying, inits, rState, established>>

FederationInit ==
  /\ iCfg \in [Initiators -> InitiatorConfigs]
  /\ rCfg \in [Responders -> ResponderConfigs]
  /\ wire = {}
  /\ iPc = [i \in Initiators |-> "new"]
  /\ iSession = [i \in Initiators |-> NoValue]
  /\ iKeys = [i \in Initiators |-> NoValue]
  /\ agreed = {}
  /\ verifying = [r \in Responders |-> {}]
  /\ inits = [r \in Responders |-> 0]
  /\ rState = [r \in Responders |-> NoValue]
  /\ established = {}

FedInitMsg(i) ==
  [step |-> "init", initiator |-> i, suite |-> iCfg[i].suite, offers |-> iCfg[i].offers,
   signer |-> iCfg[i].domain]
FedResponseMsg(r, sid, i) ==
  [step |-> "response", sid |-> sid, client_nonce |-> i, suite |-> rCfg[r].suite,
   signer |-> rCfg[r].domain]

-----------------------------------------------------------------------------
(* FederationInitiator *)

InitiatorInit(i) ==
  /\ iPc[i] = "new"
  /\ iPc' = [iPc EXCEPT ![i] = "init"]
  /\ wire' = wire \cup {FedInitMsg(i)}
  /\ UNCHANGED <<iCfg, rCfg, iSession, iKeys, agreed, responderVars>>

\* onResponse; the policy acceptor decides what the confirm says. The signed
\* domain must be the configured peer. A suite other than the initiator's
\* makes the key agreement throw.
InitiatorOnResponse(i, m, accepted) ==
  /\ iPc[i] = "init"
  /\ m.step = "response"
  /\ m.signer = iCfg[i].peer
  /\ m.client_nonce = i
  /\ m.suite = iCfg[i].suite
  /\ iPc' = [iPc EXCEPT ![i] = "confirm"]
  /\ iSession' = [iSession EXCEPT ![i] = m.sid]
  /\ iKeys' = [iKeys EXCEPT ![i] = SessionKeys(iCfg[i].suite, i, m.sid)]
  /\ agreed' = IF accepted THEN agreed \cup {i} ELSE agreed
  /\ wire' = wire \cup {[step |-> "confirm", sid |-> m.sid, accepted |-> accepted,
                        hash |-> ConfirmationHash(FedInitMsg(i), m), signer |-> iCfg[i].domain]}
  /\ UNCHANGED <<iCfg, rCfg, responderVars>>

InitiatorOnAccepted(i, m) ==
  /\ iPc[i] = "confirm"
  /\ m.step = "accepted"
  /\ m.sid = iSession[i]
  /\ m.signer = iCfg[i].peer
  /\ iPc' = [iPc EXCEPT ![i] = "done"]
  /\ UNCHANGED <<iCfg, rCfg, wire, iSession, iKeys, agreed, responderVars>>

\* erase: the handshake is abandoned.
InitiatorErase(i) ==
  /\ iPc[i] \in {"init", "confirm"}
  /\ iPc' = [iPc EXCEPT ![i] = "erased"]
  /\ UNCHANGED <<iCfg, rCfg, wire, iSession, iKeys, agreed, responderVars>>

-----------------------------------------------------------------------------
(* FederationResponder *)

\* onInit up to `await verifier.verify`. The guard against a second call
\* looks at what the first one assigns after its await.
OnInitBegin(r, m) ==
  /\ rState[r] = NoValue
  /\ m.step = "init"
  /\ inits[r] < MaxInits
  /\ inits' = [inits EXCEPT ![r] = @ + 1]
  /\ verifying' = [verifying EXCEPT ![r] = @ \cup {[call |-> inits[r] + 1, init |-> m]}]
  /\ UNCHANGED <<iCfg, rCfg, wire, rState, established, initiatorVars>>

\* The verifier agreed: the rest of onInit, whatever the state is by now.
OnInitVerified(r, v) ==
  LET sid == <<r, v.call>>
      suite == PickSuite(v.init.offers, rCfg[r].supports) IN
  /\ v \in verifying[r]
  /\ suite = rCfg[r].suite
  /\ v.init.suite = suite     \* otherwise the key agreement throws
  /\ verifying' = [verifying EXCEPT ![r] = @ \ {v}]
  /\ rState' = [rState EXCEPT ![r] =
       [sid |-> sid, init |-> v.init, peerDomain |-> v.init.signer,
        keys |-> SessionKeys(suite, v.init.initiator, sid)]]
  /\ wire' = wire \cup {FedResponseMsg(r, sid, v.init.initiator)}
  /\ UNCHANGED <<iCfg, rCfg, inits, established, initiatorVars>>

\* The verifier, the negotiation or the key agreement throws.
OnInitThrows(r, v) ==
  /\ v \in verifying[r]
  /\ verifying' = [verifying EXCEPT ![r] = @ \ {v}]
  /\ UNCHANGED <<iCfg, rCfg, wire, inits, rState, established, initiatorVars>>

FedWantHash(r) ==
  ConfirmationHash(rState[r].init, FedResponseMsg(r, rState[r].sid, rState[r].init.initiator))

\* Mutant: the initiator's verdict on the policy is not looked at.
OnConfirmAnyVerdict(r, m) ==
  /\ rState[r] # NoValue /\ rState[r].keys # NoValue
  /\ m.step = "confirm"
  /\ m.sid = rState[r].sid
  /\ m.signer = rState[r].peerDomain
  /\ m.hash = FedWantHash(r)
  /\ established' = established \cup
       {[sid |-> m.sid, keys |-> rState[r].keys, peerDomain |-> rState[r].peerDomain]}
  /\ wire' = wire \cup {[step |-> "accepted", sid |-> m.sid, signer |-> rCfg[r].domain]}
  /\ UNCHANGED <<iCfg, rCfg, verifying, inits, rState, initiatorVars>>

ResponderOnConfirm(r, m) ==
  /\ rState[r] # NoValue /\ rState[r].keys # NoValue
  /\ m.step = "confirm"
  /\ m.sid = rState[r].sid
  /\ m.signer = rState[r].peerDomain
  /\ m.hash = FedWantHash(r)
  /\ m.accepted
  /\ established' = established \cup
       {[sid |-> m.sid, keys |-> rState[r].keys, peerDomain |-> rState[r].peerDomain]}
  /\ wire' = wire \cup {[step |-> "accepted", sid |-> m.sid, signer |-> rCfg[r].domain]}
  /\ UNCHANGED <<iCfg, rCfg, verifying, inits, rState, initiatorVars>>

\* erase: a confirm that comes later throws.
ResponderErase(r) ==
  /\ rState[r] # NoValue /\ rState[r].keys # NoValue
  /\ rState' = [rState EXCEPT ![r].keys = NoValue]
  /\ UNCHANGED <<iCfg, rCfg, wire, verifying, inits, established, initiatorVars>>

-----------------------------------------------------------------------------

InitiatorStep(i) ==
  \/ InitiatorInit(i)
  \/ InitiatorErase(i)
  \/ \E m \in wire :
       InitiatorOnAccepted(i, m) \/ \E accepted \in BOOLEAN : InitiatorOnResponse(i, m, accepted)

ResponderStep(r) ==
  \/ ResponderErase(r)
  \/ \E m \in wire : OnInitBegin(r, m) \/ ResponderOnConfirm(r, m)
  \/ \E v \in verifying[r] : OnInitVerified(r, v) \/ OnInitThrows(r, v)

FederationNext ==
  \/ \E i \in Initiators : InitiatorStep(i)
  \/ \E r \in Responders : ResponderStep(r)

FederationSpec == FederationInit /\ [][FederationNext]_federationVars

-----------------------------------------------------------------------------
(* Properties *)

\* Both ends of a federation session agree, also when onInit calls on one
\* responder overlapped. An initiator that completes shares its session with a
\* responder of the domain it called: same session id, same keys, and that
\* responder takes it for its own domain. Every session a responder
\* establishes is with one initiator that derived the same keys, is of the
\* recorded domain, meant this responder's domain and accepted its policy.
PeersAgree ==
  /\ \A i \in Initiators : iPc[i] = "done" =>
       /\ [sid |-> iSession[i], keys |-> iKeys[i], peerDomain |-> iCfg[i].domain] \in established
       /\ rCfg[iSession[i][1]].domain = iCfg[i].peer
  /\ \A e \in established : \E i \in agreed :
       /\ iKeys[i] = e.keys /\ iSession[i] = e.sid
       /\ iCfg[i].domain = e.peerDomain
       /\ iCfg[i].peer = rCfg[e.sid[1]].domain
=============================================================================
