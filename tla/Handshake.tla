----------------------------- MODULE Handshake -----------------------------
(***************************************************************************)
(* The client-to-server handshake as two state machines: HandshakeClient   *)
(* (src/src/handshake/client_state.ts) and HandshakeServer                 *)
(* (server_state.ts). The caller moves the messages, so here any message   *)
(* ever sent may reach any instance of the other side, late, repeatedly or *)
(* never.                                                                  *)
(*                                                                         *)
(* Cryptography is symbolic. The nonce, the ephemeral key and, for a       *)
(* server, the session id of an instance are the instance itself; a        *)
(* signature names its signer; a hash is what it was computed over; the    *)
(* session keys are the suite and the two instances whose secrets went in. *)
(* A handler that throws before it assigned anything is no step.           *)
(***************************************************************************)
EXTENDS Negotiation

CONSTANTS
  Clients, Servers,     \* instances of the two classes
  ClientConfigs,        \* configurations a client may be constructed with
  ServerConfigs,        \* configurations a server may be constructed with
  Suites, Domains,
  Identities, NoIdentity,   \* client_identity, and config.identity left out
  LongTermKeys,
  Registered,           \* identity -> the key lookupClientIdentityKey returns
  None

Keys == [suite : Suites, initiator : Clients, responder : Servers]
Hashes ==
  [step : {"init"}, client : Clients, suite : Suites, offers : SUBSET Suites]
  \X [step : {"response"}, sid : Servers, client_nonce : Clients, suite : Suites, signer : Domains]
IdentityProofs ==
  [sealedWith : Keys, aad : Servers, identity : Identities, signer : LongTermKeys,
   signed : Servers \X Hashes]

ASSUME HandshakeAssumption ==
  /\ ClientConfigs \subseteq
       [suite : Suites, offers : SUBSET Suites, pinned : Domains,
        identity : Identities \cup {NoIdentity}, key : LongTermKeys]
  /\ ServerConfigs \subseteq
       [domain : Domains, supports : Seq(Suites), lookup : BOOLEAN]
  /\ DOMAIN Registered \subseteq Identities
  /\ NoIdentity \notin Identities /\ NoSuite \notin Suites
  /\ None \notin Servers /\ None \notin Clients /\ None \notin IdentityProofs

VARIABLES
  clientCfg, serverCfg,   \* the constructors' arguments
  net,        \* every message sent so far
  cPc,        \* "new", "init", "confirm", "done", "rejected", "erased"
  cSession,   \* sessionId, or None
  derived,    \* history: the session keys the client derived, or None
  sPc,        \* "new", "responded", "spent", "done", "discarded"
  sPeer,      \* the client whose init the server answered, or None
  sSuite,     \* the negotiated suite, or None
  sKeys,      \* the server's session keys, or None
  sIdentity   \* clientIdentityValue of finalSession, or None

vars == <<clientCfg, serverCfg, net, cPc, cSession, derived,
          sPc, sPeer, sSuite, sKeys, sIdentity>>

clientVars == <<cPc, cSession, derived>>
serverVars == <<sPc, sPeer, sSuite, sKeys, sIdentity>>

Init ==
  /\ clientCfg \in [Clients -> ClientConfigs]
  /\ serverCfg \in [Servers -> ServerConfigs]
  /\ net = {}
  /\ cPc = [c \in Clients |-> "new"]
  /\ cSession = [c \in Clients |-> None]
  /\ derived = [c \in Clients |-> None]
  /\ sPc = [s \in Servers |-> "new"]
  /\ sPeer = [s \in Servers |-> None]
  /\ sSuite = [s \in Servers |-> None]
  /\ sKeys = [s \in Servers |-> None]
  /\ sIdentity = [s \in Servers |-> None]

-----------------------------------------------------------------------------
(* Messages and what is computed from them *)

InitMsg(c) ==
  [step |-> "init", client |-> c, suite |-> clientCfg[c].suite, offers |-> clientCfg[c].offers]
ResponseMsg(s, c, suite) ==
  [step |-> "response", sid |-> s, client_nonce |-> c, suite |-> suite,
   signer |-> serverCfg[s].domain]
AcceptedMsg(s) == [step |-> "accepted", sid |-> s, signer |-> serverCfg[s].domain]
RejectedMsg(s) == [step |-> "rejected", sid |-> s]

\* composeIdentityProof: sealed under the session keys and the session id,
\* with the client's signature over the session id and the hash.
IdentityProof(c, resp, keys) ==
  IF clientCfg[c].identity = NoIdentity THEN None
  ELSE [sealedWith |-> keys, aad |-> resp.sid, identity |-> clientCfg[c].identity,
        signer |-> clientCfg[c].key,
        signed |-> <<resp.sid, ConfirmationHash(InitMsg(c), resp)>>]

-----------------------------------------------------------------------------
(* HandshakeClient *)

ClientInit(c) ==
  /\ cPc[c] = "new"
  /\ cPc' = [cPc EXCEPT ![c] = "init"]
  /\ net' = net \cup {InitMsg(c)}
  /\ UNCHANGED <<clientCfg, serverCfg, cSession, derived, serverVars>>

\* onResponse. The ephemeral secret is used once: a second response throws.
OnResponse(c, m) ==
  LET keys == SessionKeys(clientCfg[c].suite, c, m.sid) IN
  /\ cPc[c] = "init"
  /\ m.step = "response"
  /\ m.client_nonce = c
  /\ m.signer = clientCfg[c].pinned
  /\ m.suite = clientCfg[c].suite     \* otherwise the key agreement throws
  /\ cPc' = [cPc EXCEPT ![c] = "confirm"]
  /\ cSession' = [cSession EXCEPT ![c] = m.sid]
  /\ derived' = [derived EXCEPT ![c] = keys]
  /\ net' = net \cup {[step |-> "confirm", sid |-> m.sid,
                       hash |-> ConfirmationHash(InitMsg(c), m),
                       proof |-> IdentityProof(c, m, keys)]}
  /\ UNCHANGED <<clientCfg, serverCfg, serverVars>>

\* onAccepted, for a message about this client's session.
OnAccepted(c, m) ==
  /\ cPc[c] = "confirm"
  /\ m.step = "accepted"
  /\ m.sid = cSession[c]
  /\ m.signer = clientCfg[c].pinned
  /\ cPc' = [cPc EXCEPT ![c] = "done"]
  /\ UNCHANGED <<clientCfg, serverCfg, net, cSession, derived, serverVars>>

\* onResponse, onAccepted or onRejected on a rejected message: the caller is
\* told and gives the instance up. The session id is not compared.
OnRejected(c, m) ==
  /\ cPc[c] \in {"init", "confirm"}
  /\ m.step = "rejected"
  /\ cPc' = [cPc EXCEPT ![c] = "rejected"]
  /\ UNCHANGED <<clientCfg, serverCfg, net, cSession, derived, serverVars>>

\* erase: a partial handshake is abandoned, its secrets are gone.
ClientErase(c) ==
  /\ cPc[c] \in {"init", "confirm"}
  /\ cPc' = [cPc EXCEPT ![c] = "erased"]
  /\ UNCHANGED <<clientCfg, serverCfg, net, cSession, derived, serverVars>>

-----------------------------------------------------------------------------
(* HandshakeServer: one handshake per instance, discarded after an error *)

Reject(s) ==
  /\ net' = net \cup {RejectedMsg(s)}
  /\ sPc' = [sPc EXCEPT ![s] = "discarded"]

\* onInit with a suite in common, and an ephemeral key of that suite.
OnInit(s, m) ==
  LET suite == PickSuite(m.offers, serverCfg[s].supports) IN
  /\ sPc[s] = "new"
  /\ m.step = "init"
  /\ suite = m.suite
  /\ sPc' = [sPc EXCEPT ![s] = "responded"]
  /\ sPeer' = [sPeer EXCEPT ![s] = m.client]
  /\ sSuite' = [sSuite EXCEPT ![s] = suite]
  /\ sKeys' = [sKeys EXCEPT ![s] = SessionKeys(suite, m.client, s)]
  /\ net' = net \cup {ResponseMsg(s, m.client, suite)}
  /\ UNCHANGED <<clientCfg, serverCfg, sIdentity, clientVars>>

OnInitNoCommonSuite(s, m) ==
  /\ sPc[s] = "new"
  /\ m.step = "init"
  /\ PickSuite(m.offers, serverCfg[s].supports) = NoSuite
  /\ Reject(s)
  /\ UNCHANGED <<clientCfg, serverCfg, sPeer, sSuite, sKeys, sIdentity, clientVars>>

\* onInit picked a suite that the ephemeral key in the message is not of: the
\* key agreement throws, the instance is spent and there is nothing to send.
OnInitWrongKey(s, m) ==
  /\ sPc[s] = "new"
  /\ m.step = "init"
  /\ PickSuite(m.offers, serverCfg[s].supports) # NoSuite
  /\ PickSuite(m.offers, serverCfg[s].supports) # m.suite
  /\ sPc' = [sPc EXCEPT ![s] = "spent"]
  /\ UNCHANGED <<clientCfg, serverCfg, net, sPeer, sSuite, sKeys, sIdentity, clientVars>>

WantHash(s) ==
  ConfirmationHash(InitMsg(sPeer[s]), ResponseMsg(s, sPeer[s], sSuite[s]))

\* The checks of onConfirm on a non-empty identity_proof.
ProofOpens(s, p) == p.sealedWith = sKeys[s] /\ p.aad = s
ProofVerifies(s, p) ==
  serverCfg[s].lookup =>
    /\ p.identity \in DOMAIN Registered
    /\ p.signer = Registered[p.identity]
    /\ p.signed = <<s, WantHash(s)>>
ProofOk(s, p) == p # None => ProofOpens(s, p) /\ ProofVerifies(s, p)

\* Mutant: the confirmation hash is not compared.
OnConfirmUnhashed(s, m) ==
  /\ sPc[s] = "responded"
  /\ m.step = "confirm"
  /\ ProofOk(s, m.proof)
  /\ sPc' = [sPc EXCEPT ![s] = "done"]
  /\ sIdentity' = [sIdentity EXCEPT ![s] = IF m.proof = None THEN None ELSE m.proof.identity]
  /\ net' = net \cup {AcceptedMsg(s)}
  /\ UNCHANGED <<clientCfg, serverCfg, sPeer, sSuite, sKeys, clientVars>>

\* onConfirm succeeds; the operator's verifyIdentityProof agreed.
OnConfirm(s, m) ==
  /\ sPc[s] = "responded"
  /\ m.step = "confirm"
  /\ m.hash = WantHash(s)
  /\ ProofOk(s, m.proof)
  /\ sPc' = [sPc EXCEPT ![s] = "done"]
  /\ sIdentity' = [sIdentity EXCEPT ![s] = IF m.proof = None THEN None ELSE m.proof.identity]
  /\ net' = net \cup {AcceptedMsg(s)}
  /\ UNCHANGED <<clientCfg, serverCfg, sPeer, sSuite, sKeys, clientVars>>

\* onConfirm rejects: the hash, the proof or verifyIdentityProof's verdict.
OnConfirmRejects(s, m) ==
  /\ sPc[s] = "responded"
  /\ m.step = "confirm"
  /\ Reject(s)
  /\ UNCHANGED <<clientCfg, serverCfg, sPeer, sSuite, sKeys, sIdentity, clientVars>>

\* erase, or a message of another step: the caller discards the instance.
ServerErase(s) ==
  /\ sPc[s] \in {"new", "responded"}
  /\ sPc' = [sPc EXCEPT ![s] = "discarded"]
  /\ UNCHANGED <<clientCfg, serverCfg, net, sPeer, sSuite, sKeys, sIdentity, clientVars>>

-----------------------------------------------------------------------------

ClientStep(c) ==
  \/ ClientInit(c)
  \/ ClientErase(c)
  \/ \E m \in net : OnResponse(c, m) \/ OnAccepted(c, m) \/ OnRejected(c, m)

ServerStep(s) ==
  \/ ServerErase(s)
  \/ \E m \in net : \/ OnInit(s, m) \/ OnInitNoCommonSuite(s, m) \/ OnInitWrongKey(s, m)
                    \/ OnConfirm(s, m) \/ OnConfirmRejects(s, m)

Next == (\E c \in Clients : ClientStep(c)) \/ (\E s \in Servers : ServerStep(s))

Spec == Init /\ [][Next]_vars

-----------------------------------------------------------------------------
(* Properties *)

\* Whoever completes agrees with its peer, however messages of concurrent
\* handshakes were mixed up on the way. A client shares its session with
\* exactly the server instance that completed it: that server is of the pinned
\* domain, has the same session keys and has recorded this client's identity.
\* A server has its keys in common with the client whose init it answered, and
\* an identity it looked up is the one whose registered key that client holds.
Agreement ==
  /\ \A c \in Clients : cPc[c] = "done" =>
       LET s == cSession[c] IN
       /\ sPc[s] = "done"
       /\ sPeer[s] = c
       /\ sKeys[s] = derived[c]
       /\ serverCfg[s].domain = clientCfg[c].pinned
       /\ sIdentity[s] = IF clientCfg[c].identity = NoIdentity THEN None ELSE clientCfg[c].identity
  /\ \A s \in Servers : sPc[s] = "done" =>
       LET c == sPeer[s] IN
       /\ cSession[c] = s
       /\ derived[c] = sKeys[s]
       /\ sIdentity[s] # None /\ serverCfg[s].lookup =>
            /\ sIdentity[s] = clientCfg[c].identity
            /\ Registered[sIdentity[s]] = clientCfg[c].key
=============================================================================
