---------------------------- MODULE MCHandshakes ----------------------------
(***************************************************************************)
(* Small instances of the two handshakes. They share no state, so a        *)
(* behaviour exercises one of them.                                        *)
(***************************************************************************)
EXTENDS Handshake, Federation, TLC

BothSuites == {"x25519", "pq"}

-----------------------------------------------------------------------------
(* Clients and servers *)

Registrations == "a" :> "ka" @@ "b" :> "kb"

Client(suite, offers, dom, id, key) ==
  [suite |-> suite, offers |-> offers, pinned |-> dom, identity |-> id, key |-> key]
Server(dom, supports, lookup) == [domain |-> dom, supports |-> supports, lookup |-> lookup]

\* Two domains, an anonymous client, one that holds a's key, one that can do
\* both suites and sent a key of the classical one, and one that names b but
\* holds a's key; one server of each domain, with and without a key lookup.
MixedClients ==
  {Client("x25519", {"x25519"}, "d1", NoIdentity, "ka"),
   Client("x25519", {"x25519"}, "d1", "a", "ka"),
   Client("x25519", {"x25519", "pq"}, "d1", "a", "ka"),
   Client("x25519", {"x25519"}, "d2", "b", "ka"),
   Client("pq", {"pq"}, "d1", "b", "kb")}
MixedServers ==
  {Server("d1", <<"pq", "x25519">>, TRUE),
   Server("d1", <<"x25519">>, FALSE),
   Server("d2", <<"x25519">>, TRUE)}

-----------------------------------------------------------------------------
(* Servers and servers *)

Initiator(dom, peer, suite, offers) ==
  [domain |-> dom, peer |-> peer, suite |-> suite, offers |-> offers]
Responder(dom, suite, supports) == [domain |-> dom, suite |-> suite, supports |-> supports]

\* Two domains that call a third and each other, a suite nobody else has.
MixedInitiators ==
  {Initiator("d1", "d3", "x25519", {"x25519"}),
   Initiator("d2", "d3", "x25519", {"x25519", "pq"}),
   Initiator("d2", "d1", "x25519", {"x25519"}),
   Initiator("d2", "d3", "pq", {"pq"})}
MixedResponders ==
  {Responder("d3", "x25519", <<"x25519", "pq">>), Responder("d1", "x25519", <<"x25519">>)}

-----------------------------------------------------------------------------

VARIABLE exchange    \* "client" or "federation"

\* Every instance of the other handshake has the same configuration and waits.
HandshakesInit ==
  /\ exchange \in {"client", "federation"}
  /\ Init /\ FederationInit
  /\ exchange # "client" =>
       /\ \A c \in Clients : clientCfg[c] = Client("x25519", {"x25519"}, "d1", NoIdentity, "ka")
       /\ \A s \in Servers : serverCfg[s] = Server("d1", <<"x25519">>, FALSE)
  /\ exchange # "federation" =>
       /\ \A i \in Initiators : iCfg[i] = Initiator("d1", "d3", "x25519", {"x25519"})
       /\ \A r \in Responders : rCfg[r] = Responder("d1", "x25519", <<"x25519">>)

HandshakesNext ==
  /\ \/ exchange = "client" /\ Next /\ UNCHANGED federationVars
     \/ exchange = "federation" /\ FederationNext /\ UNCHANGED vars
  /\ UNCHANGED exchange

HandshakesSpec == HandshakesInit /\ [][HandshakesNext]_<<exchange, vars, federationVars>>

\* Instances of one class are interchangeable.
Symmetry ==
  Permutations(Clients) \cup Permutations(Servers)
  \cup Permutations(Initiators) \cup Permutations(Responders)
=============================================================================
