SPECIFICATION HandshakesSpec
CONSTANTS
  Clients = {c1, c2}
  Servers = {s1, s2}
  Identities = {"a", "b"}
  LongTermKeys = {"ka", "kb"}
  NoIdentity = NoIdentity
  None = None
  NoSuite = NoSuite
  Domains = {"d1", "d2"}
  Suites <- BothSuites
  Registered <- Registrations
  ClientConfigs <- MixedClients
  ServerConfigs <- MixedServers
  Initiators = {i1, i2}
  Responders = {r1, r2}
  NoValue = NoValue
  MaxInits = 2
  ServerDomains = {"d1", "d2", "d3"}
  FederationSuites <- BothSuites
  InitiatorConfigs <- MixedInitiators
  ResponderConfigs <- MixedResponders
INVARIANTS Agreement PeersAgree
SYMMETRY Symmetry
CHECK_DEADLOCK FALSE
