SPECIFICATION DeliverySpec
CONSTANTS
  Parts = {"staged"}
  NoCert = NoCert
  NotHeld = NotHeld
  FullAccess = {"f1"}
  MaxStage = 2
  StageTimeout = 1
  Delegates = {"d1", "d2"}
  Wrapped = {"d1", "d2"}
  Envelopes = {1, 2}
  Tickers = {"t1", "t2"}
  CertChoices <- StagedCerts
  Loads <- OneLoad
  MaxHoldFailures = 0
  NoSession = NoSession
  Calls = {"c1", "c2", "c3"}
  PeerDomains = {"a", "b"}
  PeerOf <- TwoPeers
  MaxSessions = 4
  MaxFaults = 2
CHECK_DEADLOCK FALSE
PROPERTIES EveryHoldEnds
