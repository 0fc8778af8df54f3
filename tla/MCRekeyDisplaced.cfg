SPECIFICATION ExerciseSpec
CONSTANTS
  Exercises = {"wires"}
  MaxNonces = 4
  MaxFrames = 2
  MaxWsFrames = 3
  MaxWsReceives = 4
  MaxWsSends = 2
  LinesPerMessage = 1
  MaxH2Messages = 2
  MaxKeepalives = 1
  MaxH2Receives = 3
  MaxH2Pending = 2
  H2Posts = {p1}
  NoSuite = NoSuite
  OtherSuite = "p256"
  Suites <- Both
  Programs <- AllPrograms
  ServerSuites <- Preferences
  ClientSuites <- AnySuite
  RejectReasons = {"resumption_failed", "session_expired", "auth_failed", "configuration_stale"}
  MaxCuts = 2
CHECK_DEADLOCK FALSE
INVARIANT KeysAlwaysAgree
