SPECIFICATION Spec
CONSTANTS
  NoRecord = NoRecord
  CfgInitial = 0
  CfgMultiplier = 0
  CfgMaxInterval = 0
  CfgJitterPct = 0
  ReasonCodes = {"rate_limited", "blocked_recipient"}
  Envelopes = {1}
  Retention = 1
  Enqueuers = {e1}
  Cancelers = {c1}
  Pruners = {p1}
  ExclusiveCalls = FALSE
  MaxTime = 3
  LastEnqueue = 1
  MaxPutFailures = 0
  MaxCrashes = 0
  Expiries = {3}
  CfgHorizon = 4
  Recipients = {r1}
CHECK_DEADLOCK FALSE
PROPERTIES TerminalIsFinal
