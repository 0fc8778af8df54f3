SPECIFICATION Spec
CONSTANTS
  NoRecord = NoRecord
  CfgInitial = 0
  CfgMultiplier = 0
  CfgMaxInterval = 0
  CfgJitterPct = 0
  ReasonCodes = {"rate_limited", "blocked_recipient"}
  CfgHorizon = 4
  Envelopes = {1}
  Recipients = {r1, r2}
  Expiries = {4}
  Retention = 1
  Enqueuers = {e1}
  Cancelers = {c1}
  Pruners = {p1}
  ExclusiveCalls = TRUE
  MaxTime = 4
  LastEnqueue = 1
  MaxPutFailures = 0
  MaxCrashes = 1
CHECK_DEADLOCK FALSE
INVARIANTS NeverDeniesDelivery
PROPERTIES ImplementsQueue
