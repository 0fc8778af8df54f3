SPECIFICATION FairSpec
CONSTANTS
  NoRecord = NoRecord
  CfgInitial = 0
  CfgMultiplier = 0
  CfgMaxInterval = 0
  CfgJitterPct = 0
  ReasonCodes = {"rate_limited", "blocked_recipient"}
  CfgHorizon = 3
  Envelopes = {1}
  Recipients = {r1}
  Expiries = {2}
  Retention = 1
  Enqueuers = {e1}
  Cancelers = {c1}
  Pruners = {p1}
  ExclusiveCalls = FALSE
  MaxTime = 3
  LastEnqueue = 1
  MaxPutFailures = 1
  MaxCrashes = 0
CHECK_DEADLOCK FALSE
INVARIANTS RetryWindow TerminalAnnounced
PROPERTIES QueueDrains
