SPECIFICATION Spec
CONSTANTS
  UserId = "alice"
  SupportedKinds <- Kinds
  PolicyMessages <- DeviceMessages
  NoEntry = NoEntry
  NoMatch = NoMatch
  Names = {"", "mx"}
  NoEnvelope = NoEnvelope
  c1 = c1
  c2 = c2
  Calls = {c1, c2}
  Envelopes <- Arriving
  Arrivals <- AloneOrTwo
  Domains = {"evil", "refused"}
  DomainKeys = {"k1"}
  NoKey = ""
  MacKeys = {"m1", "m2"}
  InitialKey <- Keys
  InitialMac = "m1"
  Skips <- Configs
  RefusedDomains = {"refused"}
  Gate <- Gates
  LocalRecipients = {"alice", "bob", "carol"}
  ClockSkew = 0
  MaxDepth = 2
  MaxTime = 1
  MaxChanges = 2
CHECK_DEADLOCK FALSE
INVARIANTS JudgedInOrder BlocksHold MailKept AppliedInOrder LastWord
