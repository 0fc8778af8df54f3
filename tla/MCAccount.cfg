SPECIFICATION FairSpec
CONSTANTS
  MaxTime <- TimeBounds
  Users = {1, 2}
  ClosureRequests <- SomeRequests
  NoRequest = NoRequest
  Cancels = {x1}
  ClosureTicks = {t1, t2}
  MinGracePeriod = 1
  MaxGracePeriod = 2
  MinClosureRetention = 1
  PruneRetentions = {0}
  MaxClosureFailures = 1
  Addresses = {"alice@a", "alice@b", "bob@a"}
  LocalPart <- Locals
  Submissions <- SomeSubmissions
  NoMigration = NoMigration
  NoLock = NoLock
  AcceptCalls = {a1, a2}
  OldDomainKeyId = "k"
  OldIdentityCreated <- Created
  MinNoticeWindow = 1
  MaxNoticeWindow = 3
  MigrationSkew = 0
  MaxPublishFailures = 1
  Owners = {o1}
  BackupDevices = {d1, d2}
  BundleIds = {1, 2, 3, 4}
  NoBundle = NoBundle
  Second = 2
  MinSupersededRetention = 2
  BundleRetentions = {0, 3}
CHECK_DEADLOCK FALSE
INVARIANTS RequestKept PublishedIsLocked BundlesKept
PROPERTIES CancelHonoured ClosureCompletes
