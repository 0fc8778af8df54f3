SPECIFICATION TrustSpec
CONSTANTS
  DirectoryEntries <- MCDirectoryEntries
  Correspondents = {x1}
  IdentityKeys = {"i1", "i2"}
  PublishedCertificates = {}
  MaxDirectories = 4
  MaxStarts = 2
  MaxEnrollments = 1
  RecoverySets <- MCRecoverySets
  RecoveryDevices <- MCRecoveryDevices
  ReplacedDevices <- MCReplacedDevices
  IdentityChain <- MCIdentityChain
  DomainKeys = {"dk1", "dk2"}
  LogSubmissions <- MCLogSubmissions
  Auditors = {a1}
  LogKey = "lk"
  STHFreshness = 0
  MaxHeads = 2
  MaxLogTime = 1
  DomainKeyIds <- MCDomainKeyIds
  TTLs = {0, 1}
  MaxDiscoveryTime = 2
  PartitionRecords <- MCPartitionRecords
  PartitionUsers <- MCPartitionUsers
  Drafts <- MCDrafts
  Candidates <- MCCandidates
  ClientSuite = "x25519"
  SealKeys <- MCSealKeys
  EnvelopeCeiling = 10000
  DelayCeiling = 2
  MaxWire = 2
  MaxAltered = 1
  MaxMailTime = 1
  FirstContacts <- MCFirstContacts
  Profiles <- MCProfiles
  OperatorDemands = {30}
  ChallengeTTL = 2
  SweepInterval = 1
  MaxChallenges = 2
  MaxRestarts = 1
  MaxPoWTime = 3
INVARIANTS
  OpenedAsComposed
  LeavesAsPlanned
  WorkCountsOnce
  PublishedIsCurrent
  RecoverySound
  ProofsVerify
  NothingStale
  RoutedToTheHolder
PROPERTIES
  NoRollback
  AuditorsSeeOneLog
CHECK_DEADLOCK FALSE
