CONSTANTS
  ann = ann
  bob = bob
  LastRun = 3
  Commit <- MCCommit
  Latest <- MCLatest
  MaxFaults = 2
  MaxByHand = 1
  Plans <- MCPlans
  Emails = {ann, bob}
  Tokens = {t1, t2}
  Addresses = {here, there}
  Protected = ann
  Floor = {ann, bob}
  Threshold = 2
  Window = 1
  SessionTime = 1
  None = None
  Unknown = Unknown
SPECIFICATION FairSpec
INVARIANTS ReleasesAreBackedUp LoginsAreLimited
PROPERTIES ReleaseComesUp ManagersAreFollowed
CHECK_DEADLOCK FALSE
