SPECIFICATION FairSchedulerSpec
CONSTANTS
  Slots = {s1, s2}
  RetryBudget = 2
  MaxPunches = 1
  MaxImports = 3
INVARIANT CacheIsCoherent
INVARIANT FastRetriesGoOn
PROPERTY SummaryConverges
CHECK_DEADLOCK FALSE
