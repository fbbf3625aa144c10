CONSTANTS
  ann = ann
  c1 = c1
  b1 = b1
  b2 = b2
  q1 = q1
  q2 = q2
  QBadges <- MCQBadges
  Budgets <- MCBudgets
  DeviceBadges = {b1, b2}
  Accounts = {ann, bob}
  Codes = {c1, c2}
  Cards = {k1}
  Apps = {hk, rooms}
  Dates = {d1}
  Window = 2
  PerWindow = 2
  Retention = 4
  LockAfter = 3
  LockFor = 3
  BurnAfter = 2
  Workers = {t1, t2}
  MaxApps = 1
  NoAccount = NoAccount
  NoCode = NoCode
  NoCard = NoCard
  NoRow = NoRow
  NoMenu = NoMenu
  Idle = Idle
  NoSync = NoSync
SPECIFICATION FairSpec
INVARIANTS ScansKeepTheirEmployee TriesAreLimited
PROPERTY MenusConverge
CHECK_DEADLOCK FALSE
