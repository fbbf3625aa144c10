SPECIFICATION Spec
CONSTANTS
  Requests = {r1, r2}
  Workers = {w1, w2}
  LastDay = 3
  Filed <- MCFiled
  LongSick = 1
  Settings <- MCOnlyAuto
  Operations = {"submit", "cancel"}
  Overlapping <- MCCancelRace
  MaxCalls = 4
  Nobody = nobody
  Admin = admin
SYMMETRY Symmetry
INVARIANT OnlyApprovedMarksOff
CHECK_DEADLOCK FALSE
