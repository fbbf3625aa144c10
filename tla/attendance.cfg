CONSTANTS
  Days = {0, 1, 2, 3, 4}
  DayLength = 1440
  WeekLength = 7
  RoleHours <- MCRoleHours
  Month <- MCMonth
  Buffer = 120
  Around = 60
  Grace = 5
  Severe = 30
  Before = 180
  PunchTypes = {"in", "out", "unspecified"}
  Plans <- MCPlans
  Validity = 6
  GraceTime = 3
  Lead = 2
  Delay = 3
  Skew = 2
  Staff = {ann}
  Submits = {s1}
  Tries = 2
  LastSecond = 16
  NoRole = NoRole
  NoHours = NoHours
  NoVersion = NoVersion
  NoAssignment = NoAssignment
  Off = Off
  None = None
  NoCode = NoCode
SPECIFICATION Spec
INVARIANTS PagesAgree ShownIsAccepted
PROPERTIES HistoryStands DaysSettle
CHECK_DEADLOCK FALSE
