SPECIFICATION NotifierSpec
CONSTANTS
  Callers = {job, other}
  PageAfter = 2
  Suppress = 2
  NoteSuppress = 2
  DayLength = 2
  HeartbeatHour = 1
  MaxTime = 3
  MaxCalls = 5
INVARIANTS ChannelIsNotFlooded PagesAreConfirmed RecoveryIsOwed
CHECK_DEADLOCK FALSE
