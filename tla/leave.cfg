SPECIFICATION Spec
CONSTANTS
  Requests = {r1, r2}
  Workers = {w1, w2}
  LastDay = 3
  Filed <- MCFiled
  LongSick = 1
  Settings <- MCSettings
  Operations = {"submit", "submit half", "decide", "cancel", "edit", "certificate", "delete", "write"}
  Overlapping <- MCOverlapping
  MaxCalls = 6
  Nobody = nobody
  Admin = admin
SYMMETRY Symmetry
INVARIANTS LeavesAgree 
PROPERTY DecisionsAreFinal
CHECK_DEADLOCK FALSE
