SPECIFICATION FairSpec
CONSTANTS
  Ops = {o1, o2, o3}
  None = None
  MinBackoff = 5
  MaxBackoff = 10
  MinKickBackoff = 5
  MaxKickBackoff = 10
  MaxFaults = 2
INVARIANT SessionsAreExclusive
PROPERTIES ServesOps AcceptedIsAnswered ShutdownEndsThread
CHECK_DEADLOCK FALSE
