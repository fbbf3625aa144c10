CONSTANTS
  ann = ann
  bob = bob
  hk = hk
  FirstStaff <- MCFirstStaff
  Budgets <- MCBudgets
  People = {ann, bob}
  Apps = {hk}
  Browsers = {safari}
  Polls = {q1, q2}
  MaxTickets = 2
  Ids = {1, 2}
  MaxWaiters = 2
  NoTicket = NoTicket
  NoOne = NoOne
  Readers = {desk}
  StationPolls = {w1, w2}
  NoBody = NoBody
  NoTap = NoTap
  NotWaiting = NotWaiting
SPECIFICATION FairSpec
INVARIANTS SlotsAreCounted OneSessionPerSignIn
PROPERTIES TicketsAreOneTime ResolvedIsCollected
CHECK_DEADLOCK FALSE
