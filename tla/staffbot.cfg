CONSTANTS
  desk = desk
  guest = guest
  morning = morning
  noon = noon
  Slots = {morning, noon}
  Window <- MCWindow
  Reception = {desk}
  Stale = 4
  NoSlot = NoSlot
  Group = family
  Users = {desk, guest}
  Linked = {desk}
  NoWindow = NoWindow
  BufferTtl = 2
  MaxClaim = 1
  WindowTime = 2
  WindowCap = 3
  CommandQuiet = 0
  AckQuiet = 1
  SlotQuiet = 1
  MaxWait = 2
  NoReply = NoReply
  Feedback = {1, 2}
  SectionLines = 1
  MaxImages = 2
  MaxMessages = 3
  Budgets <- MCBudgets
  NoToken = NoToken
SPECIFICATION FairBotSpec
INVARIANTS PostedOnceUnlessLost CheckedOffWasPosted PhotosFollowReports
PROPERTIES RepliesComeOut
CHECK_DEADLOCK FALSE
