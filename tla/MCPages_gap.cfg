SPECIFICATION PagesSpec
CONSTANTS
  p1 = p1
  p2 = p2
  p3 = p3
  s1 = s1
  s2 = s2
  b1 = b1
  b2 = b2
  NoPage = NoPage
  NoSocket = NoSocket
  Page = {p3}
  Followed = {p3}
  SseThread = {1}
  Socket = {s1, s2}
  Bumper = {b1}
  Cap = 1
  Edits = FALSE
  Loads = 1
  MaxRevision = 2
  Key = {1}
  Tab = {tab1, tab2}
  Window = 2
  Wrap = 8
  MaxTick = 3
  Device = {"pad", "ps2"}
  IdOf <- Ids
  Ring = 2
  MaxPress = 4
CHECK_DEADLOCK FALSE
INVARIANT
  QuietPageIsCurrent
