SPECIFICATION Spec
CONSTANTS
  s = s
  k = k
  basic = basic
  agent = agent
  Usage = {s, k}
  Modifier = {}
  Profile = {basic, agent}
  DefaultProfile = agent
  NoProfile = NoProfile
  InitialMode <- MCInitialMode
  Editable = {agent}
  KeyMap <- MCKeyMap
  Fired <- SwitchesAndKey
  FiredUsage = {k}
  EdgeSet <- SwitchAloneEdges
  Main = Main
  Worker = {x1}
  x1 = x1
  Handle = {w}
  w = w
  Identity = {i, j}
  i = i
  j = j
  Gone = Gone
  NoEntry = NoEntry
  MsgWindow = TRUE
INVARIANTS
  OpenedIsAccounted
  HeldKeysRepeat
  LedgerIsTrue
