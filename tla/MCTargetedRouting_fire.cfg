SPECIFICATION Spec
CONSTANTS
  s = s
  k = k
  basic = basic
  agent = agent
  Usage = {s, k}
  Modifier = {}
  Profile = {basic, agent}
  DefaultProfile = agent
  NoProfile = NoProfile
  InitialMode <- MCInitialMode
  Editable = {}
  KeyMap <- MCKeyMap
  Fired <- AKey
  FiredUsage = {k}
  EdgeSet <- SwitchAloneEdges
  Main = Main
  Worker = {}
  Handle = {w}
  w = w
  Identity = {i}
  i = i
  Gone = Gone
  NoEntry = NoEntry
  MsgWindow = TRUE
INVARIANT HeldUntilReleased
