SPECIFICATION Spec
CONSTANTS
  s = s
  k = k
  shift = shift
  basic = basic
  agent = agent
  Usage = {s, k}
  Modifier = {shift}
  Profile = {basic, agent}
  DefaultProfile = basic
  NoProfile = NoProfile
  NoKey = NoKey
  Main = Main
  InitialMode <- MCInitialMode
  KeyMap <- MCKeyMap
  Fired <- SwitchesOnly
  EdgeSet <- AnyEdges
  Worker = {}
  Editable = {}
INVARIANT SwitchReleasesInjected
