SPECIFICATION FairSpec
CONSTANTS
  s = s
  k = k
  shift = shift
  basic = basic
  agent = agent
  Usage = {s, k}
  Modifier = {}
  Profile = {basic, agent}
  DefaultProfile = basic
  NoProfile = NoProfile
  NoKey = NoKey
  Main = Main
  InitialMode <- MCInitialMode
  KeyMap <- MCKeyMap
  Fired <- SwitchesOnly
  EdgeSet <- SwitchAloneEdges
  Worker = {w1}
  w1 = w1
  Editable = {agent}
INVARIANTS
  NoLostKey
  NothingLeftAtExit
  DownKeysAreHeld
PROPERTY ReleasedKeyComesUp
