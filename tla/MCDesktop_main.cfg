SPECIFICATION ChoiceSpec
CONSTANTS
  Class = {"main"}
  Path <- Paths
  Exe <- Exes
  ExeOf <- Executables
  Handle = {1, 2}
  Name = {0, 1, 2}
  Target <- Aims
  Kind <- Kinds
  PartsOf <- Parts
  Usage = {4, 5}
  Action = {"a", "b"}
  Group = {0, 1}
  Layer <- FnLayers
  MaxKeys = 2
INVARIANTS
  KeysReachTheTarget
  LayersAreKept
PROPERTIES
  SwitchesAreMeant
  FocusIsFollowed
CHECK_DEADLOCK FALSE
