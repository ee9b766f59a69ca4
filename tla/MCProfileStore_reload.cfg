SPECIFICATION Spec
CONSTANTS
  Id <- Ids3
  Name = {"media.hd", "work"}
  NewId = {"media_hd", "pad.1"}
  IdOrder <- Sorted
  NameOrder <- Names3
  Lower <- LowerCase
  Sanitize <- OwnId
  MigratedId <- HashedId
  AppId <- AppIds3
  AppOf <- AppName
  MigratedApp <- HashedApp
  Dotted = {"media.hd"}
  UnsafeId = {"pad.1", "app-pad.1"}
  Wide <- BothSides
  Refers <- SwitchTo
  Usage = {"u", "v"}
  Trigger <- Triggers
  Action = {"x", "go"}
  Target = {"t1", "t2"}
  NewName = {"media.hd", "work"}
  NewTarget = {"t2"}
  PresetKeys <- Preset
  Start <- Configured
  Main = Main
  Worker = {w1}
  MaxOps = 3
INVARIANT ActiveExists
CHECK_DEADLOCK FALSE
