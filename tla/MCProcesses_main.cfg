SPECIFICATION ProcessesSpec
CONSTANTS
  InitialBackoff = 1
  MaxBackoff = 2
  HealthyReset = 3
  HeartbeatTimeout = 2
  CrashWindow = 3
  MaxCrashes = 2
  Horizon = 4
  StillActive = 3
  ExitCode <- Codes
  Process = {p1, p2, p3}
INVARIANTS
  RestartsAreBounded
  NothingLeftRunning
  OneAgent
PROPERTIES
  RunMovesOn
  LaunchOpensDashboard
