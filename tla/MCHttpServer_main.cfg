SPECIFICATION WaySpec
CONSTANTS
  c1 = c1
  c2 = c2
  NoConn = NoConn
  Conn <- TwoConn
  Pool = 1
  Port = {80, 8765}
  MaxStarts = 2
CHECK_DEADLOCK FALSE
INVARIANTS
  PoolIsKept
  DrainedIsQuiet
  RequestsAreJudged
PROPERTIES
  WorkersComeBack
