SPECIFICATION LibrariesSpec
CONSTANTS
  Subsystem = {device}
  Health = {unknown, healthy}
  Unknown = unknown
  Profile = {p1}
  NoProfile = NoProfile
  Error = {e1}
  NoError = NoError
  Waiter = {w1, w2}
  Timeout = {1}
  Wrap = 8
  Boot = 0
  MaxRevision = 2
  MaxReport = 1
  MaxTicks = 1
  Caller = {c1, c2}
  Owner = {o1, o2}
  Capacity = 1
  MaxId = 2
INVARIANTS
  WaitsAreTrue
  NoLostWakeUp
PROPERTIES
  StopIsHeard
  EverythingEnds
CHECK_DEADLOCK FALSE
