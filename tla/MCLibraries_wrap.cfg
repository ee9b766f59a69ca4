SPECIFICATION LibrariesSpec
CONSTANTS
  Subsystem = {device}
  Health = {unknown}
  Unknown = unknown
  Profile = {p1}
  NoProfile = NoProfile
  Error = {e1}
  NoError = NoError
  Waiter = {w1, w2}
  Timeout = {0, 2}
  Wrap = 8
  Boot = 7
  MaxRevision = 2
  MaxReport = 0
  MaxTicks = 4
  Caller = {c1}
  Owner = {o1}
  Capacity = 1
  MaxId = 1
INVARIANTS
  TimeoutIsReal
CHECK_DEADLOCK FALSE
