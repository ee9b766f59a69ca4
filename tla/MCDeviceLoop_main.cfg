SPECIFICATION FairSpec
CONSTANTS
  d1 = d1
  d2 = d2
  Device = {d1, d2}
  NoDevice = NoDevice
  Config <- MCConfig
  Tries = 1
  Backoff = 2
  MaxEvents = 3
INVARIANTS
  DeviceIsKept
PROPERTIES
  DeviceIsOpened
  ShutdownEnds
