SPECIFICATION FairSpec
CONSTANTS
  edit = edit
  fire = fire
  create = create
  import = import
  NoOp = NoOp
  w1 = w1
  w2 = w2
  Worker = {w1, w2}
  Op = {edit, fire, create, import}
  Kind <- EveryKind
  MaxCalls = 3
INVARIANTS
  OpsAreLive
  FileHoldsMemory
PROPERTIES
  EveryCallReturns
  ServiceSpec
