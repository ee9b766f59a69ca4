SPECIFICATION StorageSpec
CONSTANTS
  Main = Main
  Worker = {w1}
  Edit = {e1, e2, e3}
  NoEdit = NoEdit
  Nobody = Nobody
  NoFile = NoFile
INVARIANTS
  StorageInv
  AckedEditsSurvive
PROPERTY WritesAreAtomic
CHECK_DEADLOCK FALSE
