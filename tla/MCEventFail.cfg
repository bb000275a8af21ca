SPECIFICATION Spec
CONSTANTS
  Threads = {t1}
  Refs = {r1, r2}
  NoRef = NoRef
  MaxRefs = 1
  StackCap = 1
  SockCap = 1
  Gates <- Filter
  Families <- AllFamilies
  AttachMayFail = TRUE
  ReadMayFail = TRUE
  Window = 1
  MaxId = 2
  MaxDepth = 2
SYMMETRY Symmetry
INVARIANTS
  TypeOK
  EveryRefHasOneOwner
  RefsReachARenderer
CHECK_DEADLOCK FALSE
