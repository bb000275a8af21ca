SPECIFICATION Spec
CONSTANTS
  Threads = {t1, t2}
  Refs = {}
  NoRef = NoRef
  MaxRefs = 2
  StackCap = 1
  SockCap = 2
  Gates <- Filter
  Families <- CallFamilies
  AttachMayFail = FALSE
  ReadMayFail = FALSE
  Window = 1
  MaxId = 3
  MaxDepth = 2
SYMMETRY Symmetry
INVARIANTS
  PairedByInvocation
  EachCallOnePlace
PROPERTY ImplementsPending
CHECK_DEADLOCK FALSE
