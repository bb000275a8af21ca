SPECIFICATION Spec
CONSTANTS
  Threads = {t1, t2}
  Refs = {r1, r2, r3}
  NoRef = NoRef
  MaxRefs = 2
  StackCap = 2
  SockCap = 1
  Gates <- Unfiltered
  Families <- RefFamilies
  AttachMayFail = TRUE
  ReadMayFail = FALSE
  Window = 1
  MaxId = 2
  MaxDepth = 1
SYMMETRY Symmetry
INVARIANTS
  OwnRefsOnly
CHECK_DEADLOCK FALSE
