SPECIFICATION Spec
CONSTANTS
  Threads = {t1}
  Refs = {r1, r2, r3}
  NoRef = NoRef
  MaxRefs = 3
  StackCap = 2
  SockCap = 1
  Gates <- Filter
  Families <- RefFamilies
  AttachMayFail = FALSE
  ReadMayFail = FALSE
  Window = 1
  MaxId = 2
  MaxDepth = 1
INVARIANT OwnRefsOnly
CHECK_DEADLOCK FALSE
