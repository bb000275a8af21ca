SPECIFICATION FairSpec
CONSTANTS
  Threads = {t1, t2}
  Refs = {r1, r2}
  NoRef = NoRef
  MaxRefs = 2
  StackCap = 1
  SockCap = 1
  Gates <- Unfiltered
  Families <- LiveFamilies
  AttachMayFail = TRUE
  ReadMayFail = FALSE
  Window = 1
  MaxId = 1
  MaxDepth = 1
PROPERTIES
  ImplementsLedger
  EveryRefReleased
  EveryCallArrives
CHECK_DEADLOCK FALSE
