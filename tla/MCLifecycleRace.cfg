SPECIFICATION Spec
CONSTANTS
  Threads = {t1}
  Worker = worker
  Reader = reader
  PartsMayFail = FALSE
  MaxEntries = 1
INVARIANT DisabledOnlyIfPipeFailed
CHECK_DEADLOCK FALSE
