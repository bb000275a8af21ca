SPECIFICATION FairSpec
CONSTANTS
  Threads = {t1, t2}
  Worker = worker
  Reader = reader
  PartsMayFail = TRUE
  MaxEntries = 3
INVARIANTS
  OriginalsAreOriginal
  HooksAfterActivation
  PipeHasReader
PROPERTY EveryEntryReturns
CHECK_DEADLOCK FALSE
