SPECIFICATION MCSpec
CONSTANTS
  Threads = {t1, t2, t3, t4}
  Callers = {t1, t2, t3}
INVARIANTS
  MutualExclusion
  NoLostWakeup
  InitializedOnce
  PassedAfterInit
PROPERTIES
  ImplementsMutex
  WaitingEndsInLock
  EveryCallPasses
