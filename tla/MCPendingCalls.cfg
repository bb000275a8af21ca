SPECIFICATION Spec
CONSTANTS
  Window = 1
  MaxId = 5
INVARIANTS
  BoundedPending
  LenExact
  CallsAccounted
  AloneOnlyIfUnpaired
PROPERTY RecentCallsKept
CHECK_DEADLOCK FALSE
