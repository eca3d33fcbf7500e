CONSTANTS
  Threads = {t1, t2, t3}
  Full = 4
  CompareAndSwap = TRUE
SPECIFICATION Spec
INVARIANTS
  Accounting
PROPERTIES
  ImplementsRWLock
  RefusedForCause
