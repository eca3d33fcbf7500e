CONSTANTS
  Threads = {t1, t2}
  NoThread = NoThread
  CompareAndSwap = FALSE
SPECIFICATION Spec
INVARIANTS
  MutualExclusion
SYMMETRY ThreadSymmetry
