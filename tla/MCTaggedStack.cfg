CONSTANTS
  Threads = {t1, t2}
  Items = {a, b}
  NIL = NIL
  INVALID = INVALID
  Counted = TRUE
  Calls = {"PushCalcList", "PushList", "Pop", "PopList", "PopReversed", "Change", "Invalidate", "Validate"}
  MaxCounter = 3
SPECIFICATION MCFairSpec
CHECK_DEADLOCK FALSE
INVARIANTS
  OneOwner
  NothingLost
PROPERTIES
  ReversedInOrder
  ImplementsAtomicStack
  EveryCallReturns
