CONSTANTS
  Threads = {t1, t2, t3}
  NoThread = NoThread
  CompareAndSwap = TRUE
SPECIFICATION FairSpec
PROPERTIES
  ImplementsMutex
  SomebodyEnters
  AnswersAreTrue
