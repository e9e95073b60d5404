SPECIFICATION FairSpec
CONSTANTS
  Threads = {t1, t2, t3}
  Raisers = {t1, t2, t3}
  None = None
  TICKS_PER_SECOND = 5
  LIMIT_WORKING_TIME = 2
  U32 = 8
INVARIANTS
  HangNeedsRaisedPriority
  SliceBound
PROPERTIES
  ImplementsDispatcher
  
CHECK_DEADLOCK FALSE
