SPECIFICATION HeapSpec
CONSTANTS
  Callers = {t1, t2}
  UserThread = t1
  PageSize = 4
  HeaderSize = 1
  MinBlock = 1
  Align = 2
  Limit = 12
  SizeMod = 16
  Sizes = {1, 4}
INVARIANTS
  BlocksTile
PROPERTIES
  ZeroUntilMerged
  HeapCallsEnd
  ImplementsAllocator
CHECK_DEADLOCK FALSE
