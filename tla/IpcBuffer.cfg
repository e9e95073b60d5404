SPECIFICATION BufferFairSpec
CONSTANTS
  Senders = {s1, s2}
  PAGE_SIZE = 2
  NbPages = 2
  MessageSizes = {1, 2}
  ReadSizes = {2}
  MaxBytes = 3
  MaxPages = 3
  MaxRead = 4
INVARIANTS
  DeliveredInOrder
  
PROPERTIES
  ShortReadDrains
  
CHECK_DEADLOCK FALSE
