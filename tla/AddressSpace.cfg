SPECIFICATION SpaceSpec
CONSTANTS
  NbProcs = 2
  ImagesOf <- MCImages
  PageSize = 3
  PagesPerTable = 4
  AddressMod = 45
  Base = 3
  HeapSize = 3
  StackSize = 3
  NbFrames = 22
  MaxOps = 3
INVARIANTS
  RegionsTile
  
  SectionsStay
  

  
CHECK_DEADLOCK FALSE
