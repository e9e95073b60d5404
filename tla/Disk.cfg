SPECIFICATION DiskSpec
CONSTANTS
  SectorSize = 2
  BlockSize = 4
  PtrsPerBlock = 2
  DirectPtrs = 2
  InodeStruct = 2
  InodeSizes = {2, 3}
  InodesPerGroup = 2
  InodeTable <- MCInodeTable
  FileInodes <- MCFileInodes
  Pointers <- MCPointers
  NbSectors = 54
  MaxErrors = 4
  MaxLeaks = 2
INVARIANTS
  
  CopiesFit
  LeftBehind
PROPERTIES
  ReadEnds
CHECK_DEADLOCK FALSE
