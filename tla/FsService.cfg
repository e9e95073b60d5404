SPECIFICATION FsSpec
CONSTANTS
  Procs = {p1, p2}
  Ids = {i1, i2}
  TimeId = i1
  Inodes = {1, 2, 3, 4, 5, 6}
  RootInode = 1
  Entries <- MCEntries
  Paths <- MCPaths
  ShareModes = {"read", "write"}
  None = None
  MaxProcesses = 2
  MaxFiles = 2
INVARIANTS
  
  AnswersReachRequester
  SoleWhenNotShared
  PriorityRestored
CHECK_DEADLOCK FALSE
