SPECIFICATION IpcFairSpec
CONSTANTS
  Procs = {p1, p2}
  Ids = {i1, i2}
  MaxServers = 2
  InitialWords = {0, 1}
  LowWord = 2
INVARIANTS
  RegistryConsistent
  SendReachesServer
PROPERTY SendsReturn
CHECK_DEADLOCK FALSE
