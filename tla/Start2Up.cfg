SPECIFICATION MCSpec
CONSTANTS
  NDEV_PER_BUS = 2
  NFUN_PER_DEV = 2
  NPCIDEV = 6
  Topologies <- MCTopologies
  SPT = 2
  MAXC = 2
  MAXH = 3
  CWRAP = 8
  RETRIES = 2
  Contents = {0, 1, 2}
  Tables = {1, 2}
  Machines <- MCMachines
  Lbas = {0, 1, 3, 7, 8}
  MaxOps = 2
INVARIANTS
  TypeOK
  FoundOnce
  ListLinesUp
  OnlyOnController
  ProbedRight
  WritesInOrder
  ReadIsRight
PROPERTIES
  StartGetsOn
  WaitsEnd
CHECK_DEADLOCK FALSE
