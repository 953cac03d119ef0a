SPECIFICATION FilesSpec
CONSTANTS
  byteA = byteA
  byteB = byteB
  NINODES = 2
  NDIRECT = 1
  NINDRECT = 1
  NDINDRECT = 1
  BLOCKSIZE = 2
  sdata = 10
  nblock_dat = 9
  BITS = 4
  Data = {byteA, byteB}
  Stale = {0, 11}
  Offsets = {0, 1, 3, 6, 12, 20}
  Buffers <- MCBuffers
  ReadSizes = {3}
  MaxOps = 2
  MaxCrashes = 1
INVARIANTS
  TypeOK
  ReachableIsMarked
  NoSharedBlock
  NoLeak
  ShortWriteMeansNoRoom
  ReadFromData
  PastEndIsZero
PROPERTIES
  FilesAreSafe
  CallGetsOn
  EveryCallReturns
CHECK_DEADLOCK FALSE
