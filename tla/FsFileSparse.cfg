SPECIFICATION FilesSpec
CONSTANTS
  byteA = byteA
  byteB = byteB
  NINODES = 1
  NDIRECT = 1
  NINDRECT = 1
  NDINDRECT = 1
  BLOCKSIZE = 2
  sdata = 10
  nblock_dat = 8
  BITS = 4
  Data = {byteA, byteB}
  Stale = {0}
  Offsets = {0, 3, 4}
  Buffers <- MCBuffers
  ReadSizes = {3}
  MaxOps = 2
  MaxCrashes = 0
INVARIANT ReadAnywhere
CHECK_DEADLOCK FALSE
