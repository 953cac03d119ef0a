SPECIFICATION Spec
CONSTANTS
  SECTORS = 10
  startlba = 1
  nsectors = 8
  NBLOCKS_LOG = 1
  nblock_inode = 2
  NINODES_PER_BLOCK = 2
  Contents <- MCForeign
INVARIANT PartitionIsZeroed
CHECK_DEADLOCK FALSE
