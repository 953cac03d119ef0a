SPECIFICATION Spec
CONSTANTS
  NDRIVES = 3
  NPARTS = 2
  ROWS = 3
  Disks <- MCDisks
PROPERTY BootsRootAlways
CHECK_DEADLOCK FALSE
