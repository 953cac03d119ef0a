SPECIFICATION Spec
CONSTANTS
  NDRIVES = 3
  NPARTS = 2
  ROWS = 3
  Disks <- MCDisks
INVARIANT RootNeverStops
PROPERTIES
  HighlightedIsBooted
  BootsRootAtOnce
CHECK_DEADLOCK FALSE
