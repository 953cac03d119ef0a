SPECIFICATION MkfsSpec
CONSTANTS
  SECTORS = 10
  startlba = 1
  nsectors = 8
  NBLOCKS_LOG = 1
  nblock_inode = 2
  NINODES_PER_BLOCK = 2
  Contents <- MCContents
  Names = {"a", "b", "c", "x"}
  Root = "/"
  Parent <- MCParent
  Hosts = {"h"}
  HostFiles <- MCHostFiles
  OldTree <- MCOldTree
  Word = 9
  BUFSZ = 2
  WriteArgs <- MCWriteArgs
  SZMIN <- MCSZMIN
  MaxFile = 4
  Outside = NoInode
  Room = 5
  MaxCmds = 3
INVARIANTS
  WritesInside
  FormattedIsEmpty
  MkfsTypeOK
  InodesMatch
  CopiesAreRight
PROPERTIES
  FilesSurvive
  CommandGetsOn
  CommandsEnd
CHECK_DEADLOCK FALSE
