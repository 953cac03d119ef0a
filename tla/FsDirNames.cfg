SPECIFICATION Spec
CONSTANTS
  nameA = nameA
  nameB = nameB
  nameL = nameL
  NINODES = 5
  NDIRENTS_PER_BLOCK = 2
  Names = {nameA, nameB}
  LongNames = {nameL}
  Paths <- MCPaths
INVARIANTS
  NoDanglingEntry
  NoDuplicateName
  LinksCounted
PROPERTIES
  CreatedIsFound
  NamesAreSafe
