SPECIFICATION Safety
CONSTANTS
  Workers = {1, 2}
  ArenaWords = 44
  MaxBlockInstrs = 4
  CodeWords = 8
  Code <- MCCode
  MaxOffset = 56
INVARIANTS
  StoresAreReserved
  CachedBlocksEnd
PROPERTY CodeStays
CHECK_DEADLOCK FALSE
