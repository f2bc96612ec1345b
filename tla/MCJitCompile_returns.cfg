SPECIFICATION Safety
CONSTANTS
  Workers = {1}
  ArenaWords = 44
  MaxBlockInstrs = 4
  CodeWords = 8
  Code <- MCCode
  MaxOffset = 48
INVARIANT BlocksReturn
CHECK_DEADLOCK FALSE
