SPECIFICATION FairSpec
CONSTANTS
  d1 = d1
  d2 = d2
  here = here
  c = c
  x = x
  Dir <- MCDir
  Cwd = here
  Name <- MCName
  Starts <- MCStarts
  Paths <- MCPaths
  MaxChanges = 2
INVARIANTS
  TypeOK
  RoomForAll
  Answer
  Leftmost
PROPERTIES
  SearchEnds
