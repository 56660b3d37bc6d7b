SPECIFICATION FairSpec
CONSTANTS
  Node <- MCNode
  Trees <- AllTrees
  MaxRedirections = 2
  PipeCap = 1
  FileUnits = 1
  MaxBody = 1
  ExitCodes <- MCExitCodes
  Faults = {}
INVARIANTS
  TypeOK
  NoEarlyEof
  NoEarlyBrokenPipe
  CleanPrompt
  IInv
PROPERTIES
  StatusOfLast
  LineEnds
