SPECIFICATION SigFairSpec
CONSTANTS
  Node <- KeyNode
  Trees <- KeyTrees
  MaxRedirections = 2
  PipeCap = 1
  FileUnits = 1
  MaxBody = 1
  ExitCodes <- MCExitCodes
  Faults = {}
  MaxKeys = 1
INVARIANTS
  DispositionsOK
  IntactUnlessCut
PROPERTIES
  KeyStatus
  LineEnds
  InterruptEnds
