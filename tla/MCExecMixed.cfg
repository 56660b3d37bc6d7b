SPECIFICATION Spec
CONSTANTS
  Node <- MCNode
  Trees <- MixedTrees
  MaxRedirections = 2
  PipeCap = 1
  FileUnits = 1
  MaxBody = 1
  ExitCodes <- MCExitCodes
  Faults = {}
INVARIANTS
  NoInternalError
