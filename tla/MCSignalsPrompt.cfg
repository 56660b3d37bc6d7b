SPECIFICATION SigSpec
CONSTANTS
  Node <- KeyNode
  Trees <- QuietKeyTrees
  MaxRedirections = 2
  PipeCap = 1
  FileUnits = 1
  MaxBody = 1
  ExitCodes <- MCExitCodes
  Faults = {}
  MaxKeys = 1
INVARIANTS
  NewPrompt
