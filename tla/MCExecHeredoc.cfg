SPECIFICATION Spec
CONSTANTS
  Node <- MCNode
  Trees <- HeredocTrees
  MaxRedirections = 2
  PipeCap = 1
  FileUnits = 1
  MaxBody = 2
  ExitCodes <- MCExitCodes
  Faults = {}
INVARIANTS
  HeredocNeverStuck
