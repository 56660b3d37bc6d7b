SPECIFICATION Spec
CONSTANTS
  Node <- MCNode
  Trees <- FaultTrees
  MaxRedirections = 2
  PipeCap = 1
  FileUnits = 1
  MaxBody = 1
  ExitCodes <- MCExitCodes
  Faults = {"in", "out", "leak"}
INVARIANTS
  CleanPrompt
  IInv
