SPECIFICATION FairSpec
CONSTANTS
  Inputs <- MCInputs
  Delimiters <- MCDelimiters
  BufferSize = 2
  MaxDocs = 2
INVARIANTS
  TypeOK
  Queue
  WholeLines
  TerminalClean
PROPERTIES
  DocReturns
