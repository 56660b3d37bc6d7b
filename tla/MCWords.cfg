SPECIFICATION FairSpec
CONSTANTS
  Char <- MCChar
  Letter <- MCLetter
  Digit <- MCDigit
  Lines <- MCLines
  Cap0 = 2
  Values <- MCValues
  ExitStatus <- MCExitStatus
CHECK_DEADLOCK FALSE
INVARIANTS
  TypeOK
  Partition
  Shapes
  MergeTouches
  Buffer
  FromLine
PROPERTIES
  Ends
