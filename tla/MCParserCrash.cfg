SPECIFICATION Spec
CONSTANTS
  Node <- MCNode
  Lines <- MCLines
  TokenIds <- CodeIds
INVARIANTS
  NoSegfault
