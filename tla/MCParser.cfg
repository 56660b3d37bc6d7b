SPECIFICATION Spec
CONSTANTS
  Node <- MCNode
  Lines <- MCLines
  TokenIds <- BothIds
INVARIANTS
  OneTokenLives
  TreeNeverCrashes
  BuiltTree
  TreeIsTheList
  RightIsLeaf
