SPECIFICATION Spec
CONSTANTS
  Name <- MCName
  Value <- MCValue
  Dir <- MCDir
  HOME = 4
  OLDPWD = 2
  PWD = 3
  Inherited <- MCInherited
  Args <- MCArgs
INVARIANTS
  TypeOK
  NoDuplicates
  SortInv
PROPERTIES
  Refines
