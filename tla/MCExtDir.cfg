CONSTANTS
  a = a
  b = b
  c = c
  Names = {a, b, c}
  Need <- MCNeed
  Inos = {1}
  BlockSize = 6
  NumBlocks = 2
  UncheckedEnter = TRUE

SPECIFICATION Spec

INVARIANTS
  TypeOK
  WellFormed
  ScanMissesNothing

PROPERTIES
  ImplementsNameMap
