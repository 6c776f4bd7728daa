CONSTANTS
  f1 = f1
  f2 = f2
  Files = {f1, f2}
  Groups = 2
  PerGroup = 5
  FirstBlock = 1
  System <- MCSystem
  NDir = 1
  Addr = 2
  Positions <- MCPositions
  MaxRestarts = 1

SPECIFICATION Spec

SYMMETRY MCSymmetry

INVARIANTS
  TypeOK
  OwnedOnce
  NothingLeaks
  CountsMatch

PROPERTIES
  ImplementsFileMap

CHECK_DEADLOCK FALSE
