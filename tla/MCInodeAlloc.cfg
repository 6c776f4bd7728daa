CONSTANTS
  Groups = 3
  PerGroup = 3
  FirstIno = 3
  RootIno = 2
  BlockBits = 12
  MaxBlocks = 1

SPECIFICATION Spec

INVARIANTS
  TypeOK
  CountsMatchBitmap
  DirSearchComplete

PROPERTIES
  NeverHandedOutTwice

CHECK_DEADLOCK FALSE
