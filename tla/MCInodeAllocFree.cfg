CONSTANTS
  Groups = 2
  PerGroup = 4
  FirstIno = 3
  RootIno = 2
  BlockBits = 12
  MaxBlocks = 1

SPECIFICATION Spec

INVARIANTS
  LiveAreMarked

CHECK_DEADLOCK FALSE
