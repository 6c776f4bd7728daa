CONSTANTS
  a = a
  b = b
  LastIno = 5
  FirstIno = 3
  Names = {a, b}
  SubName = a
  MaxLen = 5
  LinkMax = 3
  MaxFrees = 1
  Commands <- All

SPECIFICATION Spec

INVARIANTS
  MkdirMakesDirectory

CHECK_DEADLOCK FALSE
