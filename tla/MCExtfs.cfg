CONSTANTS
  a = a
  b = b
  LastIno = 5
  FirstIno = 3
  Names = {a, b}
  SubName = a
  MaxLen = 5
  LinkMax = 3
  MaxFrees = 1
  Commands <- All

SPECIFICATION Spec

INVARIANTS
  TypeOK
  LinksMatchEntries

PROPERTIES
  RenameLosesNothing
  FailureChangesNoNames

CHECK_DEADLOCK FALSE
