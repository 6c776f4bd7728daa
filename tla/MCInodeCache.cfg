CONSTANTS
  NumSlots = 2
  MaxHeld = 3
  Inos <- MCInos
  Vals <- MCVals
  MaxLinks = 1

SPECIFICATION Spec

INVARIANTS
  TypeOK
  TableExact
  SavedWhenClean
  SlotsSuffice

PROPERTIES
  HeldStaysPut
  ImplementsInodeStore
