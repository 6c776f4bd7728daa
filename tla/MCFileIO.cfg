SPECIFICATION Spec
CONSTANTS
  BlockSize = 2
  NumBlocks = 2
  Tags <- OneTag
INVARIANTS
  TypeOK
  HoldsWhatWasWritten
  ReadSendsFile
PROPERTIES
  ReadIsComplete
  EveryRequestEnds
