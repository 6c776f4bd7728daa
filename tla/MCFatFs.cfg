\* CHECK_DEADLOCK FALSE: the handler dies when clearing runs into the next sector.
CONSTANTS
  cluster_cnt = 8
  ClusterSize = 2
  RootSlots = 3
  DirSlots = 3
  Volume <- MCVolume
  Names <- MCNames
  MaxSize = 6
  MaxRefs = 4
SPECIFICATION Spec
INVARIANTS
  TypeOK
  ChainsIntact
  NothingLeaks
  SizesBacked
CHECK_DEADLOCK FALSE
