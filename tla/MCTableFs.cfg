SPECIFICATION Spec

CONSTANTS
  DEVFS_MAX_INODE = 3
  DeviceNames = {"null", "tty", "console"}
  Modes = {"chr"}
  RecordSize <- MCRecordSize
  DevfsBufSz = 3
  ifs_inode_table <- MCImage
  IfsRecordSize <- MCIfsRecordSize
  IfsBufSz = 3
  Processes = {p1, p2}
  Sizes = {2, 4}

INVARIANTS
  TypeOK
  ToldStaysTrue
  NothingMissed

PROPERTIES
  EveryJobEnds
