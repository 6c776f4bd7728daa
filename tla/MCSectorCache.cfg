SPECIFICATION CacheSpec

CONSTANTS
  SectorIds <- MCSectorIds
  Buffers <- MCBuffers
  BUF_HASH_CNT = 2
  Offsets <- MCOffsets
  Bytes <- MCBytes
  Spans <- MCSpans
  Configs <- MCConfigs

INVARIANTS
  CacheTypeOK
  ListsExact
  DeviceLagsByDropped

PROPERTIES
  ImplementsSectors
