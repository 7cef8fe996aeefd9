SPECIFICATION Spec
CONSTANTS
  Names = {a}
  NoName = NoName
  MaxInodes = 2
  InodesPerSector = 1
  DirectBlocks = 1
  PointersPerBlock = 2
  DirentsPerBlock = 2
  SectorSize = 1
  MaxFileSize = 7
  TotalBlocks = 11
  BitsPerSector = 8
  Bytes = {0, 1, 2}
  Payloads <- TwoBytes
  Offsets = {0, 2, 5}
  TruncSizes = {1, 4}
  CanCrash = FALSE
  MaxFaults = 0
  FaultyCalls = {}
INVARIANT RemountAlways
