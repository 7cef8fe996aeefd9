SPECIFICATION FairSpec
CONSTANTS
  Names = {a, b}
  NoName = NoName
  MaxInodes = 3
  InodesPerSector = 2
  DirectBlocks = 2
  PointersPerBlock = 1
  DirentsPerBlock = 1
  SectorSize = 1
  MaxFileSize = 4
  TotalBlocks = 10
  BitsPerSector = 8
  Bytes = {0, 1, 2}
  Payloads <- TwoOnly
  Offsets = {2}
  TruncSizes = {0}
  CanCrash = TRUE
  MaxFaults = 2
  FaultyCalls = {"create", "unlink", "write", "truncate", "destroy"}
 
INVARIANT DirtyCovers
PROPERTY FlushDurable
