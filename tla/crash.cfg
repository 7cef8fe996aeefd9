SPECIFICATION HSpec
CONSTANTS
  Names = {a, b}
  NoName = NoName
  MaxInodes = 3
  InodesPerSector = 2
  DirectBlocks = 1
  PointersPerBlock = 2
  DirentsPerBlock = 2
  SectorSize = 1
  MaxFileSize = 3
  TotalBlocks = 9
  BitsPerSector = 7
  Bytes = {0, 1, 2}
  Payloads <- TwoOnly
  Offsets = {0, 1}
  TruncSizes = {0}
  CanCrash = TRUE
  MaxFaults = 1
  FaultyCalls = {"create", "unlink", "write", "destroy"}
INVARIANT AllocationExact
INVARIANT ListingTrue
 
