SPECIFICATION Spec
CONSTANTS
  Names = {a, b}
  NoName = NoName
  MaxInodes = 3
  InodesPerSector = 2
  DirectBlocks = 1
  PointersPerBlock = 2
  DirentsPerBlock = 1
  SectorSize = 1
  MaxFileSize = 7
  TotalBlocks = 11
  BitsPerSector = 8
  Bytes = {0, 1, 2}
  Payloads <- TwoBytes
  Offsets = {0, 2, 4}
  TruncSizes = {1, 5, 8}
  CanCrash = FALSE
  MaxFaults = 0
  FaultyCalls = {}
 
INVARIANT UnmountedConsistent
INVARIANT TypeOK
 
SYMMETRY NameSymmetry
