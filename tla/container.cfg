SPECIFICATION Spec
CONSTANTS
  Procs = {p, q}
  Passwords = {w, x}
  NoPassword = NoPassword
  SectorsPerMB = 4
  HeaderGap = 4
  FillChunk = 20
  BitsPerSector = 16
  InodeBlocks = 1
  ContainerSizes = {1, 8}
  HiddenSizes = {1, 2, 3}
  VolumeBlocks = {7}
  RawBlocks = {15, 23}
  Capacity = 32
  MaxKeys = 3
  MaxFaults = 0
  CanCrash = FALSE
INVARIANT ContainerTypeOK
INVARIANT GuardNeverNeeded
PROPERTY OuterKept
PROPERTY HiddenKept
SYMMETRY Interchangeable
