SPECIFICATION Spec
CONSTANTS
  Procs = {p}
  Passwords = {w, x}
  NoPassword = NoPassword
  SectorsPerMB = 4
  HeaderGap = 4
  FillChunk = 20
  BitsPerSector = 16
  InodeBlocks = 1
  ContainerSizes = {1, 8}
  HiddenSizes = {1, 2, 3}
  VolumeBlocks = {7}
  RawBlocks = {1, 15}
  Capacity = 32
  MaxKeys = 3
  MaxFaults = 2
  CanCrash = TRUE
INVARIANT ToldOpens
INVARIANT OpensOwnVolume
PROPERTY OuterKept
SYMMETRY PasswordSymmetry
