SPECIFICATION Spec
CONSTANTS
  Threads = {t, u, w}
  Main = Main
  Names = {v}
  CoverFiles = {f}
  HiddenFiles = {f}
  Apart <- InTurn
  SwitchTimeouts = FALSE
  SlowFlush = TRUE
  NoSession = NoSession
  MaxSessions = 2
  MaxMounts = 2
INVARIANT DashboardTypeOK
INVARIANT LockedIsUnmounted
INVARIANT OneProcessPerVault
INVARIANT ShutdownClean
PROPERTY VaultsKept
SYMMETRY PageSymmetry
