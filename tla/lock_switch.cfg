SPECIFICATION Spec
CONSTANTS
  Threads = {t, u}
  Main = Main
  Names = {v}
  CoverFiles = {f}
  HiddenFiles = {f}
  Apart <- LockDuringSwitch
  SwitchTimeouts = FALSE
  SlowFlush = FALSE
  NoSession = NoSession
  MaxSessions = 1
  MaxMounts = 2
INVARIANT LockedIsUnmounted
SYMMETRY PageSymmetry
