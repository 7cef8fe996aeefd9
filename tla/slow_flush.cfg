SPECIFICATION Spec
CONSTANTS
  Threads = {t, u}
  Main = Main
  Names = {v}
  CoverFiles = {f}
  HiddenFiles = {f}
  Apart <- InTurn
  SwitchTimeouts = FALSE
  SlowFlush = TRUE
  NoSession = NoSession
  MaxSessions = 1
  MaxMounts = 2
INVARIANT FinishedComplete
SYMMETRY PageSymmetry
