SPECIFICATION FairSpec
CONSTANTS
  Threads = {t, u}
  Main = Main
  Names = {v}
  CoverFiles = {f}
  HiddenFiles = {f, g}
  Apart <- InTurn
  SwitchTimeouts = TRUE
  SlowFlush = FALSE
  NoSession = NoSession
  MaxSessions = 1
  MaxMounts = 3
INVARIANT FinishedComplete
INVARIANT OnlyThroughMount
PROPERTY ReservationEnds
