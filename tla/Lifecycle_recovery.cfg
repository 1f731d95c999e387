SPECIFICATION FairSpec
CONSTANTS
  a = a
  x = x
  Endpoints = {a}
  External = {}
  Contents <- PauseA
  Invalid = invalid
  NoOne = nobody
  SkipInvalidConfigUpdate = TRUE
  DisableMonitoringLock = FALSE
  Persistent = FALSE
  QuietLoads = TRUE
  Signals = FALSE
  MaxEdits = 2
  MaxTime = 2
CHECK_DEADLOCK FALSE
PROPERTIES FileIsServed OldGoroutinesEnd
