SPECIFICATION Spec
CONSTANTS
  a = a
  x = x
  Endpoints = {a, x}
  External = {x}
  Contents <- DisableA
  Invalid = invalid
  NoOne = nobody
  SkipInvalidConfigUpdate = FALSE
  DisableMonitoringLock = FALSE
  Persistent = TRUE
  QuietLoads = FALSE
  Signals = TRUE
  MaxEdits = 2
  MaxTime = 2
CHECK_DEADLOCK FALSE
INVARIANTS TypeOK OneAtATime OnlyCurrentGoesOn NoGhosts
