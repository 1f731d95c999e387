SPECIFICATION Spec
CONSTANTS
  N = 2
  Checksums = {"a", "b", "off"}
  Configs <- Edits
  AlertingConfigured = TRUE
  StoreFaults = TRUE
  CrashPhases <- AnyPhase
  MaxRestarts = 2
  CounterCap = 3
  AgeCap = 1
INVARIANTS RowsMatchIncidents MemoryMatchesIncidents
PROPERTIES NoDuplicateNotification CountedThresholds
