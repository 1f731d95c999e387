SPECIFICATION Spec
CONSTANTS
  N = 2
  Checksums = {"a", "b"}
  Configs <- OnlyApart
  AlertingConfigured = TRUE
  StoreFaults = FALSE
  CrashPhases <- AnyPhaseButPersist
  MaxRestarts = 2
  CounterCap = 3
  AgeCap = 1
PROPERTIES ImplementsIncidents
