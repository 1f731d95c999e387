SPECIFICATION FairSpec
CONSTANTS
  N = 2
  Checksums = {"a", "b"}
  Configs <- WithAndWithoutProvider
  AlertingConfigured = TRUE
  StoreFaults = TRUE
  CrashPhases <- AnyPhase
  MaxRestarts = 1
  CounterCap = 3
  AgeCap = 1
PROPERTIES UnhealthyIsReported HealthyIsSettled RemindersContinue
