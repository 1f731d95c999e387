SPECIFICATION Spec
CONSTANTS
  Day = 2
  HourlyBuffer = 2
  Retention = 4
  AgeCleanUp = 5
  MergeThreshold = 8
  Pauses = {1, 9}
  PerHour = 1
  MaxTime = 40
  MaxFaults = 2
INVARIANTS DayWindowIsExact WindowsAreBracketed StatisticsAreExact EntriesAreBounded
CHECK_DEADLOCK FALSE
