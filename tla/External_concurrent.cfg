SPECIFICATION FairSpec
CONSTANTS
  Pushers = {p1}
  Heartbeat = hb
  HeartbeatEnabled = TRUE
  Interval = 1
  FailureThreshold = 2
  SuccessThreshold = 2
  MinimumReminderInterval = 1
  Maintenance = {TRUE, FALSE}
  Outcomes = {TRUE, FALSE}
  Faults = TRUE
  CounterCap = 2
INVARIANTS CountersMatchResults TriggeredAtThreshold AnnouncedOncePerHandler
PROPERTIES SilenceIsReported
