SPECIFICATION MCSpec
CONSTANTS
  Values <- MCBodies
  Paths <- MCPaths
  RepliesOf <- MCRepliesOf
  Endpoints <- MCEndpoints
  Expirations = {2}
  Statuses = {2, 5}
  Durations = {3}
  HoursADay = 4
  MinutesAnHour = 3
  Week = 3
CHECK_DEADLOCK FALSE
INVARIANTS PathsAreFollowed UnderMaintenanceMatches HealthyMeansConditionsHold HiddenPartsAreRedacted
