SPECIFICATION Spec
CONSTANTS
  Alerts = {a1, a2}
  Overriding = a1
  Setups <- AllSetups
  SendOnResolved = TRUE
  PageSize = 2
  Faults = TRUE
  MaxKeys = 3
  MaxCrashes = 2
INVARIANTS OverridesTakeEffect RefusedForAReason NothingLeftOpen TriggeredIsOpen AtMostOneTicket
CHECK_DEADLOCK FALSE
