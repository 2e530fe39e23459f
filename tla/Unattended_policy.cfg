\* One thread, two orders with an instance each, a range over
\* midnight; no symmetry (liveness, ids are compared).
SPECIFICATION UFairSpec
CONSTANTS
  Web = {w1}
  Verifier = verifier
  OrderId <- MCOrders
  TaskId = {k1}
  i1 = i1
  i2 = i2
  Instance = {i1, i2}
  InsOf <- MCInsOf
  harmless = harmless
  flagged = flagged
  Sql <- MCSql
  FlaggedSql <- MCFlagged
  NoSql = NoSql
  NoOrder = NoOrder
  NoTask = NoTask
  NoRange = NoRange
  Hour <- MCHour
  Minute <- MCZero
  Second <- MCZero
  TimeRange <- MCNight
  SqlCheck = TRUE
  MaxRequests = 3
  MaxAborts = 3
  MaxEvents = 3
INVARIANTS UTypeOK AutoRunsArePaid SwitchOffStops MidnightRangeKept
INVARIANTS FlaggedNeedsAnEdit CutRunsWereHidden
PROPERTIES ImplementsSqlOrder WaitingIsServed DefunctIsCleared
\* Users owe nobody a request, and the bound on events stops them.
CHECK_DEADLOCK FALSE
