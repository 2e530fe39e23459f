\* Violated: see the finding on AsyncWillReport.
SPECIFICATION Spec
CONSTANTS
  Web = {w1, w2}
  Verifier = verifier
  OrderId = {o1}
  TaskId = {k1}
  harmless = harmless
  flagged = flagged
  Sql <- MCSql
  FlaggedSql <- MCFlagged
  NoSql = NoSql
  NoOrder = NoOrder
  NoTask = NoTask
  SqlCheck = TRUE
  MaxRequests = 2
  MaxAborts = 0
INVARIANTS AsyncWillReport
\* Users may stop sending requests, and the request bound stops them.
CHECK_DEADLOCK FALSE
