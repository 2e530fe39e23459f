\* Violated: see the finding on RolledBackAtMostOnce.
SPECIFICATION Spec
CONSTANTS
  Web = {w1, w2}
  Verifier = verifier
  OrderId = {o1}
  TaskId = {k1}
  harmless = harmless
  flagged = flagged
  Sql <- MCSql
  FlaggedSql <- MCFlagged
  NoSql = NoSql
  NoOrder = NoOrder
  NoTask = NoTask
  SqlCheck = TRUE
  MaxRequests = 4
  MaxAborts = 0
INVARIANTS RolledBackAtMostOnce
\* Users may stop sending requests, and the request bound stops them.
CHECK_DEADLOCK FALSE
