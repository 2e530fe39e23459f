\* Requests and worker rounds are cut short at any statement, the worker keeps running;
\* commits need no clean check; no symmetry (liveness).
SPECIFICATION FairSpec
CONSTANTS
  Web = {w1}
  Verifier = verifier
  OrderId = {o1}
  TaskId = {k1, k2}
  harmless = harmless
  flagged = flagged
  Sql <- MCOneSql
  FlaggedSql = {}
  NoSql = NoSql
  NoOrder = NoOrder
  NoTask = NoTask
  SqlCheck = FALSE
  MaxRequests = 3
  MaxAborts = 1
PROPERTY QueuedTaskRetires
\* Users may stop sending requests, and the request bound stops them.
CHECK_DEADLOCK FALSE
