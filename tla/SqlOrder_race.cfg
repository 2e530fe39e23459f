\* Two requests at a time on one order, the worker and the verifier.
SPECIFICATION Spec
CONSTANTS
  Web = {w1, w2}
  Verifier = verifier
  OrderId = {o1}
  TaskId = {k1, k2}
  harmless = harmless
  flagged = flagged
  Sql <- MCSql
  FlaggedSql <- MCFlagged
  NoSql = NoSql
  NoOrder = NoOrder
  NoTask = NoTask
  SqlCheck = TRUE
  MaxRequests = 4
  MaxAborts = 0
SYMMETRY Symmetry
INVARIANTS TypeOK PendingWasChecked SuccessIsBacked RollbackUndoesARun
           RollbackCountIsHonest AsyncHasTask
PROPERTIES RollbackRecordSticks RunsAreArmedAndExclusive
\* Users may stop sending requests, and the request bound stops them.
CHECK_DEADLOCK FALSE
