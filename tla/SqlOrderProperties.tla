------------------------- MODULE SqlOrderProperties -------------------------
(***************************************************************************)
(* What the order workflow guarantees whatever the interleaving, and what  *)
(* its comments claim but its interleavings break.                         *)
(***************************************************************************)
EXTENDS SqlOrder

\* Types of the tables, of the actors' locals and of the history.
TypeOK ==
  /\ TablesTypeOK
  /\ thr \in [Thread -> [pc: WebPoint, order: OrderId \cup {NoOrder},
                         sql: Sql \cup {NoSql}, num: Nat]]
  /\ wrk \in [pc: WorkerPoint, task: TaskId \cup {NoTask}, sql: Sql \cup {NoSql}]
  /\ vetted \subseteq Sql
  /\ applied \in [OrderId -> SUBSET Sql]
  /\ reverted \in [OrderId -> Nat]
  /\ repaired \subseteq OrderId /\ rearmed \subseteq OrderId
  /\ arms \in [TaskId -> Nat] /\ starts \in [TaskId -> Nat]
  /\ dropped \subseteq TaskId
  /\ reqs \in Nat /\ aborts \in Nat

-----------------------------------------------------------------------------
(* Guarantees *)

\* An order that waits for approval carries a text that Inception found clean
\* (with SQL_CHECK on): only commit makes an order wait, and a save that was
\* let in before that commit and writes an unchecked text after it also takes
\* the order back to NO_COMMIT (mysql_change.py:144-147).
PendingWasChecked ==
  SqlCheck => \A o \in rows :
    status[o] = ORDER_STATUS_NO_VIEW => sqlText[o] \in vetted

\* AGREE_SUCCED is never a fiction: some text of the order took effect on the
\* target server, unless an operator declared it so through reset_succed.  The
\* status travels through save's re-read, two executors and the worker.
SuccessIsBacked ==
  \A o \in rows :
    status[o] = ORDER_STATUS_AGREE_SUCCED => applied[o] # {} \/ o \in repaired

\* What a rollback would undo was done: the saved result set, and the one a
\* rollback in progress read earlier, belong to a run of the same order.
RollbackUndoesARun ==
  /\ \A o \in rows : resultSet[o] # NoSql => resultSet[o] \in applied[o]
  /\ \A t \in Thread :
       At(t, "rollbackRun") => thr[t].sql \in applied[thr[t].order]

\* roll_back_times may miss rollbacks (read, add and write are three steps of
\* increaseRollbackTimes) but never counts one that did not happen.
RollbackCountIsHonest ==
  \A o \in rows : rollBackTimes[o] <= reverted[o]

\* Once a rollback is on record the record never goes back to zero, although
\* concurrent increments may overwrite each other: every later rollback
\* request is refused, also after the order was edited and run again.
RollbackRecordSticks ==
  [][\A o \in rows \cap rows' : rollBackTimes[o] > 0 => rollBackTimes'[o] > 0]_vars

\* An order shown as being executed in the background has a task in sql_task,
\* unless an operator's reset_async put it in that state.
AsyncHasTask ==
  \A o \in rows :
    status[o] = ORDER_STATUS_ASYNC_EXEC => TasksOf(o) # {} \/ o \in rearmed

\* sql_task and its consumer are an exclusive queue in which each arming of a
\* task pays for at most one run, across exceptions, restarts and resets.
Queue == INSTANCE JobQueue WITH
  Job    <- TaskId,
  NoJob  <- NoTask,
  credit <- [k \in TaskId |-> arms[k] - starts[k]],
  active <- IF wrk.pc \in {"idle", "picked", "taken"} THEN NoTask ELSE wrk.task

RunsAreArmedAndExclusive == Queue!Spec

\* A task waiting in sql_task is eventually finished, unless the worker lost it
\* while it held it (an exception, a deleted order, a restart).
QueuedTaskRetires ==
  \A k \in TaskId :
    k \in ToExec ~> execStatus[k] = EXEC_STATUS_EXEC_FINISH \/ k \in dropped

-----------------------------------------------------------------------------
(* Claims of the repository that do not hold *)

\* rollback.py:29: an order that was rolled back cannot be rolled back again.
RolledBackAtMostOnce == \A o \in OrderId : reverted[o] <= 1

\* sql_order.py:360: an order in the background queue will show its result
\* later, so some task of it is not finished yet.
AsyncWillReport ==
  \A o \in rows :
    status[o] = ORDER_STATUS_ASYNC_EXEC /\ o \notin rearmed =>
      \E k \in TasksOf(o) : execStatus[k] # EXEC_STATUS_EXEC_FINISH
=============================================================================
