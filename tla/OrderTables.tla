---------------------------- MODULE OrderTables ----------------------------
(***************************************************************************)
(* The two tables the order workflow lives in, sql_order and sql_task, and *)
(* the statements that OrderModel, SqlTaskModel and CommonModel send to    *)
(* them.  Every statement is autocommitted (ui/db/mysql.py opens no        *)
(* transaction and takes no lock), so one statement is one atomic step;    *)
(* everything a handler does between two statements can be interleaved.    *)
(*                                                                         *)
(* A table is modelled column by column: a column is a function over the   *)
(* AUTO_INCREMENT ids, "rows" holds the ids that exist now and "used" the  *)
(* ids ever handed out (an id is never handed out twice).  The columns no  *)
(* property depends on (who asked, where the statement runs, texts) are    *)
(* left out.                                                               *)
(***************************************************************************)
EXTENDS Naturals, FiniteSets

CONSTANTS
  OrderId,    \* the ids sql_order can hand out
  TaskId,     \* the ids sql_task can hand out
  Sql,        \* statement texts a user may submit
  NoSql,      \* the NULL of run_result_set
  NoOrder,    \* no order id in the request, or no order of a task
  NoTask      \* no task in the worker's hands

ASSUME NullsAssumption ==
  NoSql \notin Sql /\ NoOrder \notin OrderId /\ NoTask \notin TaskId

VARIABLES
  rows, used,    \* ids present in sql_order, ids ever inserted
  sqlText,       \* sql_order.sql
  status,        \* sql_order.order_status
  resultSet,     \* sql_order.run_result_set: the text whose run it records
  rollBackTimes, \* sql_order.roll_back_times
  taskOrder,     \* sql_task.order_id, NoOrder while the row does not exist
  execStatus     \* sql_task.exec_status

orderVars == <<rows, used, sqlText, status, resultSet, rollBackTimes>>
taskVars  == <<taskOrder, execStatus>>

ORDER_STATUS_NO_VIEW      == 0
ORDER_STATUS_AGREE_SUCCED == 1
ORDER_STATUS_AGREE_FAILED == 2
ORDER_STATUS_CANCEL       == 3
ORDER_STATUS_ASYNC_EXEC   == 4
ORDER_STATUS_NO_COMMIT    == 5
OrderStatus == 0 .. 5

EXEC_STATUS_TO_EXEC     == 0
EXEC_STATUS_EXEC_ING    == 1
EXEC_STATUS_EXEC_FINISH == 2
ExecStatus == 0 .. 2

TablesTypeOK ==
  /\ rows \subseteq used
  /\ used \subseteq OrderId
  /\ sqlText \in [OrderId -> Sql \cup {NoSql}]
  /\ \A o \in rows : sqlText[o] \in Sql
  /\ status \in [OrderId -> OrderStatus]
  /\ resultSet \in [OrderId -> Sql \cup {NoSql}]
  /\ rollBackTimes \in [OrderId -> Nat]
  /\ taskOrder \in [TaskId -> OrderId \cup {NoOrder}]
  /\ execStatus \in [TaskId -> ExecStatus]

TablesInit ==
  /\ rows = {} /\ used = {}
  /\ sqlText = [o \in OrderId |-> NoSql]
  /\ status = [o \in OrderId |-> ORDER_STATUS_NO_VIEW]
  /\ resultSet = [o \in OrderId |-> NoSql]
  /\ rollBackTimes = [o \in OrderId |-> 0]
  /\ taskOrder = [k \in TaskId |-> NoOrder]
  /\ execStatus = [k \in TaskId |-> EXEC_STATUS_TO_EXEC]

-----------------------------------------------------------------------------
(* sql_order *)

\* UPDATE sql_order SET col = v WHERE id = o: no effect on a deleted row.
Put(col, o, v) == IF o \in rows THEN [col EXCEPT ![o] = v] ELSE col

\* A variant of InsertOrder for mutation: the INSERT leaves the text column out.
InsertOrderNoText(o, s, st) ==
  /\ o \in OrderId \ used
  /\ rows' = rows \cup {o}
  /\ used' = used \cup {o}
  /\ status' = [status EXCEPT ![o] = st]
  /\ UNCHANGED <<sqlText, resultSet, rollBackTimes>>

\* OrderModel.save with id 0: INSERT, the remaining columns get their defaults.
InsertOrder(o, s, st) ==
  /\ o \in OrderId \ used
  /\ rows' = rows \cup {o}
  /\ used' = used \cup {o}
  /\ sqlText' = [sqlText EXCEPT ![o] = s]
  /\ status' = [status EXCEPT ![o] = st]
  /\ UNCHANGED <<resultSet, rollBackTimes>>

\* A variant of UpdateOrder for mutation: an edited order starts afresh.
UpdateOrderAfresh(o, s, st) ==
  /\ sqlText' = Put(sqlText, o, s)
  /\ status' = Put(status, o, st)
  /\ rollBackTimes' = Put(rollBackTimes, o, 0)
  /\ UNCHANGED <<rows, used, resultSet>>

\* OrderModel.save with an id: UPDATE of the text and of the status together.
UpdateOrder(o, s, st) ==
  /\ sqlText' = Put(sqlText, o, s)
  /\ status' = Put(status, o, st)
  /\ UNCHANGED <<rows, used, resultSet, rollBackTimes>>

SaveOrder(o, s, st) ==
  \/ o = NoOrder /\ \E new \in OrderId \ used : InsertOrder(new, s, st)
  \/ o # NoOrder /\ UpdateOrder(o, s, st)

SetOrderStatus(o, st) ==
  /\ status' = Put(status, o, st)
  /\ UNCHANGED <<rows, used, sqlText, resultSet, rollBackTimes>>

SetLatestExecResult(o, isSucced) ==
  SetOrderStatus(o, IF isSucced THEN ORDER_STATUS_AGREE_SUCCED
                                ELSE ORDER_STATUS_AGREE_FAILED)

SetToAsyncExecStatus(o) == SetOrderStatus(o, ORDER_STATUS_ASYNC_EXEC)

SaveRawResultSet(o, s) ==
  /\ resultSet' = Put(resultSet, o, s)
  /\ UNCHANGED <<rows, used, sqlText, status, rollBackTimes>>

SetRollBackTimes(o, n) ==
  /\ rollBackTimes' = Put(rollBackTimes, o, n)
  /\ UNCHANGED <<rows, used, sqlText, status, resultSet>>

DeleteOrder(o) ==
  /\ rows' = rows \ {o}
  /\ UNCHANGED <<used, sqlText, status, resultSet, rollBackTimes>>

-----------------------------------------------------------------------------
(* sql_task: rows are inserted and updated, never deleted *)

TasksOf(o) == {k \in TaskId : taskOrder[k] = o}

AddTask(k, o) ==
  /\ taskOrder[k] = NoOrder
  /\ taskOrder' = [taskOrder EXCEPT ![k] = o]
  /\ execStatus' = [execStatus EXCEPT ![k] = EXEC_STATUS_TO_EXEC]

UpdateExecStatus(k, st) ==
  /\ execStatus' = [execStatus EXCEPT ![k] = st]
  /\ UNCHANGED taskOrder

\* A variant of ToExec for mutation: the WHERE clause is forgotten.
ToExecAnyStatus == {k \in TaskId : taskOrder[k] # NoOrder}

\* getOneTask: WHERE exec_status = 0, in no stated order.
ToExec ==
  {k \in TaskId : taskOrder[k] # NoOrder /\ execStatus[k] = EXEC_STATUS_TO_EXEC}

\* First statement of resetAsync: WHERE order_id = o, whatever their state.
RearmTasks(o) ==
  /\ execStatus' = [k \in TaskId |-> IF taskOrder[k] = o THEN EXEC_STATUS_TO_EXEC
                                                         ELSE execStatus[k]]
  /\ UNCHANGED taskOrder
=============================================================================
