--------------------------- MODULE SqlOrderProofs ---------------------------
(***************************************************************************)
(* Machine-checked proofs about SqlOrder, for every set of orders, tasks,  *)
(* threads and texts and every bound.                                      *)
(***************************************************************************)
EXTENDS SqlOrderProperties, TLAPS

USE NullsAssumption, OrderAssumption
USE DEF ORDER_STATUS_NO_VIEW, ORDER_STATUS_AGREE_SUCCED, ORDER_STATUS_AGREE_FAILED,
        ORDER_STATUS_CANCEL, ORDER_STATUS_ASYNC_EXEC, ORDER_STATUS_NO_COMMIT,
        OrderStatus, EXEC_STATUS_TO_EXEC, EXEC_STATUS_EXEC_ING,
        EXEC_STATUS_EXEC_FINISH, ExecStatus

\* The points at which a thread holds the id of an order, and a text.
HoldsOrder == {"saveRead", "verifyPost", "execCheck", "execRun", "execOk",
               "execErr", "execSave", "addTask", "setAsync", "rollbackRun",
               "rollbackLoad", "rollbackWrite", "resetOrder"}
HoldsSql == {"saveRead", "saveWrite", "commitCheck", "commitWrite", "execCheck",
             "execRun", "execOk", "execErr", "execSave", "addTask", "setAsync",
             "rollbackRun"}

\* What the locals of the actors are at each program point; TypeOK alone is not
\* inductive, because a write puts a thread's locals into the tables.
LocalsOK ==
  /\ \A t \in Thread :
       /\ thr[t].pc \in HoldsOrder => thr[t].order \in OrderId
       /\ thr[t].pc \in HoldsSql => thr[t].sql \in Sql
       /\ thr[t].pc = "saveWrite" => thr[t].num \in OrderStatus
  /\ wrk.pc # "idle" => wrk.task \in TaskId /\ taskOrder[wrk.task] \in OrderId
  /\ wrk.pc \notin {"idle", "picked", "taken"} => wrk.sql \in Sql

TypeInv == TypeOK /\ LocalsOK

\* The initial state is well-typed.
LEMMA InitType == Init => TypeInv
  BY SMTT(30) DEF Init, TablesInit, Idle, WorkerIdle, TypeInv, TypeOK, TablesTypeOK, LocalsOK,
         WebPoint, WorkerPoint, HoldsOrder, HoldsSql, Thread

\* A save leaves the tables well-typed, for a new order and for an old one.
LEMMA SaveOrderType ==
  ASSUME TablesTypeOK, UNCHANGED taskVars,
         NEW o \in OrderId \cup {NoOrder}, NEW s \in Sql, NEW st \in OrderStatus,
         SaveOrder(o, s, st)
  PROVE  TablesTypeOK'
  <1>1. CASE o # NoOrder
    BY <1>1 DEF SaveOrder, UpdateOrder, Put, TablesTypeOK, taskVars
  <1>2. ASSUME NEW new \in OrderId \ used, InsertOrder(new, s, st)
        PROVE  TablesTypeOK'
    BY <1>2 DEF InsertOrder, TablesTypeOK, taskVars
  <1>3. QED
    BY <1>1, <1>2 DEF SaveOrder

\* Every step keeps the types.
LEMMA StepType == TypeInv /\ [Next]_vars => TypeInv'
  <1> SUFFICES ASSUME TypeInv, [Next]_vars PROVE TypeInv'
    OBVIOUS
  <1> USE DEF TypeInv, TypeOK, TablesTypeOK, LocalsOK, WebPoint, WorkerPoint,
              HoldsOrder, HoldsSql, Thread, Idle, WorkerIdle, At, Goto, Reply,
              orderVars, taskVars, evidVars, jobVars, boundVars, Accept
  <1>1. ASSUME NEW t \in Web, NEW o \in used \cup {NoOrder}, NEW s \in Sql,
               SaveBegin(t, o, s)
        PROVE  TypeInv'
    BY <1>1 DEF SaveBegin, AcceptOn, CheckPermission
  <1>2. ASSUME NEW t \in Web, NEW o \in used \cup {NoOrder}, NEW s \in Sql,
               CommitBegin(t, o, s)
        PROVE  TypeInv'
    BY <1>2 DEF CommitBegin, AcceptOn, CheckPermission
  <1>3. ASSUME NEW t \in Web, NEW o \in used, ExecuteBegin(t, o)
        PROVE  TypeInv'
    BY <1>3 DEF ExecuteBegin, AcceptOn, LoadOrder
  <1>4. ASSUME NEW t \in Web, NEW o \in used, RollbackBegin(t, o)
        PROVE  TypeInv'
    BY <1>4 DEF RollbackBegin, AcceptOn
  <1>5. ASSUME NEW t \in Web, NEW o \in used, ResetAsyncBegin(t, o)
        PROVE  TypeInv'
    BY <1>5 DEF ResetAsyncBegin, AcceptOn, RearmTasks
  <1>6. ASSUME NEW o \in used, Cancel(o)
        PROVE  TypeInv'
    BY <1>6 DEF Cancel, Accept, SetOrderStatus, Put
  <1>7. ASSUME NEW o \in used, Delete(o)
        PROVE  TypeInv'
    BY <1>7 DEF Delete, Accept, DeleteOrder
  <1>8. ASSUME NEW o \in used, ResetSucced(o)
        PROVE  TypeInv'
    BY <1>8 DEF ResetSucced, Accept, SetOrderStatus, Put
  <1>9. ASSUME NEW t \in Thread, SaveRead(t)
        PROVE  TypeInv'
    BY <1>9 DEF SaveRead, SavedStatus
  <1>10. ASSUME NEW t \in Thread, SaveWrite(t)
        PROVE  TypeInv'
    <2>1. TablesTypeOK'
      BY <1>10, SaveOrderType DEF SaveWrite
    <2>2. QED
      BY <1>10, <2>1 DEF SaveWrite
  <1>11. ASSUME NEW t \in Thread, CommitCheck(t)
        PROVE  TypeInv'
    BY <1>11 DEF CommitCheck, Step
  <1>12. ASSUME NEW t \in Thread, CommitWrite(t)
        PROVE  TypeInv'
    <2>1. TablesTypeOK'
      BY <1>12, SaveOrderType DEF CommitWrite
    <2>2. QED
      BY <1>12, <2>1 DEF CommitWrite
  <1>13. ASSUME NEW t \in Thread, ExecuteCheck(t)
        PROVE  TypeInv'
    BY <1>13 DEF ExecuteCheck, Step, BigOrderPoint, SetLatestExecResult, SetOrderStatus, Put
  <1>14. ASSUME NEW t \in Thread, ExecuteAddTask(t)
        PROVE  TypeInv'
    BY <1>14 DEF ExecuteAddTask, Step, AddTask
  <1>15. ASSUME NEW t \in Thread, ExecuteSetAsync(t)
        PROVE  TypeInv'
    BY <1>15 DEF ExecuteSetAsync, SetToAsyncExecStatus, SetOrderStatus, Put
  <1>16. ASSUME NEW t \in Thread, ExecuteRun(t)
        PROVE  TypeInv'
    BY <1>16 DEF ExecuteRun, Apply, Step, AfterRun
  <1>17. ASSUME NEW t \in Thread, ExecuteReport(t)
        PROVE  TypeInv'
    <2>1. TablesTypeOK'
      BY <1>17 DEF ExecuteReport, SetLatestExecResult, SetOrderStatus, Put
    <2>2. CASE At(t, "execOk") /\ Step(t, "execSave")
      BY <1>17, <2>1, <2>2 DEF ExecuteReport, Step
    <2>3. CASE At(t, "execErr") /\ Reply(t)
      BY <1>17, <2>1, <2>3 DEF ExecuteReport
    <2>4. QED
      BY <1>17, <2>2, <2>3 DEF ExecuteReport
  <1>18. ASSUME NEW t \in Thread, ExecuteSave(t)
        PROVE  TypeInv'
    BY <1>18 DEF ExecuteSave, SaveRawResultSet, Put
  <1>19. ASSUME NEW t \in Thread, RollbackRun(t)
        PROVE  TypeInv'
    BY <1>19 DEF RollbackRun, AfterRollback, Step
  <1>20. ASSUME NEW t \in Thread, RollbackLoad(t)
        PROVE  TypeInv'
    BY <1>20 DEF RollbackLoad
  <1>21. ASSUME NEW t \in Thread, RollbackWrite(t)
        PROVE  TypeInv'
    BY <1>21 DEF RollbackWrite, SetRollBackTimes, Put
  <1>22. ASSUME NEW t \in Thread, ResetAsyncOrder(t)
        PROVE  TypeInv'
    BY <1>22 DEF ResetAsyncOrder, SetToAsyncExecStatus, SetOrderStatus, Put
  <1>23. ASSUME NEW t \in Thread, Abort(t)
        PROVE  TypeInv'
    BY <1>23 DEF Abort
  <1>24. CASE VerifyPick
    BY <1>24 DEF VerifyPick, ToVerify
  <1>25. CASE VerifyPost
    BY <1>25 DEF VerifyPost, LoadOrder
  <1>26. CASE WorkerPick
    BY <1>26 DEF WorkerPick, ToExec
  <1>27. CASE WorkerTake
    BY <1>27 DEF WorkerTake, UpdateExecStatus, WorkerGoto
  <1>28. CASE WorkerLoad
    <2>1. wrk.task \in TaskId /\ taskOrder[wrk.task] \in OrderId
      BY <1>28 DEF WorkerLoad
    <2>2. CASE taskOrder[wrk.task] \in rows
      <3>1. wrk' = [wrk EXCEPT !.pc = "running", !.sql = sqlText[taskOrder[wrk.task]]]
            /\ sqlText[taskOrder[wrk.task]] \in Sql
        BY <1>28, <2>1, <2>2 DEF WorkerLoad
      <3>2. starts' \in [TaskId -> Nat] /\ dropped' = dropped
        BY <1>28, <2>1, <2>2 DEF WorkerLoad
      <3>3. QED
        BY <1>28, <2>1, <3>1, <3>2 DEF WorkerLoad
    <2>3. CASE taskOrder[wrk.task] \notin rows
      BY <1>28, <2>1, <2>3 DEF WorkerLoad
    <2>4. QED
      BY <2>2, <2>3
  <1>29. CASE WorkerRun
    <2>1. wrk' \in {[wrk EXCEPT !.pc = "save"], [wrk EXCEPT !.pc = "failed"]}
      BY <1>29 DEF WorkerRun, WorkerGoto, AfterTaskRun
    <2>2. applied' \in [OrderId -> SUBSET Sql]
      BY <1>29 DEF WorkerRun, Apply
    <2>3. QED
      BY <1>29, <2>1, <2>2 DEF WorkerRun, Apply
  <1>30. CASE WorkerSave
    BY <1>30 DEF WorkerSave, SaveRawResultSet, Put, WorkerGoto
  <1>31. CASE WorkerReport
    BY <1>31 DEF WorkerReport, SetLatestExecResult, SetOrderStatus, Put, WorkerGoto
  <1>32. CASE WorkerFinish
    BY <1>32 DEF WorkerFinish, UpdateExecStatus, FinishStatus
  <1>33. CASE WorkerAbort
    BY <1>33 DEF WorkerAbort
  <1>34. CASE UNCHANGED vars
    BY <1>34 DEF vars, orderVars, taskVars, evidVars, jobVars, boundVars
  <1>35. QED
    BY <1>1, <1>2, <1>3, <1>4, <1>5, <1>6, <1>7, <1>8, <1>9, <1>10, <1>11, <1>12, <1>13, <1>14, <1>15, <1>16, <1>17, <1>18, <1>19, <1>20, <1>21, <1>22, <1>23, <1>24, <1>25, <1>26, <1>27, <1>28, <1>29, <1>30, <1>31, <1>32, <1>33, <1>34 DEF Next, Request, Continue,
       VerifierStep, WorkerStep
\* Every order, task and local always has its type (TypeOK), and the locals
\* hold what the program point promises.
THEOREM TypeCorrect == Spec => []TypeInv
  BY InitType, StepType, PTL DEF Spec

\* SqlOrder is type-correct for every instance.
THEOREM TypeSafe == Spec => []TypeOK
  BY TypeCorrect, PTL DEF TypeInv

-----------------------------------------------------------------------------
(* The evidence behind a status: EvidenceInv adds to the four properties of *)
(* the order what each actor carries between the statement that read or     *)
(* produced a fact and the one that writes it down.                         *)

Backed(o) == applied[o] # {} \/ o \in repaired

Queued(o) == TasksOf(o) # {} \/ o \in rearmed

\* A text about to be committed was checked; a save never restores NO_VIEW.
PendingInv ==
  /\ SqlCheck => \A o \in rows :
       status[o] = ORDER_STATUS_NO_VIEW => sqlText[o] \in vetted
  /\ SqlCheck => \A t \in Thread :
       thr[t].pc = "commitWrite" => thr[t].sql \in vetted
  /\ \A t \in Thread : thr[t].pc = "saveWrite" => thr[t].num # ORDER_STATUS_NO_VIEW

\* A result set on its way to the table is the one of a run that took effect.
ResultInv ==
  /\ \A o \in OrderId : resultSet[o] # NoSql => resultSet[o] \in applied[o]
  /\ \A t \in Thread :
       thr[t].pc \in {"execOk", "execSave", "rollbackRun"} =>
         thr[t].sql \in applied[thr[t].order]
  /\ wrk.pc = "save" => wrk.sql \in applied[taskOrder[wrk.task]]

\* A success about to be written is backed, also when save read it earlier.
SuccessInv ==
  /\ \A o \in OrderId : status[o] = ORDER_STATUS_AGREE_SUCCED => Backed(o)
  /\ \A t \in Thread :
       thr[t].pc = "saveWrite" /\ thr[t].num = ORDER_STATUS_AGREE_SUCCED =>
         thr[t].order \in OrderId /\ Backed(thr[t].order)
  /\ wrk.pc \in {"save", "ok"} => Backed(taskOrder[wrk.task])

\* An ASYNC_EXEC about to be written has its task, or its operator.
AsyncInv ==
  /\ \A o \in OrderId : status[o] = ORDER_STATUS_ASYNC_EXEC => Queued(o)
  /\ \A t \in Thread :
       /\ thr[t].pc = "saveWrite" /\ thr[t].num = ORDER_STATUS_ASYNC_EXEC =>
            thr[t].order \in OrderId /\ Queued(thr[t].order)
       /\ thr[t].pc \in {"setAsync", "resetOrder"} => Queued(thr[t].order)

EvidenceInv == PendingInv /\ ResultInv /\ SuccessInv /\ AsyncInv

\* Initially there is nothing to vouch for.
LEMMA EvidenceInit == Init => EvidenceInv
  BY DEF Init, TablesInit, Idle, WorkerIdle, EvidenceInv, PendingInv, ResultInv,
         SuccessInv, AsyncInv

\* A waiting order keeps a checked text over every step.
LEMMA PendingStep == TypeInv /\ PendingInv /\ [Next]_vars => PendingInv'
  <1> SUFFICES ASSUME TypeInv, PendingInv, [Next]_vars PROVE PendingInv'
    OBVIOUS
  <1> USE DEF TypeInv, TypeOK, TablesTypeOK, LocalsOK, WebPoint, WorkerPoint,
              HoldsOrder, HoldsSql, Thread, Idle, WorkerIdle, At, Goto, Reply,
              orderVars, taskVars, evidVars, jobVars, boundVars, Accept, PendingInv
  <1>1. ASSUME NEW t \in Web, Request(t)
        PROVE  PendingInv'
    BY SMTT(30), <1>1 DEF Request, SaveBegin, AcceptOn, CheckPermission,
       CommitBegin, ExecuteBegin, LoadOrder, RollbackBegin, ResetAsyncBegin,
       RearmTasks
  <1>2. ASSUME NEW o \in used, Cancel(o) \/ Delete(o) \/ ResetSucced(o)
        PROVE  PendingInv'
    BY SMTT(30), <1>2 DEF Cancel, Accept, SetOrderStatus, Put, Delete,
       DeleteOrder, ResetSucced
  <1>3. ASSUME NEW t \in Thread, SaveRead(t) \/ SaveWrite(t)
        PROVE  PendingInv'
    BY SMTT(30), <1>3 DEF SaveRead, SavedStatus, SaveWrite, SaveOrder,
       InsertOrder, UpdateOrder, Put
  <1>4. ASSUME NEW t \in Thread, CommitCheck(t) \/ CommitWrite(t)
        PROVE  PendingInv'
    BY SMTT(30), <1>4 DEF CommitCheck, Step, CommitWrite, SaveOrder,
       InsertOrder, UpdateOrder, Put
  <1>5. ASSUME NEW t \in Thread, ExecuteCheck(t)
        PROVE  PendingInv'
    BY SMTT(30), <1>5 DEF ExecuteCheck, Step, BigOrderPoint,
       SetLatestExecResult, SetOrderStatus, Put
  <1>6. ASSUME NEW t \in Thread, ExecuteAddTask(t) \/ ExecuteSetAsync(t)
        PROVE  PendingInv'
    BY SMTT(30), <1>6 DEF ExecuteAddTask, Step, AddTask, ExecuteSetAsync,
       SetToAsyncExecStatus, SetOrderStatus, Put
  <1>7. ASSUME NEW t \in Thread, ExecuteRun(t) \/ ExecuteReport(t) \/ ExecuteSave(t)
        PROVE  PendingInv'
    BY SMTT(30), <1>7 DEF ExecuteRun, Apply, Step, AfterRun, ExecuteReport,
       SetLatestExecResult, SetOrderStatus, Put, ExecuteSave, SaveRawResultSet
  <1>8. ASSUME NEW t \in Thread, RollbackRun(t) \/ RollbackLoad(t) \/ RollbackWrite(t)
        PROVE  PendingInv'
    BY SMTT(30), <1>8 DEF RollbackRun, AfterRollback, Step, RollbackLoad,
       RollbackWrite, SetRollBackTimes, Put
  <1>9. ASSUME NEW t \in Thread, ResetAsyncOrder(t) \/ Abort(t)
        PROVE  PendingInv'
    BY SMTT(30), <1>9 DEF ResetAsyncOrder, SetToAsyncExecStatus,
       SetOrderStatus, Put, Abort
  <1>10. CASE VerifierStep
    BY SMTT(30), <1>10 DEF VerifierStep, VerifyPick, ToVerify, VerifyPost,
       LoadOrder
  <1>11. CASE WorkerPick \/ WorkerTake
    BY SMTT(30), <1>11 DEF WorkerPick, ToExec, WorkerTake, UpdateExecStatus,
       WorkerGoto
  <1>12. CASE WorkerLoad
    BY SMTT(30), <1>12 DEF WorkerLoad
  <1>13. CASE WorkerRun
    BY SMTT(30), <1>13 DEF WorkerRun, Apply, WorkerGoto, AfterTaskRun
  <1>14. CASE WorkerSave \/ WorkerReport
    BY SMTT(30), <1>14 DEF WorkerSave, SaveRawResultSet, Put, WorkerGoto,
       WorkerReport, SetLatestExecResult, SetOrderStatus
  <1>15. CASE WorkerFinish \/ WorkerAbort
    BY SMTT(30), <1>15 DEF WorkerFinish, UpdateExecStatus, FinishStatus,
       WorkerAbort
  <1>16. CASE UNCHANGED vars
    BY SMTT(30), <1>16 DEF vars
  <1>17. QED
    BY <1>1, <1>2, <1>3, <1>4, <1>5, <1>6, <1>7, <1>8, <1>9, <1>10, <1>11,
       <1>12, <1>13, <1>14, <1>15, <1>16 DEF Next, Continue, WorkerStep

\* A saved result set stays the one of a run over every step.
LEMMA ResultStep == TypeInv /\ ResultInv /\ [Next]_vars => ResultInv'
  <1> SUFFICES ASSUME TypeInv, ResultInv, [Next]_vars PROVE ResultInv'
    OBVIOUS
  <1> USE DEF TypeInv, TypeOK, TablesTypeOK, LocalsOK, WebPoint, WorkerPoint,
              HoldsOrder, HoldsSql, Thread, Idle, WorkerIdle, At, Goto, Reply,
              orderVars, taskVars, evidVars, jobVars, boundVars, Accept, ResultInv
  <1>1. ASSUME NEW t \in Web, Request(t)
        PROVE  ResultInv'
    BY SMTT(30), <1>1 DEF Request, SaveBegin, AcceptOn, CheckPermission,
       CommitBegin, ExecuteBegin, LoadOrder, RollbackBegin, ResetAsyncBegin,
       RearmTasks
  <1>2. ASSUME NEW o \in used, Cancel(o) \/ Delete(o) \/ ResetSucced(o)
        PROVE  ResultInv'
    BY SMTT(30), <1>2 DEF Cancel, Accept, SetOrderStatus, Put, Delete,
       DeleteOrder, ResetSucced
  <1>3. ASSUME NEW t \in Thread, SaveRead(t) \/ SaveWrite(t)
        PROVE  ResultInv'
    BY SMTT(30), <1>3 DEF SaveRead, SavedStatus, SaveWrite, SaveOrder,
       InsertOrder, UpdateOrder, Put
  <1>4. ASSUME NEW t \in Thread, CommitCheck(t) \/ CommitWrite(t)
        PROVE  ResultInv'
    BY SMTT(30), <1>4 DEF CommitCheck, Step, CommitWrite, SaveOrder,
       InsertOrder, UpdateOrder, Put
  <1>5. ASSUME NEW t \in Thread, ExecuteCheck(t)
        PROVE  ResultInv'
    BY SMTT(30), <1>5 DEF ExecuteCheck, Step, BigOrderPoint,
       SetLatestExecResult, SetOrderStatus, Put
  <1>6. ASSUME NEW t \in Thread, ExecuteAddTask(t) \/ ExecuteSetAsync(t)
        PROVE  ResultInv'
    BY SMTT(30), <1>6 DEF ExecuteAddTask, Step, AddTask, ExecuteSetAsync,
       SetToAsyncExecStatus, SetOrderStatus, Put
  <1>7. ASSUME NEW t \in Thread, ExecuteRun(t) \/ ExecuteReport(t) \/ ExecuteSave(t)
        PROVE  ResultInv'
    BY SMTT(30), <1>7 DEF ExecuteRun, Apply, Step, AfterRun, ExecuteReport,
       SetLatestExecResult, SetOrderStatus, Put, ExecuteSave, SaveRawResultSet
  <1>8. ASSUME NEW t \in Thread, RollbackRun(t) \/ RollbackLoad(t) \/ RollbackWrite(t)
        PROVE  ResultInv'
    BY SMTT(30), <1>8 DEF RollbackRun, AfterRollback, Step, RollbackLoad,
       RollbackWrite, SetRollBackTimes, Put
  <1>9. ASSUME NEW t \in Thread, ResetAsyncOrder(t) \/ Abort(t)
        PROVE  ResultInv'
    BY SMTT(30), <1>9 DEF ResetAsyncOrder, SetToAsyncExecStatus,
       SetOrderStatus, Put, Abort
  <1>10. CASE VerifierStep
    BY SMTT(30), <1>10 DEF VerifierStep, VerifyPick, ToVerify, VerifyPost,
       LoadOrder
  <1>11. CASE WorkerPick \/ WorkerTake
    BY SMTT(30), <1>11 DEF WorkerPick, ToExec, WorkerTake, UpdateExecStatus,
       WorkerGoto
  <1>12. CASE WorkerLoad
    <2>1. UNCHANGED <<orderVars, taskVars, thr, evidVars>>
      BY <1>12 DEF WorkerLoad
    <2>2. wrk'.pc \in {"running", "idle"}
      <3>1. CASE taskOrder[wrk.task] \in rows
        BY <1>12, <3>1 DEF WorkerLoad
      <3>2. CASE taskOrder[wrk.task] \notin rows
        BY <1>12, <3>2 DEF WorkerLoad
      <3>3. QED
        BY <3>1, <3>2
    <2>3. QED
      BY <2>1, <2>2
  <1>13. CASE WorkerRun
    BY SMTT(30), <1>13 DEF WorkerRun, Apply, WorkerGoto, AfterTaskRun
  <1>14. CASE WorkerSave \/ WorkerReport
    BY SMTT(30), <1>14 DEF WorkerSave, SaveRawResultSet, Put, WorkerGoto,
       WorkerReport, SetLatestExecResult, SetOrderStatus
  <1>15. CASE WorkerFinish \/ WorkerAbort
    BY SMTT(30), <1>15 DEF WorkerFinish, UpdateExecStatus, FinishStatus,
       WorkerAbort
  <1>16. CASE UNCHANGED vars
    BY SMTT(30), <1>16 DEF vars
  <1>17. QED
    BY <1>1, <1>2, <1>3, <1>4, <1>5, <1>6, <1>7, <1>8, <1>9, <1>10, <1>11,
       <1>12, <1>13, <1>14, <1>15, <1>16 DEF Next, Continue, WorkerStep

\* A success stays backed over every step.
LEMMA SuccessStep == TypeInv /\ ResultInv /\ SuccessInv /\ [Next]_vars => SuccessInv'
  <1> SUFFICES ASSUME TypeInv, ResultInv, SuccessInv, [Next]_vars PROVE SuccessInv'
    OBVIOUS
  <1> USE DEF TypeInv, TypeOK, TablesTypeOK, LocalsOK, WebPoint, WorkerPoint,
              HoldsOrder, HoldsSql, Thread, Idle, WorkerIdle, At, Goto, Reply,
              orderVars, taskVars, evidVars, jobVars, boundVars, Accept, ResultInv, SuccessInv, Backed
  <1>1. ASSUME NEW t \in Web, Request(t)
        PROVE  SuccessInv'
    BY SMTT(30), <1>1 DEF Request, SaveBegin, AcceptOn, CheckPermission,
       CommitBegin, ExecuteBegin, LoadOrder, RollbackBegin, ResetAsyncBegin,
       RearmTasks
  <1>2. ASSUME NEW o \in used, Cancel(o) \/ Delete(o) \/ ResetSucced(o)
        PROVE  SuccessInv'
    BY SMTT(30), <1>2 DEF Cancel, Accept, SetOrderStatus, Put, Delete,
       DeleteOrder, ResetSucced
  <1>3. ASSUME NEW t \in Thread, SaveRead(t) \/ SaveWrite(t)
        PROVE  SuccessInv'
    BY SMTT(30), <1>3 DEF SaveRead, SavedStatus, SaveWrite, SaveOrder,
       InsertOrder, UpdateOrder, Put
  <1>4. ASSUME NEW t \in Thread, CommitCheck(t) \/ CommitWrite(t)
        PROVE  SuccessInv'
    BY SMTT(30), <1>4 DEF CommitCheck, Step, CommitWrite, SaveOrder,
       InsertOrder, UpdateOrder, Put
  <1>5. ASSUME NEW t \in Thread, ExecuteCheck(t)
        PROVE  SuccessInv'
    BY SMTT(30), <1>5 DEF ExecuteCheck, Step, BigOrderPoint,
       SetLatestExecResult, SetOrderStatus, Put
  <1>6. ASSUME NEW t \in Thread, ExecuteAddTask(t) \/ ExecuteSetAsync(t)
        PROVE  SuccessInv'
    BY SMTT(30), <1>6 DEF ExecuteAddTask, Step, AddTask, ExecuteSetAsync,
       SetToAsyncExecStatus, SetOrderStatus, Put
  <1>7. ASSUME NEW t \in Thread, ExecuteRun(t) \/ ExecuteReport(t) \/ ExecuteSave(t)
        PROVE  SuccessInv'
    BY SMTT(30), <1>7 DEF ExecuteRun, Apply, Step, AfterRun, ExecuteReport,
       SetLatestExecResult, SetOrderStatus, Put, ExecuteSave, SaveRawResultSet
  <1>8. ASSUME NEW t \in Thread, RollbackRun(t) \/ RollbackLoad(t) \/ RollbackWrite(t)
        PROVE  SuccessInv'
    BY SMTT(30), <1>8 DEF RollbackRun, AfterRollback, Step, RollbackLoad,
       RollbackWrite, SetRollBackTimes, Put
  <1>9. ASSUME NEW t \in Thread, ResetAsyncOrder(t) \/ Abort(t)
        PROVE  SuccessInv'
    BY SMTT(30), <1>9 DEF ResetAsyncOrder, SetToAsyncExecStatus,
       SetOrderStatus, Put, Abort
  <1>10. CASE VerifierStep
    BY SMTT(30), <1>10 DEF VerifierStep, VerifyPick, ToVerify, VerifyPost,
       LoadOrder
  <1>11. CASE WorkerPick \/ WorkerTake
    BY SMTT(30), <1>11 DEF WorkerPick, ToExec, WorkerTake, UpdateExecStatus,
       WorkerGoto
  <1>12. CASE WorkerLoad
    <2>1. UNCHANGED <<orderVars, taskVars, thr, evidVars>>
      BY <1>12 DEF WorkerLoad
    <2>2. wrk'.pc \in {"running", "idle"}
      <3>1. CASE taskOrder[wrk.task] \in rows
        BY <1>12, <3>1 DEF WorkerLoad
      <3>2. CASE taskOrder[wrk.task] \notin rows
        BY <1>12, <3>2 DEF WorkerLoad
      <3>3. QED
        BY <3>1, <3>2
    <2>3. QED
      BY <2>1, <2>2
  <1>13. CASE WorkerRun
    <2>1. UNCHANGED <<orderVars, taskVars, thr, repaired>> /\ wrk'.task = wrk.task
      BY <1>13 DEF WorkerRun, WorkerGoto, Apply
    <2>2. \A o \in OrderId : applied[o] \subseteq applied'[o]
      BY <1>13 DEF WorkerRun, Apply
    <2>3. wrk'.pc \in {"save", "failed"}
      BY <1>13 DEF WorkerRun, WorkerGoto, AfterTaskRun
    <2>4. wrk'.pc = "save" => applied'[taskOrder[wrk.task]] # {}
      <3>1. PICK succeeded \in BOOLEAN :
              Apply(taskOrder[wrk.task], wrk.sql, succeeded)
                /\ WorkerGoto(AfterTaskRun(succeeded))
        BY <1>13 DEF WorkerRun
      <3>2. CASE succeeded
        <4>1. applied' = [applied EXCEPT ![taskOrder[wrk.task]] = @ \cup {wrk.sql}]
          BY <3>1, <3>2 DEF Apply
        <4>2. taskOrder[wrk.task] \in OrderId /\ applied \in [OrderId -> SUBSET Sql]
          BY <1>13 DEF WorkerRun
        <4>3. QED
          BY <4>1, <4>2
      <3>3. CASE ~succeeded
        BY <1>13, <3>1, <3>3 DEF WorkerGoto, AfterTaskRun
      <3>4. QED
        BY <3>2, <3>3
    <2>5. QED
      BY <2>1, <2>2, <2>3, <2>4
  <1>14. CASE WorkerSave \/ WorkerReport
    BY SMTT(30), <1>14 DEF WorkerSave, SaveRawResultSet, Put, WorkerGoto,
       WorkerReport, SetLatestExecResult, SetOrderStatus
  <1>15. CASE WorkerFinish \/ WorkerAbort
    BY SMTT(30), <1>15 DEF WorkerFinish, UpdateExecStatus, FinishStatus,
       WorkerAbort
  <1>16. CASE UNCHANGED vars
    BY SMTT(30), <1>16 DEF vars
  <1>17. QED
    BY <1>1, <1>2, <1>3, <1>4, <1>5, <1>6, <1>7, <1>8, <1>9, <1>10, <1>11,
       <1>12, <1>13, <1>14, <1>15, <1>16 DEF Next, Continue, WorkerStep

\* An order being executed in the background keeps its task over every step.
LEMMA AsyncStep == TypeInv /\ AsyncInv /\ [Next]_vars => AsyncInv'
  <1> SUFFICES ASSUME TypeInv, AsyncInv, [Next]_vars PROVE AsyncInv'
    OBVIOUS
  <1> USE DEF TypeInv, TypeOK, TablesTypeOK, LocalsOK, WebPoint, WorkerPoint,
              HoldsOrder, HoldsSql, Thread, Idle, WorkerIdle, At, Goto, Reply,
              orderVars, taskVars, evidVars, jobVars, boundVars, Accept, AsyncInv, Queued, TasksOf
  <1>1. ASSUME NEW t \in Web, Request(t)
        PROVE  AsyncInv'
    BY SMTT(30), <1>1 DEF Request, SaveBegin, AcceptOn, CheckPermission,
       CommitBegin, ExecuteBegin, LoadOrder, RollbackBegin, ResetAsyncBegin,
       RearmTasks
  <1>2. ASSUME NEW o \in used, Cancel(o) \/ Delete(o) \/ ResetSucced(o)
        PROVE  AsyncInv'
    BY SMTT(30), <1>2 DEF Cancel, Accept, SetOrderStatus, Put, Delete,
       DeleteOrder, ResetSucced
  <1>3. ASSUME NEW t \in Thread, SaveRead(t) \/ SaveWrite(t)
        PROVE  AsyncInv'
    BY SMTT(30), <1>3 DEF SaveRead, SavedStatus, SaveWrite, SaveOrder,
       InsertOrder, UpdateOrder, Put
  <1>4. ASSUME NEW t \in Thread, CommitCheck(t) \/ CommitWrite(t)
        PROVE  AsyncInv'
    BY SMTT(30), <1>4 DEF CommitCheck, Step, CommitWrite, SaveOrder,
       InsertOrder, UpdateOrder, Put
  <1>5. ASSUME NEW t \in Thread, ExecuteCheck(t)
        PROVE  AsyncInv'
    BY SMTT(30), <1>5 DEF ExecuteCheck, Step, BigOrderPoint,
       SetLatestExecResult, SetOrderStatus, Put
  <1>6. ASSUME NEW t \in Thread, ExecuteAddTask(t) \/ ExecuteSetAsync(t)
        PROVE  AsyncInv'
    BY SMTT(30), <1>6 DEF ExecuteAddTask, Step, AddTask, ExecuteSetAsync,
       SetToAsyncExecStatus, SetOrderStatus, Put
  <1>7. ASSUME NEW t \in Thread, ExecuteRun(t) \/ ExecuteReport(t) \/ ExecuteSave(t)
        PROVE  AsyncInv'
    BY SMTT(30), <1>7 DEF ExecuteRun, Apply, Step, AfterRun, ExecuteReport,
       SetLatestExecResult, SetOrderStatus, Put, ExecuteSave, SaveRawResultSet
  <1>8. ASSUME NEW t \in Thread, RollbackRun(t) \/ RollbackLoad(t) \/ RollbackWrite(t)
        PROVE  AsyncInv'
    BY SMTT(30), <1>8 DEF RollbackRun, AfterRollback, Step, RollbackLoad,
       RollbackWrite, SetRollBackTimes, Put
  <1>9. ASSUME NEW t \in Thread, ResetAsyncOrder(t) \/ Abort(t)
        PROVE  AsyncInv'
    BY SMTT(30), <1>9 DEF ResetAsyncOrder, SetToAsyncExecStatus,
       SetOrderStatus, Put, Abort
  <1>10. CASE VerifierStep
    BY SMTT(30), <1>10 DEF VerifierStep, VerifyPick, ToVerify, VerifyPost,
       LoadOrder
  <1>11. CASE WorkerPick \/ WorkerTake
    BY SMTT(30), <1>11 DEF WorkerPick, ToExec, WorkerTake, UpdateExecStatus,
       WorkerGoto
  <1>12. CASE WorkerLoad
    BY SMTT(30), <1>12 DEF WorkerLoad
  <1>13. CASE WorkerRun
    BY SMTT(30), <1>13 DEF WorkerRun, Apply, WorkerGoto, AfterTaskRun
  <1>14. CASE WorkerSave \/ WorkerReport
    BY SMTT(30), <1>14 DEF WorkerSave, SaveRawResultSet, Put, WorkerGoto,
       WorkerReport, SetLatestExecResult, SetOrderStatus
  <1>15. CASE WorkerFinish \/ WorkerAbort
    BY SMTT(30), <1>15 DEF WorkerFinish, UpdateExecStatus, FinishStatus,
       WorkerAbort
  <1>16. CASE UNCHANGED vars
    BY SMTT(30), <1>16 DEF vars
  <1>17. QED
    BY <1>1, <1>2, <1>3, <1>4, <1>5, <1>6, <1>7, <1>8, <1>9, <1>10, <1>11,
       <1>12, <1>13, <1>14, <1>15, <1>16 DEF Next, Continue, WorkerStep

\* EvidenceInv is inductive relative to the types.
LEMMA EvidenceStep == TypeInv /\ EvidenceInv /\ [Next]_vars => EvidenceInv'
  BY PendingStep, ResultStep, SuccessStep, AsyncStep DEF EvidenceInv

\* The four guarantees below rest on this invariant of every instance.
THEOREM EvidenceCorrect == Spec => []EvidenceInv
  BY EvidenceInit, EvidenceStep, TypeCorrect, PTL DEF Spec

\* An order waiting for approval has a text that Inception found clean.
THEOREM PendingSafe == Spec => []PendingWasChecked
  <1>1. EvidenceInv => PendingWasChecked
    BY DEF EvidenceInv, PendingInv, PendingWasChecked
  <1>2. QED
    BY <1>1, EvidenceCorrect, PTL

\* A status of success is backed by an effect on the target or by an operator.
THEOREM SuccessSafe == Spec => []SuccessIsBacked
  <1>1. TypeInv /\ EvidenceInv => SuccessIsBacked
    BY DEF TypeInv, TypeOK, TablesTypeOK, EvidenceInv, SuccessInv, Backed, SuccessIsBacked
  <1>2. QED
    BY <1>1, TypeCorrect, EvidenceCorrect, PTL

\* What a rollback undoes was done to the same order.
THEOREM RollbackSafe == Spec => []RollbackUndoesARun
  <1>1. TypeInv /\ EvidenceInv => RollbackUndoesARun
    BY DEF TypeInv, TypeOK, TablesTypeOK, EvidenceInv, ResultInv, RollbackUndoesARun, At
  <1>2. QED
    BY <1>1, TypeCorrect, EvidenceCorrect, PTL

\* An order being executed in the background has a task.
THEOREM AsyncSafe == Spec => []AsyncHasTask
  <1>1. TypeInv /\ EvidenceInv => AsyncHasTask
    BY DEF TypeInv, TypeOK, TablesTypeOK, EvidenceInv, AsyncInv, Queued, AsyncHasTask
  <1>2. QED
    BY <1>1, TypeCorrect, EvidenceCorrect, PTL
=============================================================================
