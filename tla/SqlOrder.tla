------------------------------ MODULE SqlOrder ------------------------------
(***************************************************************************)
(* The life of a SQL order.  A user saves it and commits it (Inception     *)
(* checks the text first), an administrator or the auto-verify process     *)
(* executes it, in the request itself or, when it affects many rows,       *)
(* through a row of sql_task that the single async_sql_exec process picks  *)
(* up; a success can be rolled back once.                                  *)
(*                                                                         *)
(* Actors: the threads "Web" of the web.py server, each serving one        *)
(* request at a time; "Verifier", the auto_verify process, which blocks in *)
(* its POST to /sql_order/api_execute and so is modelled by the thread     *)
(* that serves it; the worker async_sql_exec.  An actor's step ends at     *)
(* each statement it sends to the database and at each call of Inception   *)
(* that changes the target; between steps anything else may run.           *)
(*                                                                         *)
(* Requests come from pages rendered earlier, so the order id of a request *)
(* is any id ever handed out, whatever has become of the order.  A request *)
(* that is refused without touching a table is not a step.                 *)
(***************************************************************************)
EXTENDS OrderTables

CONSTANTS
  Web,          \* threads of the web server
  Verifier,     \* the auto_verify process
  FlaggedSql,   \* the texts isDangerSql matches
  SqlCheck,     \* config SQL_CHECK: a commit needs a clean check
  MaxRequests,  \* bound: requests the server accepts
  MaxAborts     \* bound: requests or worker rounds cut short

ASSUME OrderAssumption ==
  /\ Verifier \notin Web
  /\ FlaggedSql \subseteq Sql
  /\ SqlCheck \in BOOLEAN
  /\ IsFiniteSet(Web)
  /\ MaxRequests \in Nat /\ MaxAborts \in Nat

VARIABLES
  thr,       \* locals of the threads: program point, order, text, number read
  wrk,       \* locals of the worker: program point, task, text
  \* What happened outside the two tables; only properties read these.
  vetted,    \* texts Inception reported clean when a commit checked them
  applied,   \* per order, texts that took effect on the target server
  reverted,  \* per order, rollback runs that took effect on the target server
  repaired,  \* orders declared succeeded by hand (reset_succed)
  rearmed,   \* orders sent back to execution by hand (reset_async)
  arms,      \* per task, times it was made TO_EXEC (inserted or re-armed)
  starts,    \* per task, times the worker started to run it
  dropped,   \* tasks the worker lost in an exception or a restart
  reqs, aborts

evidVars  == <<vetted, applied, reverted, repaired, rearmed>>
jobVars   == <<arms, starts, dropped>>
boundVars == <<reqs, aborts>>
vars == <<orderVars, taskVars, thr, wrk, evidVars, jobVars, boundVars>>

Thread == Web \cup {Verifier}

WebPoint == {"idle", "saveRead", "saveWrite", "commitCheck", "commitWrite",
             "verifyPost", "execCheck", "execRun", "execOk", "execErr",
             "execSave", "addTask", "setAsync", "rollbackRun",
             "rollbackLoad", "rollbackWrite", "resetOrder"}
WorkerPoint == {"idle", "picked", "taken", "running", "save", "ok", "failed",
                "finish"}

Idle       == [pc |-> "idle", order |-> NoOrder, sql |-> NoSql, num |-> 0]
WorkerIdle == [pc |-> "idle", task |-> NoTask, sql |-> NoSql]

Init ==
  /\ TablesInit
  /\ thr = [t \in Thread |-> Idle]
  /\ wrk = WorkerIdle
  /\ vetted = {} /\ repaired = {} /\ rearmed = {} /\ dropped = {}
  /\ applied = [o \in OrderId |-> {}]
  /\ reverted = [o \in OrderId |-> 0]
  /\ arms = [k \in TaskId |-> 0]
  /\ starts = [k \in TaskId |-> 0]
  /\ reqs = 0 /\ aborts = 0

-----------------------------------------------------------------------------
(* Threads *)

At(t, p) == thr[t].pc = p

Goto(t, p, o, s, n) ==
  thr' = [thr EXCEPT ![t] = [pc |-> p, order |-> o, sql |-> s, num |-> n]]

\* The thread stays with its order and text and moves on.
Step(t, p) == Goto(t, p, thr[t].order, thr[t].sql, 0)

Reply(t) == thr' = [thr EXCEPT ![t] = Idle]

Accept == reqs < MaxRequests /\ reqs' = reqs + 1 /\ aborts' = aborts

AcceptOn(t) == t \in Web /\ At(t, "idle") /\ Accept

\* Running a text on the target: a result set without errors means it took
\* effect; errors or an exception (a lost connection) say nothing.
Apply(o, s, succeeded) ==
  /\ \/ applied' = [applied EXCEPT ![o] = @ \cup {s}]
     \/ ~succeeded /\ applied' = applied
  /\ UNCHANGED <<vetted, reverted, repaired, rearmed>>

-----------------------------------------------------------------------------
(* /mysql_change/save and /mysql_change/commit *)

\* Permission.checkPermission; a missing row raises.
CheckPermission(o) ==
  /\ o \in rows
  /\ status[o] \in {ORDER_STATUS_NO_COMMIT, ORDER_STATUS_AGREE_FAILED}

SaveBegin(t, o, s) ==
  /\ AcceptOn(t)
  /\ \/ o = NoOrder /\ Goto(t, "saveWrite", o, s, ORDER_STATUS_NO_COMMIT)
     \/ CheckPermission(o) /\ Goto(t, "saveRead", o, s, 0)
  /\ UNCHANGED <<orderVars, taskVars, wrk, evidVars, jobVars>>

\* A variant for mutation: the status read is kept, whatever it is.
SavedStatusKeepZero(o) == IF o \in rows THEN status[o] ELSE ORDER_STATUS_NO_COMMIT

\* "if order_status:" keeps the status read, except when it is None or 0.
SavedStatus(o) ==
  IF o \in rows /\ status[o] # ORDER_STATUS_NO_VIEW THEN status[o]
                                                    ELSE ORDER_STATUS_NO_COMMIT

SaveRead(t) ==
  /\ At(t, "saveRead")
  /\ Goto(t, "saveWrite", thr[t].order, thr[t].sql, SavedStatus(thr[t].order))
  /\ UNCHANGED <<orderVars, taskVars, wrk, evidVars, jobVars, boundVars>>

SaveWrite(t) ==
  /\ At(t, "saveWrite")
  /\ SaveOrder(thr[t].order, thr[t].sql, thr[t].num)
  /\ Reply(t)
  /\ UNCHANGED <<taskVars, wrk, evidVars, jobVars, boundVars>>

CommitBegin(t, o, s) ==
  /\ AcceptOn(t)
  /\ o = NoOrder \/ CheckPermission(o)
  /\ Goto(t, "commitCheck", o, s, 0)
  /\ UNCHANGED <<orderVars, taskVars, wrk, evidVars, jobVars>>

\* inc.check returns: warnings or errors send the text back to the user unless
\* SQL_CHECK is off; an exception or too many affected rows always do.
CommitCheck(t) ==
  /\ At(t, "commitCheck")
  /\ \/ vetted' = vetted \cup {thr[t].sql} /\ Step(t, "commitWrite")
     \/ vetted' = vetted /\ ~SqlCheck /\ Step(t, "commitWrite")
     \/ vetted' = vetted /\ Reply(t)
  /\ UNCHANGED <<orderVars, taskVars, wrk, jobVars, boundVars,
                 applied, reverted, repaired, rearmed>>

\* A new OrderModel carries the default status NO_VIEW into the UPDATE as well.
CommitWrite(t) ==
  /\ At(t, "commitWrite")
  /\ SaveOrder(thr[t].order, thr[t].sql, ORDER_STATUS_NO_VIEW)
  /\ Reply(t)
  /\ UNCHANGED <<taskVars, wrk, evidVars, jobVars, boundVars>>

-----------------------------------------------------------------------------
(* /sql_order/cancel and the two delete requests: one statement each *)

Cancel(o) ==
  /\ Accept
  /\ SetOrderStatus(o, ORDER_STATUS_NO_COMMIT)
  /\ UNCHANGED <<taskVars, thr, wrk, evidVars, jobVars>>

Delete(o) ==
  /\ Accept
  /\ o \in rows
  /\ DeleteOrder(o)
  /\ UNCHANGED <<taskVars, thr, wrk, evidVars, jobVars>>

-----------------------------------------------------------------------------
(* /sql_order/execute, /sql_order/api_execute: neither looks at the status *)

\* The thread has loaded the row: this is the text it checks and runs.
LoadOrder(t, o) == o \in rows /\ Goto(t, "execCheck", o, sqlText[o], 0)

ExecuteBegin(t, o) ==
  /\ AcceptOn(t)
  /\ LoadOrder(t, o)
  /\ UNCHANGED <<orderVars, taskVars, wrk, evidVars, jobVars>>

\* A variant for mutation: the task is forgotten.
BigOrderPointNoTask == "setAsync"

\* Where an order with many affected rows goes on.
BigOrderPoint == "addTask"

ExecuteCheck(t) ==
  /\ At(t, "execCheck")
  /\ \/ /\ \/ Step(t, "execRun")
           \/ Step(t, BigOrderPoint)
        /\ UNCHANGED orderVars
     \/ /\ SetLatestExecResult(thr[t].order, FALSE)
        /\ Reply(t)
  /\ UNCHANGED <<taskVars, wrk, evidVars, jobVars, boundVars>>

ExecuteAddTask(t) ==
  /\ At(t, "addTask")
  /\ \E k \in TaskId :
       /\ AddTask(k, thr[t].order)
       /\ arms' = [arms EXCEPT ![k] = @ + 1]
  /\ Step(t, "setAsync")
  /\ UNCHANGED <<orderVars, wrk, evidVars, starts, dropped, boundVars>>

ExecuteSetAsync(t) ==
  /\ At(t, "setAsync")
  /\ SetToAsyncExecStatus(thr[t].order)
  /\ Reply(t)
  /\ UNCHANGED <<taskVars, wrk, evidVars, jobVars, boundVars>>

\* A variant for mutation: the error list of the result set is not looked at.
AfterRunUnchecked(succeeded) == "execOk"

AfterRun(succeeded) == IF succeeded THEN "execOk" ELSE "execErr"

ExecuteRun(t) ==
  /\ At(t, "execRun")
  /\ \E succeeded \in BOOLEAN :
       /\ Apply(thr[t].order, thr[t].sql, succeeded)
       /\ Step(t, AfterRun(succeeded))
  /\ UNCHANGED <<orderVars, taskVars, wrk, jobVars, boundVars>>

ExecuteReport(t) ==
  /\ \/ /\ At(t, "execOk")
        /\ SetLatestExecResult(thr[t].order, TRUE)
        /\ Step(t, "execSave")
     \/ /\ At(t, "execErr")
        /\ SetLatestExecResult(thr[t].order, FALSE)
        /\ Reply(t)
  /\ UNCHANGED <<taskVars, wrk, evidVars, jobVars, boundVars>>

ExecuteSave(t) ==
  /\ At(t, "execSave")
  /\ SaveRawResultSet(thr[t].order, thr[t].sql)
  /\ Reply(t)
  /\ UNCHANGED <<taskVars, wrk, evidVars, jobVars, boundVars>>

-----------------------------------------------------------------------------
(* auto_verify.verify; module Unattended says when it picks and gives up *)

\* Variants for mutation: failed orders are tried again; the keywords are not looked at.
ToVerifyRetried ==
  {o \in rows : status[o] \in {ORDER_STATUS_NO_VIEW, ORDER_STATUS_AGREE_FAILED}
                /\ sqlText[o] \notin FlaggedSql}

ToVerifyUnjudged == {o \in rows : status[o] = ORDER_STATUS_NO_VIEW}

\* getOneNoDangeOrder: an order waiting for approval with no flagged keyword.
ToVerify ==
  {o \in rows : status[o] = ORDER_STATUS_NO_VIEW /\ sqlText[o] \notin FlaggedSql}

VerifyPick ==
  /\ At(Verifier, "idle")
  /\ \E o \in ToVerify : Goto(Verifier, "verifyPost", o, NoSql, 0)
  /\ UNCHANGED <<orderVars, taskVars, wrk, evidVars, jobVars, boundVars>>

\* The POST names the order only; api_execute loads it again.  Or the round ends
\* without an execution: no window, not now, or the order or its server is gone.
VerifyPost ==
  /\ At(Verifier, "verifyPost")
  /\ \/ LoadOrder(Verifier, thr[Verifier].order)
     \/ Reply(Verifier)
  /\ UNCHANGED <<orderVars, taskVars, wrk, evidVars, jobVars, boundVars>>

-----------------------------------------------------------------------------
(* /sql_order/rollback *)

RollbackBegin(t, o) ==
  /\ AcceptOn(t)
  /\ o \in rows /\ rollBackTimes[o] = 0 /\ resultSet[o] # NoSql
  /\ Goto(t, "rollbackRun", o, resultSet[o], 0)
  /\ UNCHANGED <<orderVars, taskVars, wrk, evidVars, jobVars>>

\* A variant for mutation: a failed rollback run is counted too.
AfterRollbackAlways(t, succeeded) == Step(t, "rollbackLoad")

AfterRollback(t, succeeded) ==
  IF succeeded THEN Step(t, "rollbackLoad") ELSE Reply(t)

\* The backup rows are looked up and run; any failure returns its message.
RollbackRun(t) ==
  /\ At(t, "rollbackRun")
  /\ \E succeeded \in BOOLEAN :
       /\ \/ reverted' = [reverted EXCEPT ![thr[t].order] = @ + 1]
          \/ ~succeeded /\ reverted' = reverted
       /\ AfterRollback(t, succeeded)
  /\ UNCHANGED <<orderVars, taskVars, wrk, jobVars, boundVars,
                 vetted, applied, repaired, rearmed>>

\* increaseRollbackTimes reads the counter, adds one and writes it back.
RollbackLoad(t) ==
  /\ At(t, "rollbackLoad")
  /\ \/ /\ thr[t].order \in rows
        /\ Goto(t, "rollbackWrite", thr[t].order, thr[t].sql,
                rollBackTimes[thr[t].order])
     \/ thr[t].order \notin rows /\ Reply(t)
  /\ UNCHANGED <<orderVars, taskVars, wrk, evidVars, jobVars, boundVars>>

RollbackWrite(t) ==
  /\ At(t, "rollbackWrite")
  /\ SetRollBackTimes(thr[t].order, thr[t].num + 1)
  /\ Reply(t)
  /\ UNCHANGED <<taskVars, wrk, evidVars, jobVars, boundVars>>

-----------------------------------------------------------------------------
(* /api/reset_async and /api/reset_succed: repairs by hand, no check *)

ResetAsyncBegin(t, o) ==
  /\ AcceptOn(t)
  /\ RearmTasks(o)
  /\ arms' = [k \in TaskId |-> IF taskOrder[k] = o THEN arms[k] + 1 ELSE arms[k]]
  /\ rearmed' = rearmed \cup {o}
  /\ Goto(t, "resetOrder", o, NoSql, 0)
  /\ UNCHANGED <<orderVars, wrk, vetted, applied, reverted, repaired,
                 starts, dropped>>

ResetAsyncOrder(t) ==
  /\ At(t, "resetOrder")
  /\ SetToAsyncExecStatus(thr[t].order)
  /\ Reply(t)
  /\ UNCHANGED <<taskVars, wrk, evidVars, jobVars, boundVars>>

ResetSucced(o) ==
  /\ Accept
  /\ SetOrderStatus(o, ORDER_STATUS_AGREE_SUCCED)
  /\ repaired' = repaired \cup {o}
  /\ UNCHANGED <<taskVars, thr, wrk, vetted, applied, reverted, rearmed, jobVars>>

-----------------------------------------------------------------------------
(* async_sql_exec: one process, one task at a time *)

WorkerGoto(p) == wrk' = [wrk EXCEPT !.pc = p]

WorkerPick ==
  /\ wrk.pc = "idle"
  /\ \E k \in ToExec : wrk' = [pc |-> "picked", task |-> k, sql |-> NoSql]
  /\ UNCHANGED <<orderVars, taskVars, thr, evidVars, jobVars, boundVars>>

WorkerTake ==
  /\ wrk.pc = "picked"
  /\ UpdateExecStatus(wrk.task, EXEC_STATUS_EXEC_ING)
  /\ WorkerGoto("taken")
  /\ UNCHANGED <<orderVars, thr, evidVars, jobVars, boundVars>>

\* A deleted order raises here: the loop catches it and forgets the task.
WorkerLoad ==
  /\ wrk.pc = "taken"
  /\ LET o == taskOrder[wrk.task] IN
     \/ /\ o \in rows
        /\ wrk' = [wrk EXCEPT !.pc = "running", !.sql = sqlText[o]]
        /\ starts' = [starts EXCEPT ![wrk.task] = @ + 1]
        /\ dropped' = dropped
     \/ /\ o \notin rows
        /\ wrk' = WorkerIdle
        /\ starts' = starts
        /\ dropped' = dropped \cup {wrk.task}
  /\ UNCHANGED <<orderVars, taskVars, thr, evidVars, arms, boundVars>>

\* A variant for mutation: do_task goes on after an error.
AfterTaskRunUnchecked(succeeded) == "save"

AfterTaskRun(succeeded) == IF succeeded THEN "save" ELSE "failed"

WorkerRun ==
  /\ wrk.pc = "running"
  /\ \E succeeded \in BOOLEAN :
       /\ Apply(taskOrder[wrk.task], wrk.sql, succeeded)
       /\ WorkerGoto(AfterTaskRun(succeeded))
  /\ UNCHANGED <<orderVars, taskVars, thr, jobVars, boundVars>>

WorkerSave ==
  /\ wrk.pc = "save"
  /\ SaveRawResultSet(taskOrder[wrk.task], wrk.sql)
  /\ WorkerGoto("ok")
  /\ UNCHANGED <<taskVars, thr, evidVars, jobVars, boundVars>>

WorkerReport ==
  /\ \/ wrk.pc = "ok" /\ SetLatestExecResult(taskOrder[wrk.task], TRUE)
     \/ wrk.pc = "failed" /\ SetLatestExecResult(taskOrder[wrk.task], FALSE)
  /\ WorkerGoto("finish")
  /\ UNCHANGED <<taskVars, thr, evidVars, jobVars, boundVars>>

\* A variant for mutation: the task is not marked finished.
FinishStatusForgotten == EXEC_STATUS_EXEC_ING

FinishStatus == EXEC_STATUS_EXEC_FINISH

WorkerFinish ==
  /\ wrk.pc = "finish"
  /\ UpdateExecStatus(wrk.task, FinishStatus)
  /\ wrk' = WorkerIdle
  /\ UNCHANGED <<orderVars, thr, evidVars, jobVars, boundVars>>

-----------------------------------------------------------------------------
(* A request or a round of the worker is cut short: an exception of the    *)
(* database or of a call around it, or the restart script's kill -9.       *)

Abort(t) ==
  /\ aborts < MaxAborts
  /\ ~At(t, "idle")
  /\ aborts' = aborts + 1
  /\ Reply(t)
  /\ UNCHANGED <<orderVars, taskVars, wrk, evidVars, jobVars, reqs>>

WorkerAbort ==
  /\ aborts < MaxAborts
  /\ wrk.pc # "idle"
  /\ aborts' = aborts + 1
  /\ wrk' = WorkerIdle
  /\ dropped' = dropped \cup {wrk.task}
  /\ UNCHANGED <<orderVars, taskVars, thr, evidVars, arms, starts, reqs>>

-----------------------------------------------------------------------------
Request(t) ==
  \/ \E o \in used \cup {NoOrder}, s \in Sql : SaveBegin(t, o, s) \/ CommitBegin(t, o, s)
  \/ \E o \in used : ExecuteBegin(t, o) \/ RollbackBegin(t, o) \/ ResetAsyncBegin(t, o)

Continue(t) ==
  \/ SaveRead(t) \/ SaveWrite(t)
  \/ CommitCheck(t) \/ CommitWrite(t)
  \/ ExecuteCheck(t) \/ ExecuteAddTask(t) \/ ExecuteSetAsync(t)
  \/ ExecuteRun(t) \/ ExecuteReport(t) \/ ExecuteSave(t)
  \/ RollbackRun(t) \/ RollbackLoad(t) \/ RollbackWrite(t)
  \/ ResetAsyncOrder(t)

WorkerStep ==
  \/ WorkerPick \/ WorkerTake \/ WorkerLoad \/ WorkerRun
  \/ WorkerSave \/ WorkerReport \/ WorkerFinish

VerifierStep == VerifyPick \/ VerifyPost

Next ==
  \/ \E t \in Web : Request(t)
  \/ \E o \in used : Cancel(o) \/ Delete(o) \/ ResetSucced(o)
  \/ \E t \in Thread : Continue(t) \/ Abort(t)
  \/ VerifierStep
  \/ WorkerStep \/ WorkerAbort

Spec == Init /\ [][Next]_vars

\* The worker's loop keeps running and every call it makes returns; users owe
\* nobody a request, and the verifier may sit outside its window.
Fairness == WF_vars(WorkerStep)

FairSpec == Spec /\ Fairness
=============================================================================
