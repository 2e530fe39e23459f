----------------------------- MODULE Unattended -----------------------------
(***************************************************************************)
(* What happens to orders when nobody looks: the order workflow of         *)
(* SqlOrder together with a round of auto_verify in detail (its switch,    *)
(* the first waiting order, the time range of the order's instance) and    *)
(* with check_defunct, which restarts Inception when it has left too many  *)
(* zombies and no background task seems to run.                            *)
(*                                                                         *)
(* The actions on orders are those of SqlOrder; here they are let in or    *)
(* narrowed.  Every step is a step of SqlOrder or leaves its variables     *)
(* alone, so what is proved of SqlOrder holds here.                        *)
(***************************************************************************)
EXTENDS SqlOrder, ExecTimeRange, Integers

CONSTANTS
  Instance,    \* ids of mysql_instance
  InsOf,       \* sql_order.ins_id, fixed by the INSERT
  TimeRange,   \* time ranges an administrator may choose
  NoRange,     \* both columns empty
  MaxEvents    \* bound: requests, changes of settings, and mishaps

ASSUME UnattendedAssumption ==
  /\ OrderId \subseteq Nat
  /\ InsOf \in [OrderId -> Instance]
  /\ TimeRange \subseteq [begin: Time, end: Time] /\ NoRange \notin TimeRange
  /\ MaxEvents \in Nat

VARIABLES
  instance,   \* rows of mysql_instance
  allow,      \* allow_begin_time and allow_end_time of an instance
  setting,    \* the row of auto_verify
  round,      \* locals of verify() in the auto_verify process
  zombies,    \* ps shows at least the threshold of defunct processes
  checker,    \* program point of check_defunct
  cut, wrkCut, \* threads, and the worker, whose call a restart of Inception broke
  \* History; only properties read it.
  credit,     \* per order, commits and unreported launches not used by a launch
  late,       \* automatic executions since the switch was turned off
  hidden,     \* the worker's run could not be seen by the decision to restart
  edits, faults

policyVars  == <<instance, allow, setting, edits>>
checkVars   == <<zombies, checker>>
historyVars == <<credit, late, hidden>>
uvars == <<vars, policyVars, round, checkVars, cut, wrkCut, historyVars, faults>>

Settings == [range: TimeRange \cup {NoRange}, enable: BOOLEAN]
NoTime   == [h |-> 0, m |-> 0, s |-> 0]
NoRound  == [pc |-> "idle", range |-> NoRange, at |-> NoTime, edited |-> FALSE]

\* Instances have the empty range of their INSERT, the verifier is switched on.
UInit ==
  /\ Init
  /\ instance = Instance
  /\ allow = [i \in Instance |-> NoRange]
  /\ setting \in [range: TimeRange, enable: {TRUE}]
  /\ round = NoRound
  /\ zombies = FALSE /\ checker = "idle" /\ cut = {} /\ wrkCut = FALSE
  /\ credit = [o \in OrderId |-> 0]
  /\ late = 0 /\ hidden = FALSE
  /\ edits = 0 /\ faults = 0

EventLeft == reqs + edits + faults < MaxEvents

-----------------------------------------------------------------------------
(* The workflow of SqlOrder, as far as the settings and Inception let it *)

\* A mysql_instance that is gone makes the handlers raise before any effect.
InstanceThere(o) == o \in {NoOrder} \cup {p \in OrderId : InsOf[p] \in instance}

Asked(t) ==
  Request(t) /\ (thr'[t].pc \in {"saveWrite", "saveRead", "commitCheck", "execCheck",
                                 "rollbackRun"}
                   => InstanceThere(thr'[t].order))

WorkerMoves ==
  WorkerStep /\ (wrk'.pc = "running" => InstanceThere(taskOrder[wrk.task]))

\* A variant for mutation: a task whose instance is gone counts as finished.
WorkerLoadsNothingFinished ==
  /\ wrk.pc = "taken" /\ ~InstanceThere(taskOrder[wrk.task])
  /\ UpdateExecStatus(wrk.task, EXEC_STATUS_EXEC_FINISH)
  /\ wrk' = WorkerIdle
  /\ UNCHANGED <<orderVars, thr, evidVars, jobVars, boundVars>>

\* do_task raises on the instance that is gone: the worker forgets the task.
WorkerLoadsNothing ==
  wrk.pc = "taken" /\ ~InstanceThere(taskOrder[wrk.task]) /\ WorkerAbort

\* A call that the restart broke raises; handlers turn that into a failure.
BrokenCallsFail ==
  /\ \A t \in cut : thr'[t] # thr[t] => thr'[t].pc \in {"execErr", "idle"}
  /\ wrkCut /\ wrk' # wrk => wrk'.pc \in {"failed", "idle"}
  /\ cut' = {t \in cut : thr'[t] = thr[t]}
  /\ wrkCut' = (wrkCut /\ wrk' = wrk)

\* An order that commit has put into the waiting state.
CommittedBy(t, o) ==
  /\ At(t, "commitWrite")
  /\ \/ o = thr[t].order /\ o \in rows
     \/ thr[t].order = NoOrder /\ o \in rows' \ rows

\* api_execute found the order fit and sends it to Inception or to the queue.
LaunchedNow(o) ==
  /\ At(Verifier, "execCheck") /\ thr[Verifier].order = o
  /\ thr'[Verifier].pc \in {"execRun", "addTask"}

\* Launched, and the status of the order does not say so yet.
Unreported(o) ==
  /\ thr[Verifier].order = o
  /\ thr[Verifier].pc \in {"execRun", "execOk", "execErr", "addTask", "setAsync"}

One(p) == IF p THEN 1 ELSE 0

\* The history of a step of the workflow that is not cut short.
Recorded(t) ==
  credit' = [o \in OrderId |->
               credit[o] + One(CommittedBy(t, o)) - One(t = Verifier /\ LaunchedNow(o))]

\* The decision to restart cannot see the run that the worker begins or goes on with.
Unseen ==
  IF wrk.pc = "picked" THEN checker = "restart"
  ELSE hidden \/ ( /\ execStatus[wrk.task] = EXEC_STATUS_EXEC_ING
                  /\ execStatus'[wrk.task] = EXEC_STATUS_TO_EXEC )

Observed ==
  /\ hidden' = IF wrk'.pc \in {"idle", "picked"} THEN FALSE ELSE Unseen
  /\ round' = IF round.pc = "posted" /\ thr'[Verifier] = Idle THEN NoRound
              ELSE LET o == thr[Verifier].order IN
                   [round EXCEPT !.edited = @ \/ (o \in OrderId /\ sqlText'[o] # sqlText[o])]

OrderFrame ==
  BrokenCallsFail /\ Observed /\ UNCHANGED <<policyVars, checkVars, late, faults>>

UsersAsk ==
  /\ EventLeft
  /\ \/ \E t \in Web : Asked(t)
     \/ \E o \in used : Cancel(o) \/ Delete(o) \/ ResetSucced(o)
  /\ OrderFrame
  /\ UNCHANGED credit

\* The bound on the ids of sql_task: an order is big only while one is left for it.
TaskIdLeft ==
  Cardinality({u \in Thread : thr'[u].pc = "addTask"})
    <= Cardinality({k \in TaskId : taskOrder'[k] = NoOrder})

CallsGoOn ==
  /\ \E t \in Thread : Continue(t) /\ Recorded(t)
  /\ OrderFrame
  /\ TaskIdLeft

WorkerRuns == (WorkerMoves \/ WorkerLoadsNothing) /\ OrderFrame /\ UNCHANGED credit

\* The restart script or an exception of the database, at any statement.
CutShort ==
  /\ EventLeft /\ faults' = faults + 1
  /\ \/ /\ \E t \in Web : Abort(t)
        /\ UNCHANGED <<credit, round>>
     \/ /\ Abort(Verifier)
        /\ credit' = [o \in OrderId |-> credit[o] + One(Unreported(o))]
        /\ round' = NoRound
     \/ /\ WorkerAbort
        /\ UNCHANGED <<credit, round>>
  /\ BrokenCallsFail
  /\ hidden' = (hidden /\ wrk' = wrk)
  /\ UNCHANGED <<policyVars, checkVars, late>>

-----------------------------------------------------------------------------
(* /auto_verify/update, /mysql_instance/set_time_range, and the deletion of *)
(* an instance with its server                                             *)

Edit == EventLeft /\ edits' = edits + 1

\* updateAutoVerify with the row there: it looks for it and overwrites it.
UpdateAutoVerify(row) ==
  /\ Edit
  /\ setting' = row
  /\ late' = IF setting.enable THEN 0 ELSE late
  /\ UNCHANGED <<vars, instance, allow, round, checkVars, cut, wrkCut, credit,
                 hidden, faults>>

SetTimeRange(i, range) ==
  /\ Edit
  /\ allow' = [allow EXCEPT ![i] = range]
  /\ UNCHANGED <<vars, instance, setting, round, checkVars, cut, wrkCut,
                 historyVars, faults>>

InstanceDeleted(i) ==
  /\ Edit
  /\ i \in instance
  /\ instance' = instance \ {i}
  /\ UNCHANGED <<vars, allow, setting, round, checkVars, cut, wrkCut,
                 historyVars, faults>>

-----------------------------------------------------------------------------
(* auto_verify.verify: one statement after the other, then the POST *)

\* A variant for mutation: getOneToOnlineOrder, the flagged ones included.
FirstWaiting(o) ==
  \A p \in rows : status[p] = ORDER_STATUS_NO_VIEW => o <= p

\* getOneNoDangeOrder: the first in the order of the ids.
First(o) == \A p \in ToVerify : o <= p

\* A variant for mutation: the switch is looked at when the process starts.
MayStartUnswitched == TRUE

MayStart == setting.enable

\* loadAutoVerify and the list of waiting orders; without one the round is over.
VerifyBegin ==
  /\ round.pc = "idle"
  /\ MayStart
  /\ VerifyPick /\ First(thr'[Verifier].order)
  /\ round' = [NoRound EXCEPT !.pc = "instance", !.range = setting.range]
  /\ UNCHANGED <<policyVars, checkVars, cut, wrkCut, historyVars, faults>>

\* The range of the instance, else the one of the settings.
RangeFor(o, range) == IF allow[InsOf[o]] # NoRange THEN allow[InsOf[o]] ELSE range

\* The verifier may go on with its order in this range at time t.
MayCall(range, t) ==
  /\ InstanceThere(thr[Verifier].order)
  /\ range # NoRange
  /\ isInExecTimeRange(range.begin, range.end, t)

\* The instance is loaded and the clock read; rounds are spread over the day, so
\* it may show any time.  A round that may not go on ends.
VerifyInstance(t) ==
  /\ round.pc = "instance"
  /\ LET range == RangeFor(thr[Verifier].order, round.range) IN
     IF MayCall(range, t)
     THEN /\ round' = [round EXCEPT !.pc = "post", !.range = range, !.at = t]
          /\ UNCHANGED vars
     ELSE /\ VerifyPost /\ thr'[Verifier] = Idle
          /\ round' = NoRound
  /\ UNCHANGED <<policyVars, checkVars, cut, wrkCut, historyVars, faults>>

\* api_execute loads order and instance again and answers when it is done.
VerifyCall ==
  /\ round.pc = "post"
  /\ VerifyPost
  /\ LET o == thr[Verifier].order IN
     thr'[Verifier].pc = IF o \in rows /\ InstanceThere(o) THEN "execCheck" ELSE "idle"
  /\ round' = IF thr'[Verifier] = Idle THEN NoRound
              ELSE [NoRound EXCEPT !.pc = "posted", !.edited = round.edited]
  /\ late' = IF ~setting.enable /\ thr'[Verifier].pc = "execCheck" THEN late + 1 ELSE late
  /\ UNCHANGED <<policyVars, checkVars, cut, wrkCut, credit, hidden, faults>>

VerifyRound == VerifyBegin \/ (\E t \in Time : VerifyInstance(t)) \/ VerifyCall

-----------------------------------------------------------------------------
(* check_defunct: ps, one SELECT, the restart *)

Defunct ==
  /\ EventLeft /\ faults' = faults + 1
  /\ ~zombies /\ zombies' = TRUE
  /\ UNCHANGED <<vars, policyVars, round, checker, cut, wrkCut, historyVars>>

\* A variant for mutation: tasks that wait are looked for, not tasks that run.
SeemsIdleToExec == ToExec = {}

\* A variant for mutation: any task will do.
SeemsIdleNoTask == \A k \in TaskId : taskOrder[k] = NoOrder

\* getOneExecingTask finds none.
SeemsIdle ==
  \A k \in TaskId : taskOrder[k] # NoOrder => execStatus[k] # EXEC_STATUS_EXEC_ING

CheckTasks ==
  /\ checker = "idle" /\ zombies
  /\ SeemsIdle
  /\ checker' = "restart"
  /\ UNCHANGED <<vars, policyVars, round, zombies, cut, wrkCut, historyVars, faults>>

\* Where a thread waits for Inception.
InceptionPoint == {"commitCheck", "execCheck", "execRun", "rollbackRun"}

\* A variant for mutation: the orders of the calls.
ServedOrders == {thr[t].order : t \in {u \in Thread : thr[u].pc \in InceptionPoint}}

\* The threads whose call Inception is serving.
Served == {t \in Thread : thr[t].pc \in InceptionPoint}

\* Every call that Inception is serving breaks; the zombies go with their parent.
RestartInception ==
  /\ checker = "restart"
  /\ checker' = "idle" /\ zombies' = FALSE
  /\ cut' = cut \cup Served
  /\ wrkCut' = (wrkCut \/ wrk.pc = "running")
  /\ UNCHANGED <<vars, policyVars, round, historyVars, faults>>

CheckRound == CheckTasks \/ RestartInception

-----------------------------------------------------------------------------
AdminEdits ==
  \/ \E row \in Settings : UpdateAutoVerify(row)
  \/ \E i \in Instance : InstanceDeleted(i)
                         \/ \E range \in TimeRange \cup {NoRange} : SetTimeRange(i, range)

UNext ==
  \/ UsersAsk \/ CallsGoOn \/ WorkerRuns \/ CutShort
  \/ AdminEdits \/ VerifyRound
  \/ Defunct \/ CheckRound

USpec == UInit /\ [][UNext]_uvars

\* A round that falls into the range of its order.
InTime ==
  \E t \in Time :
    VerifyInstance(t) /\ MayCall(RangeFor(thr[Verifier].order, round.range), t)

\* Three endless loops that catch everything, and handlers that come to an end.
\* The verifier polls every few seconds and a range lasts longer than that, so
\* some of its rounds fall into the range: strong fairness of InTime.
UFairness ==
  /\ WF_uvars(VerifyRound) /\ SF_uvars(InTime)
  /\ WF_uvars(CallsGoOn) /\ WF_uvars(WorkerRuns)
  /\ WF_uvars(CheckRound)

UFairSpec == USpec /\ UFairness
=============================================================================
