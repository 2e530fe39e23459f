-------------------------- MODULE UnattendedProofs --------------------------
(***************************************************************************)
(* Machine-checked proofs about Unattended, for every set of orders,       *)
(* instances, tasks, threads and times and every bound: the composition    *)
(* adds nothing to SqlOrder, so the theorems about SqlOrder hold here, and *)
(* they carry the invariants of the policy; and what it takes for zombies  *)
(* to be cleared.                                                          *)
(***************************************************************************)
EXTENDS UnattendedProperties, SqlOrderHistoryProofs

USE UnattendedAssumption, TimeAssumption, NullsAssumption, OrderAssumption

-----------------------------------------------------------------------------
(* The time range, whatever the times *)

\* A range that ends at an earlier hour than it begins is tested correctly.
THEOREM MidnightExact ==
  ASSUME NEW b \in Time, NEW e \in Time, NEW t \in Time, OverMidnight(b, e)
  PROVE  isInExecTimeRange(b, e, t) <=> InRange(b, e, t)
  <1>1. b.h \in Nat /\ e.h \in Nat /\ t.h \in Nat /\ e.h < b.h
    BY DEF OverMidnight, Time
  <1>2. Before(e, b) /\ ~Before(b, e)
    BY <1>1 DEF Before
  <1>3. CASE t.h >= b.h
    <2>1. ~Before(t, e)
      BY <1>1, <1>3 DEF Before
    <2>2. QED
      BY <1>2, <1>3, <2>1 DEF isInExecTimeRange, InRange
  <1>4. CASE ~(t.h >= b.h)
    <2>1. Before(t, b) /\ (Before(t, e) => t.h <= e.h)
      BY <1>1, <1>4 DEF Before
    <2>2. QED
      BY <1>2, <1>4, <2>1 DEF isInExecTimeRange, InRange
  <1>5. QED
    BY <1>3, <1>4

\* A range within one day keeps nothing out but the part of the first hour before
\* its begin: every other time of the day passes.
THEOREM DayRangeIsOpen ==
  ASSUME NEW b \in Time, NEW e \in Time, NEW t \in Time, b.h < e.h
  PROVE  isInExecTimeRange(b, e, t) <=> ~(t.h = b.h /\ Before(t, b))
  <1>1. b.h \in Nat /\ e.h \in Nat /\ t.h \in Nat
    BY DEF Time
  <1>2. CASE t.h >= b.h
    <2>1. ~Before(t, b) <=> ~(t.h = b.h /\ Before(t, b))
      BY <1>1, <1>2 DEF Before
    <2>2. QED
      BY <1>2, <2>1 DEF isInExecTimeRange
  <1>3. CASE ~(t.h >= b.h)
    <2>1. t.h # b.h /\ t.h <= e.h /\ Before(t, e)
      BY <1>1, <1>3 DEF Before
    <2>2. QED
      BY <1>3, <2>1 DEF isInExecTimeRange
  <1>4. QED
    BY <1>2, <1>3

-----------------------------------------------------------------------------
(* The policy refines the workflow *)

\* The initial states are initial states of SqlOrder, every step is one of its
\* steps or leaves its variables alone.
THEOREM PolicyRefines == USpec => ImplementsSqlOrder
  <1>1. UInit => Init
    BY DEF UInit
  <1>2. ASSUME [UNext]_uvars PROVE [Next]_vars
    <2>1. CASE UsersAsk
      BY <2>1 DEF UsersAsk, Asked, Next
    <2>2. CASE CallsGoOn
      BY <2>2 DEF CallsGoOn, Next
    <2>3. CASE WorkerRuns
      BY <2>3 DEF WorkerRuns, WorkerMoves, WorkerLoadsNothing, Next
    <2>4. CASE CutShort
      BY <2>4 DEF CutShort, Next, Thread
    <2>5. CASE AdminEdits
      BY <2>5 DEF AdminEdits, UpdateAutoVerify, SetTimeRange, InstanceDeleted
    <2>6. CASE VerifyRound
      BY <2>6 DEF VerifyRound, VerifyBegin, VerifyInstance, VerifyCall, Next, VerifierStep
    <2>7. CASE Defunct \/ CheckRound
      BY <2>7 DEF Defunct, CheckRound, CheckTasks, RestartInception
    <2>8. CASE UNCHANGED uvars
      BY <2>8 DEF uvars
    <2>9. QED
      BY <1>2, <2>1, <2>2, <2>3, <2>4, <2>5, <2>6, <2>7, <2>8 DEF UNext
  <1>3. QED
    BY <1>1, <1>2, PTL DEF USpec, Spec, ImplementsSqlOrder

\* What SqlOrder's theorems promise of types and evidence holds under the policy.
LEMMA WorkflowCorrect == USpec => [](TypeInv /\ EvidenceInv)
  BY PolicyRefines, TypeCorrect, EvidenceCorrect, PTL DEF ImplementsSqlOrder

-----------------------------------------------------------------------------
(* What a step of the workflow may do to the round of the verifier *)

\* A request is served by a thread of the web server: the verifier's stays.
LEMMA RequestFrame ==
  ASSUME TypeInv, NEW t \in Web, Request(t)
  PROVE  thr'[Verifier] = thr[Verifier] /\ orderVars' = orderVars /\ wrk' = wrk
  BY DEF TypeInv, TypeOK, Thread, Request, AcceptOn, Accept, SaveBegin, CommitBegin,
         ExecuteBegin, LoadOrder, RollbackBegin, ResetAsyncBegin, Goto

\* A handler that goes on has not been waiting to POST, and does not come to a
\* point where an execution begins; the other threads stay.
LEMMA ContinueFrame ==
  ASSUME TypeInv, NEW t \in Thread, Continue(t)
  PROVE  /\ thr[t].pc # "verifyPost" /\ thr'[t].pc \notin {"verifyPost", "execCheck"}
         /\ \A u \in Thread \ {t} : thr'[u] = thr[u]
         /\ wrk' = wrk
  <1> USE DEF TypeInv, TypeOK, Thread, At, Goto, Step, Reply, Idle
  <1>1. CASE SaveRead(t) \/ SaveWrite(t) \/ CommitCheck(t) \/ CommitWrite(t)
    BY <1>1 DEF SaveRead, SaveWrite, CommitCheck, CommitWrite
  <1>2. CASE ExecuteCheck(t)
    <2>1. At(t, "execCheck") /\ wrk' = wrk
          /\ (Step(t, "execRun") \/ Step(t, "addTask") \/ Reply(t))
      BY <1>2 DEF ExecuteCheck, BigOrderPoint
    <2>2. CASE Reply(t)
      BY <2>1, <2>2
    <2>3. CASE Step(t, "execRun") \/ Step(t, "addTask")
      BY <2>1, <2>3
    <2>4. QED
      BY <2>1, <2>2, <2>3
  <1>3. CASE ExecuteAddTask(t) \/ ExecuteSetAsync(t)
    BY <1>3 DEF ExecuteAddTask, ExecuteSetAsync
  <1>4. CASE ExecuteRun(t)
    BY <1>4 DEF ExecuteRun, AfterRun
  <1>5. CASE ExecuteReport(t) \/ ExecuteSave(t)
    <2>1. (At(t, "execOk") \/ At(t, "execErr") \/ At(t, "execSave")) /\ wrk' = wrk
          /\ (Step(t, "execSave") \/ Reply(t))
      BY <1>5 DEF ExecuteReport, ExecuteSave
    <2>2. CASE Reply(t)
      BY <2>1, <2>2
    <2>3. CASE Step(t, "execSave")
      BY <2>1, <2>3
    <2>4. QED
      BY <2>1, <2>2, <2>3
  <1>6. CASE RollbackRun(t) \/ RollbackLoad(t) \/ RollbackWrite(t)
    BY <1>6 DEF RollbackRun, AfterRollback, RollbackLoad, RollbackWrite
  <1>7. CASE ResetAsyncOrder(t)
    BY <1>7 DEF ResetAsyncOrder
  <1>8. QED
    BY <1>1, <1>2, <1>3, <1>4, <1>5, <1>6, <1>7 DEF Continue

\* The round of the verifier.
RoundType ==
  [pc: {"idle", "instance", "post", "posted"}, range: TimeRange \cup {NoRange},
   at: Time \cup {NoTime}, edited: BOOLEAN]

\* The round that has not begun has the type.
LEMMA NoRoundType == NoRound \in RoundType
  BY DEF NoRound, RoundType

\* The round goes on as it was, but for the mark of an edit, or it is over.
LEMMA RoundFrame ==
  ASSUME round \in RoundType, OrderFrame
  PROVE  /\ round' \in RoundType
         /\ \/ round' = NoRound /\ round.pc = "posted" /\ thr'[Verifier] = Idle
            \/ /\ round'.pc = round.pc /\ round'.range = round.range
               /\ round'.at = round.at
               /\ thr[Verifier].order \in OrderId =>
                    (round'.edited <=> \/ round.edited
                                       \/ sqlText'[thr[Verifier].order]
                                            # sqlText[thr[Verifier].order])
  <1>1. CASE round.pc = "posted" /\ thr'[Verifier] = Idle
    BY <1>1, NoRoundType DEF OrderFrame, Observed
  <1>2. CASE ~(round.pc = "posted" /\ thr'[Verifier] = Idle)
    BY <1>2 DEF RoundType, OrderFrame, Observed
  <1>3. QED
    BY <1>1, <1>2

\* The verifier waits with an order exactly while its round has not posted it.
Together == round.pc \in {"instance", "post"} <=> thr[Verifier].pc = "verifyPost"

UTypeInv == UTypeOK /\ Together

\* The types of the policy hold initially.
LEMMA UInitType == UInit => UTypeInv
  <1> SUFFICES ASSUME UInit PROVE UTypeInv
    OBVIOUS
  <1>1. round \in RoundType
    BY NoRoundType DEF UInit
  <1>2. Together
    BY DEF UInit, Init, Together, NoRound, Thread, Idle
  <1>3. setting \in Settings
    BY DEF UInit, Settings
  <1>4. allow \in [Instance -> TimeRange \cup {NoRange}] /\ credit \in [OrderId -> Int]
    BY DEF UInit
  <1>5. QED
    BY <1>1, <1>2, <1>3, <1>4 DEF UInit, UTypeInv, UTypeOK, RoundType

\* A step of the workflow keeps the types of the policy.
LEMMA OrderFrameType ==
  ASSUME UTypeOK, OrderFrame PROVE instance' = instance /\ allow' = allow
    /\ setting' = setting /\ edits' = edits /\ zombies' = zombies
    /\ checker' = checker /\ late' = late /\ faults' = faults /\ cut' \subseteq Thread
    /\ wrkCut' \in BOOLEAN /\ hidden' \in BOOLEAN /\ round' \in RoundType
  <1>1. round \in RoundType
    BY DEF UTypeOK, RoundType
  <1>2. QED
    BY <1>1, RoundFrame DEF UTypeOK, OrderFrame, BrokenCallsFail, Observed, Unseen,
       policyVars, checkVars

\* Every step keeps the types of the policy.
LEMMA UStepType == TypeInv /\ UTypeInv /\ [UNext]_uvars => UTypeOK'
  <1> SUFFICES ASSUME TypeInv, UTypeInv, [UNext]_uvars PROVE UTypeOK'
    OBVIOUS
  <1> USE DEF UTypeInv, UTypeOK, policyVars, checkVars, historyVars
  <1>1. CASE UsersAsk \/ CallsGoOn \/ WorkerRuns
    <2>1. credit' \in [OrderId -> Int]
      BY <1>1 DEF UsersAsk, CallsGoOn, WorkerRuns, Recorded, One
    <2>2. OrderFrame
      BY <1>1 DEF UsersAsk, CallsGoOn, WorkerRuns
    <2>3. QED
      BY <2>1, <2>2, OrderFrameType DEF RoundType
  <1>2. CASE CutShort
    <2>1. credit' \in [OrderId -> Int]
      BY <1>2 DEF CutShort, One
    <2>2. round' \in RoundType
      BY <1>2, NoRoundType DEF CutShort, RoundType
    <2>3. QED
      BY <1>2, <2>1, <2>2 DEF CutShort, BrokenCallsFail, RoundType
  <1>3. CASE AdminEdits
    BY <1>3 DEF AdminEdits, Edit, UpdateAutoVerify, SetTimeRange, InstanceDeleted, Settings
  <1>4. CASE VerifyBegin
    <2>1. round' \in RoundType
      BY <1>4, NoRoundType DEF VerifyBegin, RoundType, Settings
    <2>2. QED
      BY <1>4, <2>1 DEF VerifyBegin, RoundType
  <1>5. ASSUME NEW t \in Time, VerifyInstance(t) PROVE UTypeOK'
    <2>1. round' \in RoundType
      <3>1. CASE MayCall(RangeFor(thr[Verifier].order, round.range), t)
        <4>1. thr[Verifier].order \in OrderId
          BY <1>5, <3>1 DEF VerifyInstance, Together, TypeInv, LocalsOK, HoldsOrder, Thread
        <4>2. RangeFor(thr[Verifier].order, round.range) \in TimeRange \cup {NoRange}
          BY <4>1 DEF RangeFor
        <4>3. QED
          BY <1>5, <3>1, <4>2 DEF VerifyInstance, RoundType
      <3>2. CASE ~MayCall(RangeFor(thr[Verifier].order, round.range), t)
        BY <1>5, <3>2, NoRoundType DEF VerifyInstance
      <3>3. QED
        BY <3>1, <3>2
    <2>2. QED
      BY <1>5, <2>1 DEF VerifyInstance, RoundType
  <1>6. CASE VerifyCall
    <2>1. round' \in RoundType
      BY <1>6, NoRoundType DEF VerifyCall, RoundType
    <2>2. QED
      BY <1>6, <2>1 DEF VerifyCall, RoundType
  <1>7. CASE Defunct \/ CheckTasks
    <2>1. CASE Defunct
      BY <2>1 DEF Defunct
    <2>2. CASE CheckTasks
      BY <2>2 DEF CheckTasks
    <2>3. QED
      BY <1>7, <2>1, <2>2
  <1>8. CASE RestartInception
    BY <1>8 DEF RestartInception, Served
  <1>9. CASE UNCHANGED uvars
    BY <1>9 DEF uvars
  <1>10. QED
    BY <1>1, <1>2, <1>3, <1>4, <1>5, <1>6, <1>7, <1>8, <1>9 DEF UNext, VerifyRound, CheckRound

\* Users and the worker leave the verifier's call alone.
LEMMA OthersFrame ==
  ASSUME TypeInv, UsersAsk \/ WorkerRuns
  PROVE  thr'[Verifier] = thr[Verifier]
  <1>1. CASE UsersAsk
    <2>1. ASSUME NEW t \in Web, Asked(t) PROVE thr'[Verifier] = thr[Verifier]
      BY <2>1, RequestFrame DEF Asked
    <2>2. ASSUME NEW o \in used, Cancel(o) \/ Delete(o) \/ ResetSucced(o)
          PROVE  thr'[Verifier] = thr[Verifier]
      BY <2>2 DEF Cancel, Delete, ResetSucced
    <2>3. QED
      BY <1>1, <2>1, <2>2 DEF UsersAsk
  <1>2. CASE WorkerRuns
    <2>1. CASE WorkerStep
      BY <2>1 DEF WorkerStep, WorkerPick, WorkerTake, WorkerLoad, WorkerRun, WorkerSave,
         WorkerReport, WorkerFinish
    <2>2. CASE WorkerAbort
      BY <2>2 DEF WorkerAbort
    <2>3. QED
      BY <1>2, <2>1, <2>2 DEF WorkerRuns, WorkerMoves, WorkerLoadsNothing
  <1>3. QED
    BY <1>1, <1>2

\* Users, handlers and the worker leave a verifier that waits to POST alone, and
\* bring none to that point or to the beginning of an execution.
LEMMA WaitFrame ==
  ASSUME TypeInv, UsersAsk \/ CallsGoOn \/ WorkerRuns
  PROVE  \/ thr'[Verifier] = thr[Verifier]
         \/ /\ Continue(Verifier)
            /\ thr[Verifier].pc # "verifyPost"
            /\ thr'[Verifier].pc \notin {"verifyPost", "execCheck"}
  <1>1. CASE UsersAsk \/ WorkerRuns
    BY <1>1, OthersFrame
  <1>2. CASE CallsGoOn
    <2>1. PICK t \in Thread : Continue(t)
      BY <1>2 DEF CallsGoOn
    <2>2. CASE t = Verifier
      BY <2>1, <2>2, ContinueFrame
    <2>3. CASE t # Verifier
      BY <2>1, <2>3, ContinueFrame DEF Thread
    <2>4. QED
      BY <2>2, <2>3
  <1>3. QED
    BY <1>1, <1>2

\* What is cut short: another thread, or the verifier with its round, or the worker.
LEMMA CutFrame ==
  ASSUME TypeInv, CutShort
  PROVE  /\ orderVars' = orderVars /\ taskVars' = taskVars
         /\ \/ thr'[Verifier] = thr[Verifier] /\ round' = round /\ credit' = credit
            \/ /\ thr'[Verifier] = Idle /\ round' = NoRound
               /\ credit' = [o \in OrderId |-> credit[o] + One(Unreported(o))]
  BY DEF CutShort, Abort, WorkerAbort, Reply, TypeInv, TypeOK, Thread

\* Round and call of the verifier stay together.
LEMMA TogetherStep == TypeInv /\ UTypeInv /\ [UNext]_uvars => Together'
  <1> SUFFICES ASSUME TypeInv, UTypeInv, [UNext]_uvars PROVE Together'
    OBVIOUS
  <1> USE DEF UTypeInv, Together
  <1>1. round \in RoundType
    BY DEF UTypeOK, RoundType
  <1>2. Verifier \in Thread /\ thr \in [Thread -> [pc: WebPoint, order: OrderId \cup {NoOrder},
                         sql: Sql \cup {NoSql}, num: Nat]]
    BY DEF Thread, TypeInv, TypeOK
  <1>3. CASE UsersAsk \/ CallsGoOn \/ WorkerRuns
    <2>1. OrderFrame
      BY <1>3 DEF UsersAsk, CallsGoOn, WorkerRuns
    <2>2. QED
      BY <1>1, <1>3, <2>1, WaitFrame, RoundFrame DEF NoRound, Idle
  <1>4. CASE CutShort
    BY <1>4, CutFrame DEF NoRound, Idle
  <1>5. CASE AdminEdits
    BY <1>5 DEF AdminEdits, UpdateAutoVerify, SetTimeRange, InstanceDeleted, vars
  <1>6. CASE VerifyBegin
    BY <1>2, <1>6 DEF VerifyBegin, VerifyPick, Goto, NoRound
  <1>7. ASSUME NEW t \in Time, VerifyInstance(t) PROVE Together'
    <2>1. CASE MayCall(RangeFor(thr[Verifier].order, round.range), t)
      BY <1>1, <1>7, <2>1 DEF VerifyInstance, vars, RoundType
    <2>2. CASE ~MayCall(RangeFor(thr[Verifier].order, round.range), t)
      BY <1>7, <2>2 DEF VerifyInstance, NoRound, Idle
    <2>3. QED
      BY <2>1, <2>2
  <1>8. CASE VerifyCall
    BY <1>2, <1>8 DEF VerifyCall, NoRound, Idle
  <1>9. CASE Defunct \/ CheckTasks \/ RestartInception
    BY <1>9 DEF Defunct, CheckTasks, RestartInception, vars
  <1>10. CASE UNCHANGED uvars
    BY <1>10 DEF uvars, vars
  <1>11. QED
    BY <1>3, <1>4, <1>5, <1>6, <1>7, <1>8, <1>9, <1>10 DEF UNext, VerifyRound, CheckRound

\* The settings, the round, the checker and the history keep their types in every
\* instance.
THEOREM UTypeCorrect == USpec => []UTypeInv
  BY UInitType, UStepType, TogetherStep, WorkflowCorrect, PTL DEF USpec, UTypeInv

\* Unattended is type-correct for every instance.
THEOREM UTypeSafe == USpec => []UTypeOK
  BY UTypeCorrect, PTL DEF UTypeInv

-----------------------------------------------------------------------------
(* The switch and the range *)

\* A round that has read the switch counts as the one execution that may come late.
SwitchInv ==
  ~setting.enable => late + One(round.pc \in {"instance", "post"}) <= 1

\* A round about to POST is in its range, as far as that range is tested.
RangeInv == MidnightRangeKept

\* The switch stops the verifier over every step.
LEMMA SwitchStep == UTypeInv /\ SwitchInv /\ [UNext]_uvars => SwitchInv'
  <1> SUFFICES ASSUME UTypeInv, SwitchInv, [UNext]_uvars PROVE SwitchInv'
    OBVIOUS
  <1> USE DEF SwitchInv, One
  <1>1. round \in RoundType /\ late \in Nat
    BY DEF UTypeInv, UTypeOK, RoundType
  <1>2. CASE UsersAsk \/ CallsGoOn \/ WorkerRuns
    <2>1. OrderFrame
      BY <1>2 DEF UsersAsk, CallsGoOn, WorkerRuns
    <2>2. late' = late /\ setting' = setting
      BY <2>1 DEF OrderFrame, policyVars
    <2>3. QED
      BY <1>1, <2>1, <2>2, RoundFrame DEF NoRound
  <1>3. CASE CutShort
    BY <1>1, <1>3 DEF CutShort, policyVars, NoRound
  <1>4. CASE AdminEdits
    <2>1. ASSUME NEW row \in Settings, UpdateAutoVerify(row) PROVE SwitchInv'
      BY <1>1, <2>1 DEF UpdateAutoVerify
    <2>2. ASSUME NEW i \in Instance, InstanceDeleted(i) PROVE SwitchInv'
      BY <2>2 DEF InstanceDeleted, historyVars
    <2>3. ASSUME NEW i \in Instance, NEW range \in TimeRange \cup {NoRange},
                 SetTimeRange(i, range)
          PROVE  SwitchInv'
      BY <2>3 DEF SetTimeRange, historyVars
    <2>4. QED
      BY <1>4, <2>1, <2>2, <2>3 DEF AdminEdits
  <1>5. CASE VerifyBegin
    BY <1>5 DEF VerifyBegin, MayStart, policyVars
  <1>6. ASSUME NEW t \in Time, VerifyInstance(t) PROVE SwitchInv'
    <2>1. round.pc = "instance" /\ late' = late /\ setting' = setting
      BY <1>6 DEF VerifyInstance, policyVars, historyVars
    <2>2. QED
      BY <1>1, <2>1
  <1>7. CASE VerifyCall
    BY <1>1, <1>7 DEF VerifyCall, NoRound, policyVars
  <1>8. CASE Defunct \/ CheckTasks \/ RestartInception
    BY <1>8 DEF Defunct, CheckTasks, RestartInception, policyVars, historyVars
  <1>9. CASE UNCHANGED uvars
    BY <1>9 DEF uvars, policyVars, historyVars
  <1>10. QED
    BY <1>2, <1>3, <1>4, <1>5, <1>6, <1>7, <1>8, <1>9 DEF UNext, VerifyRound, CheckRound

\* A round about to POST stays in its range over every step.
LEMMA RangeStep == TypeInv /\ UTypeInv /\ RangeInv /\ [UNext]_uvars => RangeInv'
  <1> SUFFICES ASSUME TypeInv, UTypeInv, RangeInv, [UNext]_uvars PROVE RangeInv'
    OBVIOUS
  <1> USE DEF RangeInv, MidnightRangeKept
  <1>1. round \in RoundType
    BY DEF UTypeInv, UTypeOK, RoundType
  <1>2. CASE UsersAsk \/ CallsGoOn \/ WorkerRuns
    <2>1. OrderFrame
      BY <1>2 DEF UsersAsk, CallsGoOn, WorkerRuns
    <2>2. QED
      BY <1>1, <2>1, RoundFrame DEF NoRound
  <1>3. CASE CutShort
    BY <1>3 DEF CutShort, NoRound
  <1>4. CASE AdminEdits
    BY <1>4 DEF AdminEdits, UpdateAutoVerify, SetTimeRange, InstanceDeleted
  <1>5. CASE VerifyBegin
    BY <1>5 DEF VerifyBegin, NoRound
  <1>6. ASSUME NEW t \in Time, VerifyInstance(t) PROVE RangeInv'
    <2> DEFINE range == RangeFor(thr[Verifier].order, round.range)
    <2>1. CASE MayCall(range, t)
      <3>1. round'.range = range /\ round'.at = t
        BY <1>1, <1>6, <2>1 DEF VerifyInstance, RoundType
      <3>2. round'.range \in TimeRange
        <4>1. UTypeOK'
          BY <1>6, UStepType DEF UNext, VerifyRound
        <4>2. QED
          BY <2>1, <3>1, <4>1 DEF UTypeOK, MayCall
      <3>3. isInExecTimeRange(round'.range.begin, round'.range.end, round'.at)
        BY <2>1, <3>1 DEF MayCall
      <3>4. round'.range.begin \in Time /\ round'.range.end \in Time /\ round'.at \in Time
        BY <3>1, <3>2
      <3>5. QED
        BY <3>3, <3>4, MidnightExact
    <2>2. CASE ~MayCall(range, t)
      BY <1>6, <2>2 DEF VerifyInstance, NoRound
    <2>3. QED
      BY <2>1, <2>2
  <1>7. CASE VerifyCall
    BY <1>7 DEF VerifyCall, NoRound
  <1>8. CASE Defunct \/ CheckTasks \/ RestartInception
    BY <1>8 DEF Defunct, CheckTasks, RestartInception
  <1>9. CASE UNCHANGED uvars
    BY <1>9 DEF uvars
  <1>10. QED
    BY <1>2, <1>3, <1>4, <1>5, <1>6, <1>7, <1>8, <1>9 DEF UNext, VerifyRound, CheckRound

\* In every instance the verifier starts at most one execution after the switch was
\* turned off.
THEOREM SwitchSafe == USpec => []SwitchOffStops
  <1>1. UInit => SwitchInv
    BY DEF UInit, NoRound, SwitchInv, One
  <1>2. UTypeInv /\ SwitchInv => SwitchOffStops
    BY DEF UTypeInv, UTypeOK, SwitchInv, One, SwitchOffStops
  <1>3. QED
    BY <1>1, <1>2, SwitchStep, UTypeCorrect, PTL DEF USpec

\* In every instance, for all times, the verifier keeps a range over midnight.
THEOREM MidnightSafe == USpec => []MidnightRangeKept
  <1>1. UInit => RangeInv
    BY DEF UInit, NoRound, RangeInv, MidnightRangeKept
  <1>2. QED
    BY <1>1, RangeStep, UTypeCorrect, WorkflowCorrect, PTL DEF USpec, RangeInv

-----------------------------------------------------------------------------
(* Flagged texts *)

\* Unless the order was edited since it was picked, its text, and the one the
\* verifier's call has loaded, are not flagged.
JudgedInv ==
  ~round.edited =>
    /\ thr[Verifier].pc = "verifyPost" => sqlText[thr[Verifier].order] \notin FlaggedSql
    /\ thr[Verifier].pc \in {"execCheck", "execRun"} => thr[Verifier].sql \notin FlaggedSql

\* The verifier's call reaches the run from the check only, with its text.
LEMMA RunFrame ==
  ASSUME TypeInv, Continue(Verifier), thr'[Verifier].pc \in {"execCheck", "execRun"}
  PROVE  thr[Verifier].pc = "execCheck" /\ thr'[Verifier].sql = thr[Verifier].sql
         /\ thr'[Verifier].order = thr[Verifier].order
  <1> DEFINE t == Verifier
  <1> USE DEF TypeInv, TypeOK, Thread, At, Goto, Step, Reply, Idle
  <1>1. CASE SaveRead(t) \/ SaveWrite(t) \/ CommitCheck(t) \/ CommitWrite(t)
    BY <1>1 DEF SaveRead, SaveWrite, CommitCheck, CommitWrite
  <1>2. CASE ExecuteCheck(t)
    <2>1. At(t, "execCheck") /\ (Step(t, "execRun") \/ Step(t, "addTask") \/ Reply(t))
      BY <1>2 DEF ExecuteCheck, BigOrderPoint
    <2>2. CASE Reply(t)
      BY <2>1, <2>2
    <2>3. CASE Step(t, "execRun") \/ Step(t, "addTask")
      BY <2>1, <2>3
    <2>4. QED
      BY <2>1, <2>2, <2>3
  <1>3. CASE ExecuteAddTask(t) \/ ExecuteSetAsync(t)
    BY <1>3 DEF ExecuteAddTask, ExecuteSetAsync
  <1>4. CASE ExecuteRun(t)
    BY <1>4 DEF ExecuteRun, AfterRun
  <1>5. CASE ExecuteReport(t) \/ ExecuteSave(t)
    <2>1. Step(t, "execSave") \/ Reply(t)
      BY <1>5 DEF ExecuteReport, ExecuteSave
    <2>2. CASE Reply(t)
      BY <2>2
    <2>3. CASE Step(t, "execSave")
      BY <2>3
    <2>4. QED
      BY <2>1, <2>2, <2>3
  <1>6. CASE RollbackRun(t) \/ RollbackLoad(t) \/ RollbackWrite(t)
    BY <1>6 DEF RollbackRun, AfterRollback, RollbackLoad, RollbackWrite
  <1>7. CASE ResetAsyncOrder(t)
    BY <1>7 DEF ResetAsyncOrder
  <1>8. QED
    BY <1>1, <1>2, <1>3, <1>4, <1>5, <1>6, <1>7 DEF Continue

\* Every step keeps flagged texts out, unless it edits the order.
LEMMA JudgedStep == TypeInv /\ UTypeInv /\ JudgedInv /\ [UNext]_uvars => JudgedInv'
  <1> SUFFICES ASSUME TypeInv, UTypeInv, JudgedInv, [UNext]_uvars PROVE JudgedInv'
    OBVIOUS
  <1> USE DEF JudgedInv
  <1>1. round \in RoundType
    BY DEF UTypeInv, UTypeOK, RoundType
  <1>2. Verifier \in Thread /\ thr \in [Thread -> [pc: WebPoint, order: OrderId \cup {NoOrder},
                         sql: Sql \cup {NoSql}, num: Nat]]
    BY DEF Thread, TypeInv, TypeOK
  <1>3. thr[Verifier].pc \in {"verifyPost", "execCheck", "execRun"}
          => thr[Verifier].order \in OrderId
    BY <1>2 DEF TypeInv, LocalsOK, HoldsOrder
  <1>4. CASE UsersAsk \/ CallsGoOn \/ WorkerRuns
    <2>1. OrderFrame
      BY <1>4 DEF UsersAsk, CallsGoOn, WorkerRuns
    <2>2. CASE thr'[Verifier] = Idle
      BY <2>2 DEF Idle
    <2>3. CASE thr'[Verifier] = thr[Verifier]
      BY <1>1, <1>3, <2>1, <2>3, RoundFrame DEF Idle
    <2>4. CASE Continue(Verifier) /\ thr'[Verifier].pc \in {"execCheck", "execRun"}
      <3>1. thr[Verifier].pc = "execCheck" /\ thr'[Verifier].sql = thr[Verifier].sql
        BY <2>4, RunFrame
      <3>2. round.edited => round'.edited
        BY <1>1, <1>3, <2>1, <2>4, <3>1, RoundFrame DEF Idle
      <3>3. QED
        BY <1>2, <2>4, <3>1, <3>2
    <2>5. QED
      BY <1>4, <2>2, <2>3, <2>4, WaitFrame
  <1>5. CASE CutShort
    BY <1>5, CutFrame DEF NoRound, Idle, orderVars
  <1>6. CASE AdminEdits
    BY <1>6 DEF AdminEdits, UpdateAutoVerify, SetTimeRange, InstanceDeleted, vars, orderVars
  <1>7. CASE VerifyBegin
    BY <1>2, <1>7 DEF VerifyBegin, VerifyPick, ToVerify, Goto, orderVars
  <1>8. ASSUME NEW t \in Time, VerifyInstance(t) PROVE JudgedInv'
    <2>1. CASE MayCall(RangeFor(thr[Verifier].order, round.range), t)
      BY <1>1, <1>8, <2>1 DEF VerifyInstance, vars, orderVars, RoundType
    <2>2. CASE ~MayCall(RangeFor(thr[Verifier].order, round.range), t)
      BY <1>8, <2>2 DEF VerifyInstance, Idle
    <2>3. QED
      BY <2>1, <2>2
  <1>9. CASE VerifyCall
    <2>1. CASE thr'[Verifier] = Idle
      BY <2>1 DEF Idle
    <2>2. CASE thr'[Verifier] # Idle
      <3>1. round'.edited = round.edited
        BY <1>9, <2>2 DEF VerifyCall, NoRound
      <3>2. /\ thr[Verifier].pc = "verifyPost"
            /\ thr'[Verifier].pc = "execCheck"
            /\ thr'[Verifier].sql = sqlText[thr[Verifier].order]
        BY <1>2, <1>9, <2>2 DEF VerifyCall, VerifyPost, LoadOrder, Goto, Reply, At
      <3>3. QED
        BY <3>1, <3>2
    <2>3. QED
      BY <2>1, <2>2
  <1>10. CASE Defunct \/ CheckTasks \/ RestartInception
    BY <1>10 DEF Defunct, CheckTasks, RestartInception, vars, orderVars
  <1>11. CASE UNCHANGED uvars
    BY <1>11 DEF uvars, vars, orderVars
  <1>12. QED
    BY <1>4, <1>5, <1>6, <1>7, <1>8, <1>9, <1>10, <1>11 DEF UNext, VerifyRound, CheckRound

\* In every instance the verifier has a flagged text run only if its order was
\* edited after it was picked.
THEOREM FlaggedSafe == USpec => []FlaggedNeedsAnEdit
  <1>1. UInit => JudgedInv
    BY DEF UInit, Init, Idle, Thread, JudgedInv
  <1>2. JudgedInv => FlaggedNeedsAnEdit
    BY DEF JudgedInv, FlaggedNeedsAnEdit
  <1>3. QED
    BY <1>1, <1>2, JudgedStep, UTypeCorrect, WorkflowCorrect, PTL DEF USpec

-----------------------------------------------------------------------------
(* The restart of Inception *)

\* A background run is under way.
Held == wrk.pc \notin {"idle", "picked"}

\* A task held and not hidden says so in its row; one held when the restart has been
\* decided is hidden.
HiddenInv ==
  /\ Held /\ ~hidden => execStatus[wrk.task] = EXEC_STATUS_EXEC_ING
  /\ Held /\ checker = "restart" => hidden
  /\ wrkCut => hidden /\ wrk.pc = "running"

\* A task that a handler's step, a user's or the worker's leaves in the hands of the
\* worker, and that was there before, keeps its status or goes back to TO_EXEC.
LEMMA HeldFrame ==
  ASSUME TypeInv, UsersAsk \/ CallsGoOn \/ WorkerRuns, Held'
  PROVE  \/ /\ Held /\ wrk'.task = wrk.task
            /\ execStatus'[wrk.task] \in {execStatus[wrk.task], EXEC_STATUS_TO_EXEC}
         \/ /\ wrk.pc = "picked" /\ wrk'.task = wrk.task
            /\ execStatus'[wrk.task] = EXEC_STATUS_EXEC_ING
  <1> USE DEF Held, TypeInv, TypeOK, TablesTypeOK, LocalsOK
  <1>1. CASE UsersAsk
    <2>1. wrk' = wrk
      <3>1. ASSUME NEW t \in Web, Asked(t) PROVE wrk' = wrk
        BY <3>1, RequestFrame DEF Asked
      <3>2. ASSUME NEW o \in used, Cancel(o) \/ Delete(o) \/ ResetSucced(o)
            PROVE  wrk' = wrk
        BY <3>2 DEF Cancel, Delete, ResetSucced
      <3>3. QED
        BY <1>1, <3>1, <3>2 DEF UsersAsk
    <2>2. wrk.task \in TaskId
      BY <2>1
    <2>3. ASSUME NEW t \in Web, Request(t)
          PROVE  execStatus'[wrk.task] \in {execStatus[wrk.task], EXEC_STATUS_TO_EXEC}
      BY <2>2, <2>3 DEF Request, SaveBegin, CommitBegin, ExecuteBegin, RollbackBegin,
         ResetAsyncBegin, RearmTasks, taskVars
    <2>4. ASSUME NEW o \in used, Cancel(o) \/ Delete(o) \/ ResetSucced(o)
          PROVE  execStatus' = execStatus
      BY <2>4 DEF Cancel, Delete, ResetSucced, taskVars
    <2>5. QED
      BY <1>1, <2>1, <2>3, <2>4 DEF UsersAsk, Asked
  <1>2. CASE CallsGoOn
    <2>1. PICK t \in Thread : Continue(t)
      BY <1>2 DEF CallsGoOn
    <2>2. wrk' = wrk
      BY <2>1, ContinueFrame
    <2>3. wrk.task \in TaskId
      BY <2>2
    <2>4. CASE ExecuteAddTask(t)
      BY <2>2, <2>3, <2>4 DEF ExecuteAddTask, AddTask
    <2>5. CASE ~ExecuteAddTask(t)
      <3>1. execStatus' = execStatus
        BY <2>1, <2>5 DEF Continue, SaveRead, SaveWrite, CommitCheck, CommitWrite,
           ExecuteCheck, ExecuteSetAsync, ExecuteRun, ExecuteReport, ExecuteSave,
           RollbackRun, RollbackLoad, RollbackWrite, ResetAsyncOrder, taskVars
      <3>2. QED
        BY <2>2, <3>1
    <2>6. QED
      BY <2>4, <2>5
  <1>3. CASE WorkerRuns
    <2>1. CASE WorkerPick \/ WorkerFinish \/ WorkerAbort
      BY <2>1 DEF WorkerPick, WorkerFinish, WorkerAbort, WorkerIdle
    <2>2. CASE WorkerTake
      BY <2>2 DEF WorkerTake, UpdateExecStatus, WorkerGoto
    <2>3. CASE WorkerLoad
      <3>1. wrk.pc = "taken" /\ execStatus' = execStatus
        BY <2>3 DEF WorkerLoad, taskVars
      <3>2. CASE taskOrder[wrk.task] \in rows
        BY <2>3, <3>1, <3>2 DEF WorkerLoad
      <3>3. CASE taskOrder[wrk.task] \notin rows
        BY <2>3, <3>3 DEF WorkerLoad, WorkerIdle
      <3>4. QED
        BY <3>2, <3>3
    <2>4. CASE WorkerRun \/ WorkerSave \/ WorkerReport
      BY <2>4 DEF WorkerRun, WorkerSave, WorkerReport, WorkerGoto, taskVars
    <2>5. QED
      BY <1>3, <2>1, <2>2, <2>3, <2>4
         DEF WorkerRuns, WorkerMoves, WorkerLoadsNothing, WorkerStep
  <1>4. QED
    BY <1>1, <1>2, <1>3

\* Every step keeps the broken runs hidden.
LEMMA HiddenStep == TypeInv /\ UTypeInv /\ HiddenInv /\ [UNext]_uvars => HiddenInv'
  <1> SUFFICES ASSUME TypeInv, UTypeInv, HiddenInv, [UNext]_uvars PROVE HiddenInv'
    OBVIOUS
  <1> USE DEF HiddenInv, Held
  <1>1. CASE UsersAsk \/ CallsGoOn \/ WorkerRuns
    <2>1. checker' = checker /\ wrkCut' = (wrkCut /\ wrk' = wrk)
          /\ hidden' = IF wrk'.pc \in {"idle", "picked"} THEN FALSE ELSE Unseen
      BY <1>1 DEF UsersAsk, CallsGoOn, WorkerRuns, OrderFrame, BrokenCallsFail, Observed,
         checkVars
    <2>2. CASE ~Held'
      BY <2>1, <2>2
    <2>3. CASE Held'
      <3>1. hidden' <=> Unseen
        BY <2>1, <2>3
      <3>2. CASE wrk.pc = "picked"
        BY <1>1, <2>1, <2>3, <3>1, <3>2, HeldFrame DEF Unseen
      <3>3. CASE wrk.pc # "picked"
        <4>1. /\ Held /\ wrk'.task = wrk.task
              /\ execStatus'[wrk.task] \in {execStatus[wrk.task], EXEC_STATUS_TO_EXEC}
          BY <1>1, <2>3, <3>3, HeldFrame
        <4>2. hidden' <=> hidden \/ ( /\ execStatus[wrk.task] = EXEC_STATUS_EXEC_ING
                                     /\ execStatus'[wrk.task] = EXEC_STATUS_TO_EXEC )
          BY <3>1, <3>3 DEF Unseen
        <4>3. QED
          BY <2>1, <4>1, <4>2
      <3>4. QED
        BY <3>2, <3>3
    <2>4. QED
      BY <2>2, <2>3
  <1>2. CASE CutShort
    <2>1. checker' = checker /\ wrkCut' = (wrkCut /\ wrk' = wrk)
          /\ hidden' = (hidden /\ wrk' = wrk) /\ execStatus' = execStatus
      BY <1>2, CutFrame DEF CutShort, BrokenCallsFail, checkVars, taskVars
    <2>2. wrk' = wrk \/ wrk' = WorkerIdle
      BY <1>2 DEF CutShort, Abort, WorkerAbort
    <2>3. CASE wrk' = wrk
      BY <2>1, <2>3
    <2>4. CASE wrk' = WorkerIdle /\ wrk' # wrk
      BY <2>1, <2>4 DEF WorkerIdle
    <2>5. QED
      BY <2>2, <2>3, <2>4
  <1>3. CASE AdminEdits
    BY <1>3 DEF AdminEdits, UpdateAutoVerify, SetTimeRange, InstanceDeleted, vars,
       checkVars, historyVars, taskVars
  <1>4. CASE VerifyBegin \/ VerifyCall \/ \E t \in Time : VerifyInstance(t)
    <2>1. UNCHANGED <<checker, wrkCut, hidden>>
      BY <1>4 DEF VerifyBegin, VerifyCall, VerifyInstance, checkVars, historyVars
    <2>2. UNCHANGED <<wrk, execStatus>>
      BY <1>4 DEF VerifyBegin, VerifyPick, VerifyCall, VerifyInstance, VerifyPost, vars,
         taskVars
    <2>3. QED
      BY <2>1, <2>2
  <1>5. CASE Defunct
    BY <1>5 DEF Defunct, vars, taskVars, historyVars
  <1>6. CASE CheckTasks
    <2>1. Held => wrk.task \in TaskId /\ taskOrder[wrk.task] # NoOrder
      BY DEF TypeInv, LocalsOK
    <2>2. Held => hidden
      BY <1>6, <2>1 DEF CheckTasks, SeemsIdle
    <2>3. QED
      BY <1>6, <2>2 DEF CheckTasks, vars, taskVars, historyVars
  <1>7. CASE RestartInception
    BY <1>7 DEF RestartInception, vars, taskVars, historyVars
  <1>8. CASE UNCHANGED uvars
    BY <1>8 DEF uvars, vars, taskVars, checkVars, historyVars
  <1>9. QED
    BY <1>1, <1>2, <1>3, <1>4, <1>5, <1>6, <1>7, <1>8 DEF UNext, VerifyRound, CheckRound

\* In every instance a restart of Inception breaks only those background runs that
\* its decision could not see.
THEOREM CutSafe == USpec => []CutRunsWereHidden
  <1>1. UInit => HiddenInv
    BY DEF UInit, Init, WorkerIdle, HiddenInv, Held
  <1>2. HiddenInv => CutRunsWereHidden
    BY DEF HiddenInv, CutRunsWereHidden
  <1>3. QED
    BY <1>1, <1>2, HiddenStep, UTypeCorrect, WorkflowCorrect, PTL DEF USpec

-----------------------------------------------------------------------------
(* Automatic executions are paid for *)

Waiting(o) == o \in rows /\ status[o] = ORDER_STATUS_NO_VIEW

\* The verifier may yet launch the order, or will once it finds it waiting.
MayLaunch(o) ==
  /\ ~Unreported(o)
  /\ \/ Waiting(o)
     \/ thr[Verifier].order = o /\ thr[Verifier].pc \in {"verifyPost", "execCheck"}

PaidInv ==
  \A o \in OrderId : credit[o] >= 0 /\ (MayLaunch(o) => credit[o] >= 1)

\* Users and the worker make no order wait.
LEMMA OthersWaiting ==
  ASSUME TypeInv, UsersAsk \/ WorkerRuns, NEW o \in OrderId, Waiting(o)'
  PROVE  Waiting(o)
  <1> USE DEF TypeInv, TypeOK, TablesTypeOK, Waiting
  <1>1. ASSUME NEW t \in Web, Asked(t) PROVE Waiting(o)
    BY <1>1, RequestFrame DEF Asked, orderVars
  <1>2. ASSUME NEW p \in used, Cancel(p) \/ Delete(p) \/ ResetSucced(p) PROVE Waiting(o)
    BY <1>2 DEF Cancel, Delete, DeleteOrder, ResetSucced, SetOrderStatus, Put,
       ORDER_STATUS_NO_VIEW, ORDER_STATUS_NO_COMMIT, ORDER_STATUS_AGREE_SUCCED
  <1>3. CASE WorkerReport
    BY <1>3 DEF WorkerReport, SetLatestExecResult, SetOrderStatus, Put,
       ORDER_STATUS_NO_VIEW, ORDER_STATUS_AGREE_SUCCED, ORDER_STATUS_AGREE_FAILED
  <1>4. CASE (WorkerStep /\ ~WorkerReport) \/ WorkerAbort
    BY <1>4 DEF WorkerStep, WorkerPick, WorkerTake, WorkerLoad, WorkerRun, WorkerSave,
       SaveRawResultSet, WorkerFinish, WorkerAbort, orderVars
  <1>5. QED
    BY <1>1, <1>2, <1>3, <1>4 DEF UsersAsk, WorkerRuns, WorkerMoves, WorkerLoadsNothing

\* Of the handlers only a commit makes an order wait.
LEMMA ContinueWaiting ==
  ASSUME TypeInv, PendingInv, NEW t \in Thread, Continue(t), NEW o \in OrderId, Waiting(o)'
  PROVE  Waiting(o) \/ CommittedBy(t, o)
  <1> USE DEF TypeInv, TypeOK, TablesTypeOK, Waiting, At, Put, SetOrderStatus,
              ORDER_STATUS_NO_VIEW, ORDER_STATUS_AGREE_SUCCED, ORDER_STATUS_AGREE_FAILED,
              ORDER_STATUS_ASYNC_EXEC
  <1>1. CASE CommitWrite(t)
    BY <1>1 DEF CommitWrite, SaveOrder, InsertOrder, UpdateOrder, CommittedBy
  <1>2. CASE SaveWrite(t)
    <2>1. thr[t].num # ORDER_STATUS_NO_VIEW
      BY <1>2 DEF SaveWrite, PendingInv
    <2>2. QED
      BY <1>2, <2>1 DEF SaveWrite, SaveOrder, InsertOrder, UpdateOrder
  <1>3. CASE ExecuteCheck(t) \/ ExecuteReport(t)
    BY <1>3 DEF ExecuteCheck, ExecuteReport, SetLatestExecResult, orderVars
  <1>4. CASE ExecuteSetAsync(t) \/ ResetAsyncOrder(t)
    BY <1>4 DEF ExecuteSetAsync, ResetAsyncOrder, SetToAsyncExecStatus
  <1>5. CASE ExecuteSave(t) \/ RollbackWrite(t)
    BY <1>5 DEF ExecuteSave, SaveRawResultSet, RollbackWrite, SetRollBackTimes
  <1>6. CASE SaveRead(t) \/ CommitCheck(t) \/ ExecuteAddTask(t) \/ ExecuteRun(t)
             \/ RollbackRun(t) \/ RollbackLoad(t)
    BY <1>6 DEF SaveRead, CommitCheck, ExecuteAddTask, ExecuteRun, RollbackRun,
       RollbackLoad, orderVars
  <1>7. QED
    BY <1>1, <1>2, <1>3, <1>4, <1>5, <1>6 DEF Continue

\* The report of a launch takes the order out of the waiting state.
LEMMA ReportFrame ==
  ASSUME TypeInv, Continue(Verifier), NEW o \in OrderId, Unreported(o), ~Unreported(o)'
  PROVE  ~Waiting(o)'
  <1> DEFINE t == Verifier
  <1>1. t \in Thread /\ thr[t].order = o
    BY DEF Thread, Unreported
  <1> USE DEF TypeInv, TypeOK, TablesTypeOK, Waiting, At, Put, SetOrderStatus,
              ORDER_STATUS_NO_VIEW, ORDER_STATUS_AGREE_SUCCED, ORDER_STATUS_AGREE_FAILED,
              ORDER_STATUS_ASYNC_EXEC
  <1>2. CASE ExecuteReport(t)
    BY <1>1, <1>2 DEF ExecuteReport, SetLatestExecResult
  <1>3. CASE ExecuteSetAsync(t)
    BY <1>1, <1>3 DEF ExecuteSetAsync, SetToAsyncExecStatus
  <1>4. CASE ExecuteAddTask(t)
    BY <1>1, <1>4 DEF ExecuteAddTask, Step, Goto, Unreported
  <1>5. CASE ExecuteRun(t)
    BY <1>1, <1>5 DEF ExecuteRun, AfterRun, Step, Goto, Unreported
  <1>6. CASE SaveRead(t) \/ SaveWrite(t) \/ CommitCheck(t) \/ CommitWrite(t)
             \/ ExecuteCheck(t) \/ ExecuteSave(t) \/ RollbackRun(t) \/ RollbackLoad(t)
             \/ RollbackWrite(t) \/ ResetAsyncOrder(t)
    BY <1>6 DEF SaveRead, SaveWrite, CommitCheck, CommitWrite, ExecuteCheck, ExecuteSave,
       RollbackRun, RollbackLoad, RollbackWrite, ResetAsyncOrder, Unreported
  <1>7. QED
    BY <1>2, <1>3, <1>4, <1>5, <1>6 DEF Continue

\* A launch makes the order unreported.
LEMMA LaunchFrame ==
  ASSUME TypeInv, Continue(Verifier), NEW o \in OrderId, LaunchedNow(o)
  PROVE  Unreported(o)'
  <1>1. CASE ExecuteCheck(Verifier)
    <2>1. thr[Verifier].order = o /\ thr'[Verifier].pc \in {"execRun", "addTask"}
      BY DEF LaunchedNow
    <2>2. Step(Verifier, "execRun") \/ Step(Verifier, "addTask") \/ Reply(Verifier)
      BY <1>1 DEF ExecuteCheck, BigOrderPoint
    <2>3. Verifier \in DOMAIN thr
      BY DEF TypeInv, TypeOK, Thread
    <2>4. ~Reply(Verifier)
      BY <2>1, <2>3 DEF Reply, Idle
    <2>5. thr'[Verifier].order = thr[Verifier].order
      BY <2>2, <2>3, <2>4 DEF Step, Goto
    <2>6. QED
      BY <2>1, <2>5 DEF Unreported
  <1>2. CASE ~ExecuteCheck(Verifier)
    BY <1>2 DEF Continue, SaveRead, SaveWrite, CommitCheck, CommitWrite, ExecuteAddTask,
       ExecuteSetAsync, ExecuteRun, ExecuteReport, ExecuteSave, RollbackRun, RollbackLoad,
       RollbackWrite, ResetAsyncOrder, LaunchedNow, At
  <1>3. QED
    BY <1>1, <1>2

\* A handler's step keeps every launch paid.
LEMMA PaidContinue ==
  ASSUME TypeInv, PendingInv, UTypeInv, PaidInv, NEW t \in Thread, Continue(t), Recorded(t)
  PROVE  PaidInv'
  <1> SUFFICES ASSUME NEW o \in OrderId
               PROVE  credit'[o] >= 0 /\ (MayLaunch(o)' => credit'[o] >= 1)
    BY DEF PaidInv
  <1>1. credit[o] \in Int /\ credit[o] >= 0 /\ (MayLaunch(o) => credit[o] >= 1)
    BY DEF PaidInv, UTypeInv, UTypeOK
  <1>2. credit'[o] = credit[o] + One(CommittedBy(t, o))
                               - One(t = Verifier /\ LaunchedNow(o))
    BY DEF Recorded
  <1>3. CASE t # Verifier
    <2>1. thr'[Verifier] = thr[Verifier]
      BY <1>3, ContinueFrame DEF Thread
    <2>2. MayLaunch(o)' => MayLaunch(o) \/ CommittedBy(t, o)
      BY <2>1, ContinueWaiting DEF MayLaunch, Unreported
    <2>3. QED
      BY <1>1, <1>2, <1>3, <2>2 DEF One
  <1>4. CASE t = Verifier /\ LaunchedNow(o)
    <2>1. ~CommittedBy(t, o) /\ MayLaunch(o)
      BY <1>4 DEF CommittedBy, LaunchedNow, MayLaunch, Unreported, At
    <2>2. Unreported(o)'
      BY <1>4, LaunchFrame
    <2>3. QED
      BY <1>1, <1>2, <1>4, <2>1, <2>2 DEF One, MayLaunch
  <1>5. CASE t = Verifier /\ ~LaunchedNow(o)
    <2>1. MayLaunch(o)' => Waiting(o)'
      BY <1>5, ContinueFrame DEF MayLaunch
    <2>2. MayLaunch(o)' => MayLaunch(o) \/ CommittedBy(t, o)
      BY <1>5, <2>1, ContinueWaiting, ReportFrame DEF MayLaunch
    <2>3. QED
      BY <1>1, <1>2, <1>5, <2>2 DEF One
  <1>6. QED
    BY <1>3, <1>4, <1>5

\* Every step keeps every launch paid.
LEMMA PaidStep ==
  TypeInv /\ PendingInv /\ UTypeInv /\ PaidInv /\ [UNext]_uvars => PaidInv'
  <1> SUFFICES ASSUME TypeInv, PendingInv, UTypeInv, PaidInv, [UNext]_uvars PROVE PaidInv'
    OBVIOUS
  <1>1. \A o \in OrderId : credit[o] \in Int
    BY DEF UTypeInv, UTypeOK
  <1>2. CASE UsersAsk \/ WorkerRuns
    <2>1. credit' = credit
      BY <1>2 DEF UsersAsk, WorkerRuns
    <2>2. \A o \in OrderId : MayLaunch(o)' => MayLaunch(o)
      BY <1>2, OthersFrame, OthersWaiting DEF MayLaunch, Unreported
    <2>3. QED
      BY <2>1, <2>2 DEF PaidInv
  <1>3. CASE CallsGoOn
    BY <1>3, PaidContinue DEF CallsGoOn
  <1>4. CASE CutShort
    <2>1. orderVars' = orderVars
      BY <1>4, CutFrame
    <2>2. CASE thr'[Verifier] = thr[Verifier] /\ credit' = credit
      BY <2>1, <2>2 DEF PaidInv, MayLaunch, Unreported, Waiting, orderVars
    <2>3. CASE /\ thr'[Verifier] = Idle
               /\ credit' = [o \in OrderId |-> credit[o] + One(Unreported(o))]
      <3>1. \A o \in OrderId : MayLaunch(o)' => MayLaunch(o) \/ Unreported(o)
        BY <2>1, <2>3 DEF MayLaunch, Waiting, orderVars, Idle
      <3>2. \A o \in OrderId : credit'[o] = credit[o] + One(Unreported(o))
        BY <2>3
      <3>3. QED
        BY <1>1, <3>1, <3>2 DEF PaidInv, One
    <2>4. QED
      BY <1>4, <2>2, <2>3, CutFrame
  <1>5. CASE VerifyBegin
    <2>1. UNCHANGED <<credit, rows, status>>
      BY <1>5 DEF VerifyBegin, VerifyPick, historyVars, orderVars
    <2>2. PICK p \in ToVerify : Goto(Verifier, "verifyPost", p, NoSql, 0)
      BY <1>5 DEF VerifyBegin, VerifyPick
    <2>3. thr'[Verifier].order = p /\ Waiting(p) /\ ~Unreported(p)
      BY <1>5, <2>2 DEF VerifyBegin, VerifyPick, Goto, At, ToVerify, Waiting, Unreported,
         TypeInv, TypeOK, Thread
    <2>4. \A o \in OrderId : Waiting(o)' <=> Waiting(o)
      BY <2>1 DEF Waiting
    <2>5. \A o \in OrderId : MayLaunch(o)' => MayLaunch(o)
      BY <1>5, <2>3, <2>4 DEF VerifyBegin, VerifyPick, At, MayLaunch, Unreported
    <2>6. QED
      BY <2>1, <2>5 DEF PaidInv
  <1>6. CASE VerifyCall \/ \E t \in Time : VerifyInstance(t)
    <2>1. UNCHANGED <<credit, rows, status>>
      BY <1>6 DEF VerifyCall, VerifyInstance, VerifyPost, vars, historyVars, orderVars
    <2>2. \/ thr'[Verifier] = thr[Verifier] \/ thr'[Verifier] = Idle
          \/ /\ thr[Verifier].pc = "verifyPost" /\ thr'[Verifier].pc = "execCheck"
             /\ thr'[Verifier].order = thr[Verifier].order
      <3>1. Verifier \in DOMAIN thr
        BY DEF TypeInv, TypeOK, Thread
      <3>2. VerifyPost => At(Verifier, "verifyPost")
                          /\ (LoadOrder(Verifier, thr[Verifier].order) \/ Reply(Verifier))
        BY DEF VerifyPost
      <3>3. VerifyPost \/ thr' = thr
        BY <1>6 DEF VerifyCall, VerifyInstance, vars
      <3>4. CASE Reply(Verifier)
        BY <3>1, <3>4 DEF Reply
      <3>5. CASE LoadOrder(Verifier, thr[Verifier].order) /\ At(Verifier, "verifyPost")
        BY <3>1, <3>5 DEF LoadOrder, Goto, At
      <3>6. QED
        BY <3>2, <3>3, <3>4, <3>5
    <2>3. \A o \in OrderId : Waiting(o)' <=> Waiting(o)
      BY <2>1 DEF Waiting
    <2>4. \A o \in OrderId : ~Unreported(o)
      BY <1>6 DEF VerifyCall, VerifyInstance, UTypeInv, Together, Unreported
    <2>5. \A o \in OrderId : MayLaunch(o)' => MayLaunch(o)
      <3>1. SUFFICES ASSUME NEW o \in OrderId, MayLaunch(o)' PROVE MayLaunch(o)
        OBVIOUS
      <3>2. CASE Waiting(o)'
        BY <2>3, <2>4, <3>2 DEF MayLaunch
      <3>3. CASE thr'[Verifier].order = o /\ thr'[Verifier].pc \in {"verifyPost", "execCheck"}
        BY <2>2, <2>4, <3>3 DEF MayLaunch, Idle
      <3>4. QED
        BY <3>1, <3>2, <3>3 DEF MayLaunch
    <2>6. QED
      BY <2>1, <2>5 DEF PaidInv
  <1>7. CASE AdminEdits \/ Defunct \/ CheckTasks \/ RestartInception
    <2>1. UNCHANGED <<credit, vars>>
      BY <1>7 DEF AdminEdits, UpdateAutoVerify, SetTimeRange, InstanceDeleted, Defunct,
         CheckTasks, RestartInception, historyVars
    <2>2. QED
      BY <2>1 DEF PaidInv, MayLaunch, Unreported, Waiting, vars, orderVars
  <1>8. CASE UNCHANGED uvars
    BY <1>8 DEF uvars, vars, orderVars, historyVars, PaidInv, MayLaunch, Unreported, Waiting
  <1>9. QED
    BY <1>2, <1>3, <1>4, <1>5, <1>6, <1>7, <1>8 DEF UNext, VerifyRound, CheckRound

\* In every instance each automatic launch of an order is paid by a commit of it, or
\* by an earlier launch whose report was cut short.
THEOREM PaidSafe == USpec => []AutoRunsArePaid
  <1>1. UInit => PaidInv
    BY DEF UInit, Init, TablesInit, PaidInv, MayLaunch, Waiting, Thread, Idle
  <1>2. PaidInv => AutoRunsArePaid
    BY DEF PaidInv, AutoRunsArePaid
  <1>3. TypeInv /\ EvidenceInv /\ UTypeInv /\ PaidInv /\ [UNext]_uvars => PaidInv'
    BY PaidStep DEF EvidenceInv
  <1>4. QED
    BY <1>1, <1>2, <1>3, UTypeCorrect, WorkflowCorrect, PTL DEF USpec
-----------------------------------------------------------------------------
(* The guarantees of the workflow under the policy *)

\* Whatever the verifier, the settings, check_defunct and the restarts of Inception
\* add, the tables keep everything SqlOrder guarantees of them.
GuaranteesHold ==
  /\ PendingWasChecked /\ SuccessIsBacked /\ RollbackUndoesARun
  /\ RollbackCountIsHonest /\ AsyncHasTask /\ TasksAreAccounted

\* Every guarantee about the tables holds in the composition, in every instance.
THEOREM GuaranteesCarryOver == USpec => []GuaranteesHold
  BY PolicyRefines, PendingSafe, SuccessSafe, RollbackSafe, CountSafe, AsyncSafe,
     TasksAccounted, PTL DEF ImplementsSqlOrder, GuaranteesHold

\* A counted rollback stays on record, and sql_task remains an exclusive queue whose
\* every run is paid for by an arming, although calls of Inception are broken by
\* restarts.
THEOREM HistoryCarriesOver == USpec => RollbackRecordSticks /\ RunsAreArmedAndExclusive
  BY PolicyRefines, RecordSticks, QueueImplemented, PTL DEF ImplementsSqlOrder

\* A task that blocks the restart of Inception although the worker does not hold it
\* was lost by the worker in an exception or a restart: nothing else leaves a task in
\* EXEC_ING (async_sql_exec.py:39-108, check_defunct.py:29-36).
OrphansWereLost ==
  Orphan => \E k \in dropped : execStatus[k] = EXEC_STATUS_EXEC_ING

\* The exception that DefunctIsCleared makes has one cause, in every instance.
THEOREM OrphansHaveACause == USpec => []OrphansWereLost
  <1>1. GuaranteesHold => OrphansWereLost
    BY DEF GuaranteesHold, TasksAreAccounted, OrphansWereLost, Orphan
  <1>2. QED
    BY <1>1, GuaranteesCarryOver, PTL

-----------------------------------------------------------------------------
(* Zombies are cleared: for every instance, from what keeps check_defunct  *)
(* back; that the worker's runs end and that a check which could succeed   *)
(* time and again is made in the end are premises.                         *)

Looking == checker = "idle"
CanCheck == Looking /\ zombies /\ SeemsIdle

ChecksGoOn == []<>Looking /\ ([]<>CanCheck => []<>~Looking)

\* A restart that was decided upon is carried out before the next look.
LEMMA DecidedStays ==
  ASSUME UTypeOK, ~Looking, [UNext]_uvars
  PROVE  ~Looking' \/ ~zombies'
  <1> USE DEF Looking
  <1>1. CASE UNCHANGED checker
    BY <1>1
  <1>2. CASE RestartInception
    BY <1>2 DEF RestartInception
  <1>3. QED
    BY <1>1, <1>2 DEF UNext, UsersAsk, CallsGoOn, WorkerRuns, OrderFrame, CutShort, AdminEdits,
       UpdateAutoVerify, SetTimeRange, InstanceDeleted, VerifyRound, VerifyBegin,
       VerifyInstance, VerifyCall, Defunct, CheckRound, CheckTasks, checkVars, uvars

\* When the worker is idle nothing keeps a restart back but an orphan.
LEMMA OnlyOrphansHinder ==
  ASSUME HandsEmpty, wrk.pc = "idle", ~Orphan
  PROVE  SeemsIdle
  <1>1. wrk.task \notin TaskId
    BY DEF HandsEmpty, WorkerIdle
  <1>2. QED
    BY <1>1 DEF Orphan, SeemsIdle

\* In every instance too many zombies lead to a restart or an orphan is in the way, if
\* the worker's runs end and checks go on: nothing else keeps a check back for ever.
THEOREM ZombiesAreCleared == USpec /\ RunsEnd /\ ChecksGoOn => DefunctIsCleared
  <1>1. UTypeOK /\ ~Looking /\ [UNext]_uvars => ~Looking' \/ ~zombies'
    BY DecidedStays
  <1>2. HandsEmpty /\ Resting /\ ~Orphan => SeemsIdle
    BY OnlyOrphansHinder DEF Resting
  <1>3. Looking /\ zombies /\ SeemsIdle => CanCheck
    BY DEF CanCheck
  <1>4. QED
    BY <1>1, <1>2, <1>3, PolicyRefines, IdleHandsEmpty, UTypeSafe, PTL
       DEF USpec, ImplementsSqlOrder, RunsEnd, ChecksGoOn, DefunctIsCleared
=============================================================================
