------------------------ MODULE SqlOrderHistoryProofs ------------------------
(***************************************************************************)
(* Machine-checked proofs about what the system did in the past: sql_task  *)
(* and its worker implement JobQueue, and roll_back_times never counts a   *)
(* rollback that did not happen and never returns to zero.  Further, what  *)
(* it takes for an order to be rolled back twice or to stay in ASYNC_EXEC, *)
(* and for the queue to drain.                                             *)
(***************************************************************************)
EXTENDS SqlOrderProofs, FiniteSetTheorems

USE NullsAssumption, OrderAssumption

-----------------------------------------------------------------------------
(* Rollbacks *)

\* The threads that have rolled an order back and not yet counted it.
Counting == {"rollbackLoad", "rollbackWrite"}
Uncounted(o) == {t \in Thread : thr[t].pc \in Counting /\ thr[t].order = o}

\* Every rollback is counted, about to be counted, or lost: the counter and the
\* uncounted threads together never exceed the rollbacks, and neither does a
\* counter read before another thread's write.
CountOf(o) ==
  /\ rollBackTimes[o] + Cardinality(Uncounted(o)) <= reverted[o]
  /\ \A t \in Thread :
       thr[t].pc = "rollbackWrite" /\ thr[t].order = o =>
         thr[t].num + Cardinality(Uncounted(o)) <= reverted[o]

CountInv == \A o \in OrderId : CountOf(o)

\* The threads are finitely many, hence so are the uncounted ones.
LEMMA UncountedFinite ==
  ASSUME NEW S \in SUBSET Thread
  PROVE  IsFiniteSet(S) /\ Cardinality(S) \in Nat
  <1>1. IsFiniteSet(Thread)
    BY FS_AddElement DEF Thread
  <1>2. IsFiniteSet(S)
    BY <1>1, FS_Subset
  <1>3. QED
    BY <1>2, FS_CardinalityType

\* The threads that are rolling an order back, from the look at its counter on.
RollingBack == {"rollbackRun", "rollbackLoad", "rollbackWrite"}
RollsBack(t, o) == thr[t].pc \in RollingBack /\ thr[t].order = o

\* A step that leaves both counters and every rollback under way alone.
RollStutters ==
  /\ UNCHANGED <<rollBackTimes, reverted>>
  /\ \A t \in Thread :
       thr[t].pc \in RollingBack \/ thr'[t].pc \in RollingBack => thr'[t] = thr[t]

\* Rollbacks go on by themselves, or are cut short.
LEMMA OnlyRollbacksRoll ==
  ASSUME TypeInv, [Next]_vars
  PROVE  \/ RollStutters
         \/ \E t \in Web, o \in used : RollbackBegin(t, o)
         \/ \E t \in Thread : RollbackRun(t) \/ RollbackLoad(t) \/ RollbackWrite(t) \/ Abort(t)
  <1> USE DEF TypeInv, TypeOK, RollStutters, RollingBack, Thread, Idle, Goto, Reply,
              At, AcceptOn, orderVars, evidVars
  <1>1. ASSUME NEW t \in Web, NEW o \in used \cup {NoOrder}, NEW s \in Sql,
               SaveBegin(t, o, s) \/ CommitBegin(t, o, s)
        PROVE  RollStutters
    BY <1>1 DEF SaveBegin, CommitBegin
  <1>2. ASSUME NEW t \in Web, NEW o \in used, ExecuteBegin(t, o)
        PROVE  RollStutters
    BY <1>2 DEF ExecuteBegin, LoadOrder
  <1>3. ASSUME NEW t \in Web, NEW o \in used, ResetAsyncBegin(t, o)
        PROVE  RollStutters
    BY <1>3 DEF ResetAsyncBegin
  <1>4. ASSUME NEW o \in used, Cancel(o) \/ Delete(o) \/ ResetSucced(o)
        PROVE  RollStutters
    BY <1>4 DEF Cancel, Delete, ResetSucced, SetOrderStatus, DeleteOrder
  <1>5. ASSUME NEW t \in Thread, SaveRead(t) \/ SaveWrite(t)
        PROVE  RollStutters
    BY <1>5 DEF SaveRead, SaveWrite, SaveOrder, InsertOrder, UpdateOrder
  <1>6. ASSUME NEW t \in Thread, CommitCheck(t) \/ CommitWrite(t)
        PROVE  RollStutters
    BY <1>6 DEF CommitCheck, CommitWrite, Step, SaveOrder, InsertOrder, UpdateOrder
  <1>7. ASSUME NEW t \in Thread,
               ExecuteCheck(t) \/ ExecuteAddTask(t) \/ ExecuteSetAsync(t)
        PROVE  RollStutters
    BY <1>7 DEF ExecuteCheck, ExecuteAddTask, ExecuteSetAsync, BigOrderPoint, Step,
       SetLatestExecResult, SetToAsyncExecStatus, SetOrderStatus
  <1>8. ASSUME NEW t \in Thread, ExecuteRun(t) \/ ExecuteReport(t) \/ ExecuteSave(t)
        PROVE  RollStutters
    BY <1>8 DEF ExecuteRun, ExecuteReport, ExecuteSave, Apply, AfterRun, Step,
       SetLatestExecResult, SetOrderStatus, SaveRawResultSet
  <1>9. ASSUME NEW t \in Thread, ResetAsyncOrder(t)
        PROVE  RollStutters
    BY <1>9 DEF ResetAsyncOrder, SetToAsyncExecStatus, SetOrderStatus
  <1>10. CASE VerifierStep
    BY <1>10 DEF VerifierStep, VerifyPick, VerifyPost, LoadOrder
  <1>11. CASE WorkerStep \/ WorkerAbort
    BY <1>11 DEF WorkerStep, WorkerPick, WorkerTake, WorkerLoad, WorkerRun, WorkerSave,
       WorkerReport, WorkerFinish, WorkerAbort, Apply, SaveRawResultSet,
       SetLatestExecResult, SetOrderStatus
  <1>12. CASE UNCHANGED vars
    BY <1>12 DEF vars
  <1> HIDE DEF RollStutters
  <1>13. QED
    BY <1>1, <1>2, <1>3, <1>4, <1>5, <1>6, <1>7, <1>8, <1>9, <1>10, <1>11, <1>12
       DEF Next, Request, Continue

\* A step that leaves both counters alone and lets no thread enter Counting.
CountStutters ==
  /\ UNCHANGED <<rollBackTimes, reverted>>
  /\ \A t \in Thread : thr'[t].pc \in Counting => thr'[t] = thr[t]

\* Only the three steps of a rollback that follow its run touch the counters.
LEMMA OnlyRollbacksCount ==
  ASSUME TypeInv, [Next]_vars
  PROVE  \/ CountStutters
         \/ \E t \in Thread : RollbackRun(t) \/ RollbackLoad(t) \/ RollbackWrite(t)
  <1> USE DEF CountStutters, Counting
  <1>1. CASE RollStutters
    BY <1>1 DEF RollStutters, RollingBack
  <1>2. ASSUME NEW t \in Web, NEW o \in used, RollbackBegin(t, o)
        PROVE  CountStutters
    BY <1>2 DEF TypeInv, TypeOK, RollbackBegin, Goto, orderVars, evidVars
  <1>3. ASSUME NEW t \in Thread, Abort(t)
        PROVE  CountStutters
    BY <1>3 DEF TypeInv, TypeOK, Abort, Reply, Idle, orderVars, evidVars
  <1>4. QED
    BY <1>1, <1>2, <1>3, OnlyRollbacksRoll

\* Initially nothing was rolled back.
LEMMA CountInit == Init => CountInv
  <1> SUFFICES ASSUME Init, NEW o \in OrderId
               PROVE  /\ rollBackTimes[o] + Cardinality(Uncounted(o)) <= reverted[o]
                      /\ \A t \in Thread : thr[t].pc # "rollbackWrite"
    BY DEF CountInv, CountOf
  <1>1. Uncounted(o) = {}
    BY DEF Init, Idle, Uncounted, Counting
  <1>2. Cardinality(Uncounted(o)) = 0
    BY <1>1, FS_EmptySet
  <1>3. rollBackTimes[o] = 0 /\ reverted[o] = 0
    BY DEF Init, TablesInit
  <1>4. \A t \in Thread : thr[t].pc # "rollbackWrite"
    BY DEF Init, Idle
  <1>5. QED
    BY <1>2, <1>3, <1>4

\* The invariant of one order survives a step that only adds rollbacks of it
\* and only removes uncounted threads.
LEMMA CountShrinks ==
  ASSUME TypeInv, TypeInv', NEW o \in OrderId, CountOf(o),
         rollBackTimes'[o] = rollBackTimes[o], reverted[o] <= reverted'[o],
         \A t \in Thread : thr'[t].pc \in Counting /\ thr'[t].order = o => thr'[t] = thr[t]
  PROVE  CountOf(o)'
  <1> DEFINE U == Uncounted(o)
             V == Uncounted(o)'
  <1>1. /\ rollBackTimes[o] \in Nat /\ reverted[o] \in Nat /\ reverted'[o] \in Nat
        /\ IsFiniteSet(U) /\ Cardinality(U) \in Nat /\ Cardinality(V) \in Nat
        /\ \A t \in Thread : thr[t].num \in Nat
    BY UncountedFinite DEF Uncounted, TypeInv, TypeOK, TablesTypeOK
  <1>2. V \subseteq U
    BY DEF Uncounted
  <1>3. Cardinality(V) <= Cardinality(U)
    BY <1>1, <1>2, FS_Subset
  <1>4. /\ rollBackTimes[o] + Cardinality(U) <= reverted[o]
        /\ \A t \in Thread :
             thr[t].pc = "rollbackWrite" /\ thr[t].order = o =>
               thr[t].num + Cardinality(U) <= reverted[o]
    BY DEF CountOf
  <1> HIDE DEF U, V
  <1>5. rollBackTimes'[o] + Cardinality(V) <= reverted'[o]
    BY <1>1, <1>3, <1>4
  <1>6. ASSUME NEW t \in Thread, thr'[t].pc = "rollbackWrite", thr'[t].order = o
        PROVE  thr'[t].num + Cardinality(V) <= reverted'[o]
    <2>1. thr'[t] = thr[t]
      BY <1>6 DEF Counting
    <2>2. thr[t].num + Cardinality(U) <= reverted[o]
      BY <1>4, <1>6, <2>1
    <2>3. thr'[t].num = thr[t].num /\ thr[t].num \in Nat
      BY <1>1, <2>1
    <2>4. QED
      BY <1>1, <1>3, <2>2, <2>3
  <1>7. QED
    BY <1>5, <1>6 DEF V, CountOf

\* No step of a rollback counts more than the rollbacks that happened.
LEMMA CountStep == TypeInv /\ TypeInv' /\ CountInv /\ [Next]_vars => CountInv'
  <1> SUFFICES ASSUME TypeInv, TypeInv', CountInv, [Next]_vars, NEW o \in OrderId
               PROVE  CountOf(o)'
    BY DEF CountInv
  <1> DEFINE U == Uncounted(o)
             V == Uncounted(o)'
  <1>1. /\ rollBackTimes[o] \in Nat /\ reverted[o] \in Nat /\ reverted'[o] \in Nat
        /\ IsFiniteSet(U) /\ Cardinality(U) \in Nat /\ Cardinality(V) \in Nat
        /\ \A t \in Thread : thr[t].num \in Nat
    BY UncountedFinite DEF Uncounted, TypeInv, TypeOK, TablesTypeOK
  <1>2. /\ rollBackTimes[o] + Cardinality(U) <= reverted[o]
        /\ \A t \in Thread :
             thr[t].pc = "rollbackWrite" /\ thr[t].order = o =>
               thr[t].num + Cardinality(U) <= reverted[o]
    BY DEF CountInv, CountOf
  <1>3. CountOf(o)
    BY DEF CountInv
  <1>4. /\ thr \in [Thread -> [pc: WebPoint, order: OrderId \cup {NoOrder},
                               sql: Sql \cup {NoSql}, num: Nat]]
        /\ rollBackTimes \in [OrderId -> Nat] /\ reverted \in [OrderId -> Nat]
    BY DEF TypeInv, TypeOK, TablesTypeOK
  <1>5. CASE CountStutters
    BY <1>1, <1>3, <1>5, CountShrinks DEF CountStutters
  <1>6. ASSUME NEW t \in Thread, RollbackRun(t)
        PROVE  CountOf(o)'
    <2>1. CASE thr'[t].pc \in Counting /\ thr'[t].order = o
      <3>1. /\ thr[t].pc = "rollbackRun" /\ thr'[t].pc = "rollbackLoad"
            /\ reverted'[o] = reverted[o] + 1
            /\ rollBackTimes' = rollBackTimes
            /\ \A x \in Thread \ {t} : thr'[x] = thr[x]
        BY <1>4, <1>6, <2>1 DEF RollbackRun, AfterRollback, Step, Goto, Reply, Idle, At,
           Counting, orderVars
      <3>2. V = U \cup {t} /\ t \notin U
        BY <2>1, <3>1 DEF Uncounted, Counting
      <3>3. Cardinality(V) = Cardinality(U) + 1
        BY <1>1, <3>2, FS_AddElement
      <3> HIDE DEF U, V
      <3>4. rollBackTimes'[o] + Cardinality(V) <= reverted'[o]
        BY <1>1, <1>2, <3>1, <3>3
      <3>5. ASSUME NEW x \in Thread, thr'[x].pc = "rollbackWrite", thr'[x].order = o
            PROVE  thr'[x].num + Cardinality(V) <= reverted'[o]
        <4>1. thr'[x] = thr[x]
          BY <3>1, <3>5
        <4>2. thr[x].num + Cardinality(U) <= reverted[o]
          BY <1>2, <3>5, <4>1
        <4>3. thr'[x].num = thr[x].num /\ thr[x].num \in Nat
          BY <1>1, <4>1
        <4>4. QED
          BY <1>1, <3>1, <3>3, <4>2, <4>3
      <3>6. QED
        BY <3>4, <3>5 DEF V, CountOf
    <2>2. CASE ~(thr'[t].pc \in Counting /\ thr'[t].order = o)
      <3>1. rollBackTimes' = rollBackTimes /\ reverted[o] <= reverted'[o]
        BY <1>4, <1>6 DEF RollbackRun, orderVars
      <3>2. \A x \in Thread : thr'[x].pc \in Counting /\ thr'[x].order = o => thr'[x] = thr[x]
        BY <1>4, <1>6, <2>2 DEF RollbackRun, AfterRollback, Step, Goto, Reply
      <3>3. QED
        BY <1>3, <3>1, <3>2, CountShrinks
    <2>3. QED
      BY <2>1, <2>2
  <1>7. ASSUME NEW t \in Thread, RollbackLoad(t)
        PROVE  CountOf(o)'
    <2>0. rollBackTimes' = rollBackTimes /\ reverted' = reverted
      BY <1>7 DEF RollbackLoad, orderVars, evidVars
    <2>1. CASE thr'[t].pc \in Counting /\ thr'[t].order = o
      <3>1. /\ thr[t].pc = "rollbackLoad" /\ thr[t].order = o
            /\ thr'[t].pc = "rollbackWrite" /\ thr'[t].num = rollBackTimes[o]
            /\ \A x \in Thread \ {t} : thr'[x] = thr[x]
        BY <1>4, <1>7, <2>1 DEF RollbackLoad, Goto, Reply, Idle, At, Counting
      <3>2. V = U
        BY <2>1, <3>1 DEF Uncounted, Counting
      <3> HIDE DEF U, V
      <3>3. ASSUME NEW x \in Thread, thr'[x].pc = "rollbackWrite", thr'[x].order = o
            PROVE  thr'[x].num + Cardinality(V) <= reverted'[o]
        BY <1>2, <2>0, <3>1, <3>2, <3>3
      <3>4. QED
        BY <1>2, <2>0, <3>2, <3>3 DEF V, CountOf
    <2>2. CASE ~(thr'[t].pc \in Counting /\ thr'[t].order = o)
      <3>1. \A x \in Thread : thr'[x].pc \in Counting /\ thr'[x].order = o => thr'[x] = thr[x]
        BY <1>4, <1>7, <2>2 DEF RollbackLoad, Goto, Reply
      <3>2. QED
        BY <1>1, <1>3, <2>0, <3>1, CountShrinks
    <2>3. QED
      BY <2>1, <2>2
  <1>8. ASSUME NEW t \in Thread, RollbackWrite(t)
        PROVE  CountOf(o)'
    <2>1. /\ thr[t].pc = "rollbackWrite" /\ thr'[t].pc = "idle" /\ reverted' = reverted
          /\ \A x \in Thread \ {t} : thr'[x] = thr[x]
      BY <1>4, <1>8 DEF RollbackWrite, Reply, Idle, At, evidVars
    <2>2. CASE thr[t].order = o
      <3>1. rollBackTimes'[o] \in {rollBackTimes[o], thr[t].num + 1}
        BY <1>4, <1>8, <2>2 DEF RollbackWrite, SetRollBackTimes, Put
      <3>2. V = U \ {t} /\ t \in U
        BY <2>1, <2>2 DEF Uncounted, Counting
      <3>3. Cardinality(V) = Cardinality(U) - 1
        BY <1>1, <3>2, FS_RemoveElement
      <3>4. thr[t].num + Cardinality(U) <= reverted[o]
        BY <1>2, <2>1, <2>2
      <3> HIDE DEF U, V
      <3>5. rollBackTimes'[o] + Cardinality(V) <= reverted'[o]
        BY <1>1, <1>2, <2>1, <3>1, <3>3, <3>4
      <3>6. ASSUME NEW x \in Thread, thr'[x].pc = "rollbackWrite", thr'[x].order = o
            PROVE  thr'[x].num + Cardinality(V) <= reverted'[o]
        <4>1. thr'[x] = thr[x]
          BY <2>1, <3>6
        <4>2. thr[x].num + Cardinality(U) <= reverted[o]
          BY <1>2, <3>6, <4>1
        <4>3. thr'[x].num = thr[x].num /\ thr[x].num \in Nat
          BY <1>1, <4>1
        <4>4. QED
          BY <1>1, <2>1, <3>3, <4>2, <4>3
      <3>7. QED
        BY <3>5, <3>6 DEF V, CountOf
    <2>3. CASE thr[t].order # o
      <3>1. rollBackTimes'[o] = rollBackTimes[o]
        BY <1>4, <1>8, <2>3 DEF RollbackWrite, SetRollBackTimes, Put
      <3>2. \A x \in Thread : thr'[x].pc \in Counting => thr'[x] = thr[x]
        BY <2>1 DEF Counting
      <3>3. QED
        BY <1>1, <1>3, <2>1, <3>1, <3>2, CountShrinks
    <2>4. QED
      BY <2>2, <2>3
  <1>9. QED
    BY <1>5, <1>6, <1>7, <1>8, OnlyRollbacksCount

\* The counter keeps within the rollbacks, in every instance.
THEOREM CountCorrect == Spec => []CountInv
  BY CountInit, CountStep, TypeCorrect, PTL DEF Spec

\* roll_back_times never counts a rollback that did not happen.
THEOREM CountSafe == Spec => []RollbackCountIsHonest
  <1>1. TypeInv /\ CountInv => RollbackCountIsHonest
    <2> SUFFICES ASSUME TypeInv, CountInv, NEW o \in rows
                 PROVE  rollBackTimes[o] <= reverted[o]
      BY DEF RollbackCountIsHonest
    <2>1. o \in OrderId /\ rollBackTimes[o] \in Nat /\ reverted[o] \in Nat
      BY DEF TypeInv, TypeOK, TablesTypeOK
    <2>2. Cardinality(Uncounted(o)) \in Nat
      BY UncountedFinite DEF Uncounted
    <2>3. QED
      BY <2>1, <2>2 DEF CountInv, CountOf
  <1>2. QED
    BY <1>1, TypeCorrect, CountCorrect, PTL

\* Once on record, a rollback stays on record: every later one is refused.
THEOREM RecordSticks == Spec => RollbackRecordSticks
  <1> DEFINE Sticks == \A o \in rows \cap rows' : rollBackTimes[o] > 0 => rollBackTimes'[o] > 0
  <1>1. TypeInv /\ [Next]_vars => [Sticks]_vars
    <2> SUFFICES ASSUME TypeInv, [Next]_vars PROVE Sticks
      OBVIOUS
    <2>1. CASE UNCHANGED rollBackTimes
      BY <2>1
    <2>2. ASSUME NEW t \in Thread, RollbackWrite(t)
          PROVE  Sticks
      BY <2>2 DEF RollbackWrite, SetRollBackTimes, Put, TypeInv, TypeOK, TablesTypeOK
    <2>3. ASSUME NEW t \in Thread, RollbackRun(t) \/ RollbackLoad(t)
          PROVE  UNCHANGED rollBackTimes
      BY <2>3 DEF RollbackRun, RollbackLoad, orderVars
    <2>4. QED
      BY <2>1, <2>2, <2>3, OnlyRollbacksCount DEF CountStutters
  <1>2. QED
    BY <1>1, TypeCorrect, PTL DEF Spec, RollbackRecordSticks

-----------------------------------------------------------------------------
(* What it takes to roll an order back twice: the two causes of finding 1, *)
(* and no third.                                                           *)

\* A request is let in while another one is rolling the same order back
\* (rollback.py:28 reads the counter, the runs that follow take as long as they take).
RollbackOverlaps ==
  \E t \in Web, o \in used :
    RollbackBegin(t, o) /\ \E u \in Thread : RollsBack(u, o)

\* A rollback took effect on the target and is never counted: its run ended in
\* an error all the same, or its request was cut short before the count.
RollbackUncounted ==
  \E t \in Thread :
    \/ RollbackRun(t) /\ At(t, "rollbackRun") /\ reverted' # reverted /\ thr'[t].pc = "idle"
    \/ thr[t].pc \in Counting /\ Abort(t)

\* At most one thread rolls an order back; what it has not run yet has not
\* happened, and what happened is on record, about to be, or past asking for.
OnceOf(o) ==
  /\ reverted[o] <= 1
  /\ reverted[o] > 0 =>
       /\ o \in used
       /\ \/ o \notin rows
          \/ rollBackTimes[o] > 0
          \/ \E t \in Thread : thr[t].pc \in Counting /\ thr[t].order = o
  /\ \A t \in Thread :
       thr[t].pc = "rollbackRun" /\ thr[t].order = o => reverted[o] = 0 /\ o \in used
  /\ \A t, u \in Thread : RollsBack(t, o) /\ RollsBack(u, o) => t = u

OnceInv == \A o \in OrderId : OnceOf(o)

\* Initially nothing was rolled back.
LEMMA RolledBackInit == Init => OnceInv
  BY DEF Init, TablesInit, Idle, OnceInv, OnceOf, RollsBack, RollingBack, Counting

\* An id that was handed out is not handed out again.
LEMMA RowsDoNotReturn ==
  ASSUME [Next]_vars
  PROVE  used \subseteq used' /\ rows' \cap used \subseteq rows
  <1> USE DEF orderVars
  <1>1. ASSUME NEW t \in Thread, SaveWrite(t) \/ CommitWrite(t)
        PROVE  used \subseteq used' /\ rows' \cap used \subseteq rows
    BY <1>1 DEF SaveWrite, CommitWrite, SaveOrder, InsertOrder, UpdateOrder
  <1>2. ASSUME NEW t \in Web, Request(t)
        PROVE  UNCHANGED <<used, rows>>
    BY <1>2 DEF Request, SaveBegin, CommitBegin, ExecuteBegin, RollbackBegin, ResetAsyncBegin
  <1>3. ASSUME NEW o \in used, Cancel(o) \/ Delete(o) \/ ResetSucced(o)
        PROVE  used \subseteq used' /\ rows' \cap used \subseteq rows
    BY <1>3 DEF Cancel, Delete, ResetSucced, SetOrderStatus, DeleteOrder
  <1>4. ASSUME NEW t \in Thread, Continue(t) \/ Abort(t), ~SaveWrite(t), ~CommitWrite(t)
        PROVE  UNCHANGED <<used, rows>>
    BY <1>4 DEF Continue, Abort, SaveRead, CommitCheck, ExecuteCheck, ExecuteAddTask,
       ExecuteSetAsync, ExecuteRun, ExecuteReport, ExecuteSave, RollbackRun, RollbackLoad,
       RollbackWrite, ResetAsyncOrder, SetLatestExecResult, SetToAsyncExecStatus,
       SetOrderStatus, SaveRawResultSet, SetRollBackTimes
  <1>5. CASE VerifierStep
    BY <1>5 DEF VerifierStep, VerifyPick, VerifyPost
  <1>6. CASE WorkerStep \/ WorkerAbort
    BY <1>6 DEF WorkerStep, WorkerPick, WorkerTake, WorkerLoad, WorkerRun, WorkerSave,
       WorkerReport, WorkerFinish, WorkerAbort, SaveRawResultSet, SetLatestExecResult,
       SetOrderStatus
  <1>7. CASE UNCHANGED vars
    BY <1>7 DEF vars
  <1>8. QED
    BY <1>1, <1>2, <1>3, <1>4, <1>5, <1>6, <1>7 DEF Next

\* Without the two causes the bookkeeping of one order survives every step.
LEMMA RolledBackStep ==
  ASSUME TypeInv, TypeInv', OnceInv, [Next]_vars, ~RollbackOverlaps, ~RollbackUncounted
  PROVE  OnceInv'
  <1> SUFFICES ASSUME NEW o \in OrderId PROVE OnceOf(o)'
    BY DEF OnceInv
  <1>1. OnceOf(o)
    BY DEF OnceInv
  <1>2. /\ thr \in [Thread -> [pc: WebPoint, order: OrderId \cup {NoOrder},
                               sql: Sql \cup {NoSql}, num: Nat]]
        /\ rollBackTimes \in [OrderId -> Nat] /\ reverted \in [OrderId -> Nat]
        /\ rows \subseteq used
    BY DEF TypeInv, TypeOK, TablesTypeOK
  <1>3. o \in used => o \in used' /\ (o \notin rows => o \notin rows')
    BY RowsDoNotReturn
  <1> USE DEF RollsBack, RollingBack, Counting
  <1>4. CASE RollStutters
    <2>1. rollBackTimes' = rollBackTimes /\ reverted' = reverted
      BY <1>4 DEF RollStutters
    <2>2. \A t \in Thread : thr[t].pc \in RollingBack \/ thr'[t].pc \in RollingBack => thr'[t] = thr[t]
      BY <1>4 DEF RollStutters
    <2>3. QED
      BY <1>1, <1>3, <2>1, <2>2 DEF OnceOf
  <1>5. ASSUME NEW t \in Web, NEW q \in used, RollbackBegin(t, q)
        PROVE  OnceOf(o)'
    <2>1. /\ q \in rows /\ rollBackTimes[q] = 0
          /\ thr' = [thr EXCEPT ![t] = [pc |-> "rollbackRun", order |-> q,
                                        sql |-> resultSet[q], num |-> 0]]
          /\ UNCHANGED <<rows, used, rollBackTimes, reverted>> /\ thr[t].pc = "idle"
      BY <1>5 DEF RollbackBegin, Goto, AcceptOn, At, orderVars, evidVars
    <2>2. \A u \in Thread : ~RollsBack(u, q)
      BY <1>5 DEF RollbackOverlaps
    <2>3. t \in Thread /\ \A u \in Thread \ {t} : thr'[u] = thr[u]
      BY <1>2, <2>1 DEF Thread
    <2>4. thr'[t].pc = "rollbackRun" /\ thr'[t].order = q
      BY <1>2, <2>1, <2>3
    <2>5. CASE q = o
      <3>1. reverted[o] = 0
        BY <1>1, <1>2, <2>1, <2>2, <2>5 DEF OnceOf
      <3>2. \A u \in Thread : RollsBack(u, o)' => u = t
        BY <2>2, <2>3, <2>5
      <3>3. QED
        BY <2>1, <2>5, <3>1, <3>2 DEF OnceOf
    <2>6. CASE q # o
      <3>1. \A u \in Thread : thr'[u].order = o /\ thr'[u].pc \in RollingBack => thr'[u] = thr[u]
        BY <2>3, <2>4, <2>6
      <3>2. \A u \in Thread : thr[u].pc \in Counting => thr'[u] = thr[u]
        BY <2>1, <2>3
      <3>3. QED
        BY <1>1, <2>1, <3>1, <3>2 DEF OnceOf
    <2>7. QED
      BY <2>5, <2>6
  <1>6. ASSUME NEW t \in Thread, RollbackRun(t)
        PROVE  OnceOf(o)'
    <2>1. /\ thr[t].pc = "rollbackRun" /\ UNCHANGED <<rows, used, rollBackTimes>>
          /\ \A u \in Thread \ {t} : thr'[u] = thr[u]
          /\ \/ thr'[t].pc = "rollbackLoad" /\ thr'[t].order = thr[t].order
             \/ thr'[t].pc = "idle"
      BY <1>2, <1>6 DEF RollbackRun, AfterRollback, Step, Goto, Reply, Idle, At, orderVars
    <2>2. /\ reverted' \in {reverted, [reverted EXCEPT ![thr[t].order] = @ + 1]}
          /\ thr'[t].pc = "rollbackLoad" => reverted' = [reverted EXCEPT ![thr[t].order] = @ + 1]
      BY <1>2, <1>6 DEF RollbackRun, AfterRollback, Step, Goto, Reply, Idle
    <2>3. thr'[t].pc = "idle" => reverted' = reverted
      BY <1>6, <2>1 DEF RollbackUncounted, At
    <2>4. CASE thr[t].order = o
      <3>1. reverted[o] = 0 /\ \A u \in Thread : RollsBack(u, o) => u = t
        BY <1>1, <2>1, <2>4 DEF OnceOf
      <3>2. \A u \in Thread : RollsBack(u, o)' => u = t
        BY <2>1, <3>1
      <3>3. CASE thr'[t].pc = "idle"
        <4>1. reverted'[o] = 0
          BY <2>3, <3>1, <3>3
        <4>2. QED
          BY <3>2, <3>3, <4>1 DEF OnceOf
      <3>4. CASE thr'[t].pc = "rollbackLoad"
        <4>1. reverted'[o] = 1 /\ thr'[t].order = o
          BY <1>2, <2>1, <2>2, <2>4, <3>1, <3>4
        <4>2. o \in used'
          BY <1>1, <2>1, <2>4 DEF OnceOf
        <4>3. QED
          BY <2>1, <3>2, <3>4, <4>1, <4>2 DEF OnceOf
      <3>5. QED
        BY <2>1, <3>3, <3>4
    <2>5. CASE thr[t].order # o
      <3>1. reverted'[o] = reverted[o]
        BY <1>2, <2>2, <2>5
      <3>2. \A u \in Thread : thr'[u].order = o /\ thr'[u].pc \in RollingBack => thr'[u] = thr[u]
        BY <2>1, <2>5
      <3>3. \A u \in Thread : thr[u].order = o => thr'[u] = thr[u]
        BY <2>1, <2>5
      <3>4. QED
        BY <1>1, <2>1, <3>1, <3>2, <3>3 DEF OnceOf
    <2>6. QED
      BY <2>4, <2>5
  <1>7. ASSUME NEW t \in Thread, RollbackLoad(t)
        PROVE  OnceOf(o)'
    <2>1. /\ thr[t].pc = "rollbackLoad"
          /\ UNCHANGED <<rows, used, rollBackTimes, reverted>>
          /\ \A u \in Thread \ {t} : thr'[u] = thr[u]
          /\ \/ thr'[t].pc = "rollbackWrite" /\ thr'[t].order = thr[t].order
             \/ thr'[t].pc = "idle" /\ thr[t].order \notin rows
      BY <1>2, <1>7 DEF RollbackLoad, Goto, Reply, Idle, At, orderVars, evidVars
    <2>2. \A u \in Thread : RollsBack(u, o)' => RollsBack(u, o)
      BY <2>1
    <2>3. \A u \in Thread : thr'[u].pc = "rollbackRun" => thr'[u] = thr[u]
      BY <2>1
    <2>4. \A u \in Thread : o \in rows /\ thr[u].pc \in Counting /\ thr[u].order = o
                              => thr'[u].pc \in Counting /\ thr'[u].order = o
      BY <2>1
    <2>5. QED
      BY <1>1, <2>1, <2>2, <2>3, <2>4 DEF OnceOf
  <1>8. ASSUME NEW t \in Thread, RollbackWrite(t)
        PROVE  OnceOf(o)'
    <2>1. /\ thr[t].pc = "rollbackWrite" /\ thr'[t].pc = "idle" /\ thr[t].num \in Nat
          /\ UNCHANGED <<rows, used, reverted>>
          /\ \A u \in Thread \ {t} : thr'[u] = thr[u]
          /\ rollBackTimes' = Put(rollBackTimes, thr[t].order, thr[t].num + 1)
      BY <1>2, <1>8 DEF RollbackWrite, SetRollBackTimes, Reply, Idle, At, evidVars
    <2>2. \A u \in Thread : RollsBack(u, o)' => RollsBack(u, o)
      BY <2>1
    <2>3. \A u \in Thread : thr'[u].pc = "rollbackRun" => thr'[u] = thr[u]
      BY <2>1
    <2>4. rollBackTimes[o] > 0 => rollBackTimes'[o] > 0
      BY <1>2, <2>1 DEF Put
    <2>5. thr[t].order = o => rollBackTimes'[o] > 0 \/ o \notin rows
      BY <1>2, <2>1 DEF Put
    <2>6. QED
      BY <1>1, <2>1, <2>2, <2>3, <2>4, <2>5 DEF OnceOf
  <1>9. ASSUME NEW t \in Thread, Abort(t)
        PROVE  OnceOf(o)'
    <2>1. /\ thr[t].pc \notin Counting /\ thr'[t].pc = "idle"
          /\ UNCHANGED <<rows, used, rollBackTimes, reverted>>
          /\ \A u \in Thread \ {t} : thr'[u] = thr[u]
      BY <1>2, <1>9 DEF Abort, Reply, Idle, RollbackUncounted, orderVars, evidVars
    <2>2. QED
      BY <1>1, <2>1 DEF OnceOf
  <1>10. QED
    BY <1>4, <1>5, <1>6, <1>7, <1>8, <1>9, OnlyRollbacksRoll

\* An order is rolled back at most once unless a rollback overlaps another one of
\* the same order, or takes effect without being counted; these are all the ways in
\* which the claim of rollback.py:29 fails.
THEOREM RolledBackOnce ==
  Spec /\ [][~RollbackOverlaps /\ ~RollbackUncounted]_vars => []RolledBackAtMostOnce
  <1>1. TypeInv /\ TypeInv' /\ OnceInv /\ [Next]_vars
          /\ [~RollbackOverlaps /\ ~RollbackUncounted]_vars => OnceInv'
    <2>1. CASE UNCHANGED vars
      BY <2>1 DEF vars, orderVars, evidVars, OnceInv, OnceOf, RollsBack
    <2>2. QED
      BY <2>1, RolledBackStep
  <1>2. OnceInv => RolledBackAtMostOnce
    BY DEF OnceInv, OnceOf, RolledBackAtMostOnce
  <1>3. QED
    BY <1>1, <1>2, RolledBackInit, TypeCorrect, PTL DEF Spec

-----------------------------------------------------------------------------
(* The queue *)

USE DEF EXEC_STATUS_TO_EXEC, EXEC_STATUS_EXEC_ING, EXEC_STATUS_EXEC_FINISH

\* An arming is only spent when the worker starts, and it starts on a task it
\* saw TO_EXEC: the task has an unspent arming from the pick to the start, and
\* another one if it was reset between being taken and being started.
JobInv ==
  /\ \A k \in TaskId : starts[k] <= arms[k]
  /\ \A k \in ToExec : starts[k] < arms[k]
  /\ wrk.pc \in {"picked", "taken"} => starts[wrk.task] < arms[wrk.task]
  /\ wrk.pc = "taken" /\ wrk.task \in ToExec => starts[wrk.task] + 1 < arms[wrk.task]

\* The refinement mapping of Queue.
Credit == [k \in TaskId |-> arms[k] - starts[k]]
Active == IF wrk.pc \in {"idle", "picked", "taken"} THEN NoTask ELSE wrk.task

\* Steps of threads, but for the insertion and the reset of a task, do not
\* touch the queue.
QueueStutters == UNCHANGED <<taskVars, arms, starts, wrk>>

LEMMA ThreadsStutter ==
  ASSUME [Next]_vars
  PROVE  \/ QueueStutters
         \/ \E t \in Web, o \in used : ResetAsyncBegin(t, o)
         \/ \E t \in Thread : ExecuteAddTask(t)
         \/ WorkerStep \/ WorkerAbort
  <1> USE DEF QueueStutters, orderVars, taskVars, evidVars, jobVars, boundVars
  <1>1. ASSUME NEW t \in Web, NEW o \in used \cup {NoOrder}, NEW s \in Sql,
               SaveBegin(t, o, s) \/ CommitBegin(t, o, s)
        PROVE  QueueStutters
    BY <1>1 DEF SaveBegin, CommitBegin
  <1>2. ASSUME NEW t \in Web, NEW o \in used, ExecuteBegin(t, o) \/ RollbackBegin(t, o)
        PROVE  QueueStutters
    BY <1>2 DEF ExecuteBegin, RollbackBegin
  <1>3. ASSUME NEW o \in used, Cancel(o) \/ Delete(o) \/ ResetSucced(o)
        PROVE  QueueStutters
    BY <1>3 DEF Cancel, Delete, ResetSucced
  <1>4. ASSUME NEW t \in Thread, Continue(t) \/ Abort(t), ~ExecuteAddTask(t)
        PROVE  QueueStutters
    BY <1>4 DEF Continue, Abort, SaveRead, SaveWrite, CommitCheck, CommitWrite,
       ExecuteCheck, ExecuteSetAsync, ExecuteRun, ExecuteReport, ExecuteSave,
       RollbackRun, RollbackLoad, RollbackWrite, ResetAsyncOrder
  <1>5. CASE VerifierStep
    BY <1>5 DEF VerifierStep, VerifyPick, VerifyPost
  <1>6. CASE UNCHANGED vars
    BY <1>6 DEF vars
  <1>7. QED
    BY <1>1, <1>2, <1>3, <1>4, <1>5, <1>6 DEF Next, Request

\* Loading the order either starts the task or loses it.
LoadStarts ==
  /\ wrk.pc = "taken" /\ wrk.task \in TaskId
  /\ wrk'.pc = "running" /\ wrk'.task = wrk.task
  /\ starts' = [starts EXCEPT ![wrk.task] = @ + 1]
  /\ UNCHANGED <<taskOrder, execStatus, arms>>

LoadLoses ==
  /\ wrk.pc = "taken" /\ wrk' = WorkerIdle
  /\ UNCHANGED <<taskOrder, execStatus, arms, starts>>

LEMMA LoadCases ==
  ASSUME TypeInv, WorkerLoad
  PROVE  LoadStarts \/ LoadLoses
  <1>1. wrk.pc = "taken" /\ wrk.task \in TaskId
        /\ UNCHANGED <<taskOrder, execStatus, arms>>
    BY DEF TypeInv, LocalsOK, WorkerLoad, taskVars
  <1>2. CASE taskOrder[wrk.task] \in rows
    <2>1. wrk' = [wrk EXCEPT !.pc = "running", !.sql = sqlText[taskOrder[wrk.task]]]
          /\ starts' = [starts EXCEPT ![wrk.task] = @ + 1]
      BY <1>2 DEF WorkerLoad
    <2>2. QED
      BY <1>1, <2>1 DEF TypeInv, TypeOK, LoadStarts
  <1>3. CASE taskOrder[wrk.task] \notin rows
    BY <1>1, <1>3 DEF WorkerLoad, LoadLoses
  <1>4. QED
    BY <1>2, <1>3

\* Initially nothing is armed.
LEMMA JobInit == Init => JobInv
  BY DEF Init, TablesInit, WorkerIdle, JobInv, ToExec

\* No step spends an arming that is not there.
LEMMA JobStep == TypeInv /\ JobInv /\ [Next]_vars => JobInv'
  <1> SUFFICES ASSUME TypeInv, JobInv, [Next]_vars PROVE JobInv'
    OBVIOUS
  <1> USE DEF TypeInv, TypeOK, TablesTypeOK, LocalsOK, JobInv, ToExec, WorkerIdle,
              taskVars, jobVars
  <1>1. CASE QueueStutters
    BY <1>1 DEF QueueStutters
  <1>2. ASSUME NEW t \in Web, NEW o \in used, ResetAsyncBegin(t, o)
        PROVE  JobInv'
    BY <1>2 DEF ResetAsyncBegin, RearmTasks
  <1>3. ASSUME NEW t \in Thread, ExecuteAddTask(t)
        PROVE  JobInv'
    BY <1>3 DEF ExecuteAddTask, AddTask
  <1>4. CASE WorkerPick
    BY <1>4 DEF WorkerPick
  <1>5. CASE WorkerTake
    BY <1>5 DEF WorkerTake, UpdateExecStatus, WorkerGoto
  <1>6. CASE WorkerLoad
    <2>1. CASE LoadStarts
      BY <2>1 DEF LoadStarts
    <2>2. CASE LoadLoses
      BY <2>2 DEF LoadLoses
    <2>3. QED
      BY <1>6, <2>1, <2>2, LoadCases
  <1>7. CASE WorkerRun \/ WorkerSave \/ WorkerReport
    BY <1>7 DEF WorkerRun, WorkerSave, WorkerReport, WorkerGoto, AfterTaskRun
  <1>8. CASE WorkerFinish \/ WorkerAbort
    <2>1. wrk'.pc = "idle" /\ UNCHANGED <<taskOrder, arms, starts>>
      BY <1>8 DEF WorkerFinish, WorkerAbort, UpdateExecStatus
    <2>2. \A k \in TaskId : execStatus'[k] = EXEC_STATUS_TO_EXEC =>
                              execStatus[k] = EXEC_STATUS_TO_EXEC
      BY <1>8 DEF WorkerFinish, WorkerAbort, UpdateExecStatus, FinishStatus
    <2>3. QED
      BY <2>1, <2>2
  <1>9. QED
    BY <1>1, <1>2, <1>3, <1>4, <1>5, <1>6, <1>7, <1>8, ThreadsStutter DEF WorkerStep

\* The queue's bookkeeping is never overdrawn, in every instance.
THEOREM JobCorrect == Spec => []JobInv
  BY JobInit, JobStep, TypeCorrect, PTL DEF Spec

\* The initial states of the workflow are initial states of the queue.
LEMMA QueueInit == Init => Queue!Init
  BY DEF Init, WorkerIdle, Queue!Init

\* Every step of the workflow is a step of the queue or leaves it alone.
LEMMA QueueStep ==
  TypeInv /\ TypeInv' /\ JobInv /\ [Next]_vars => [Queue!Next]_(Queue!vars)
  <1> SUFFICES ASSUME TypeInv, TypeInv', JobInv, [Next]_vars
               PROVE  Queue!Next \/ UNCHANGED <<Credit, Active>>
    BY DEF Queue!vars, Credit, Active
  <1> USE DEF TypeInv, TypeOK, TablesTypeOK, LocalsOK, JobInv, taskVars, jobVars,
              Credit, Active
  <1>1. CASE QueueStutters
    BY <1>1 DEF QueueStutters
  <1>2. ASSUME NEW t \in Web, NEW o \in used, ResetAsyncBegin(t, o)
        PROVE  Queue!Next
    <2>1. PICK S \in SUBSET TaskId : S = TasksOf(o)
      BY DEF TasksOf
    <2>2. Queue!Arm(S)
      BY <1>2, <2>1 DEF ResetAsyncBegin, TasksOf, Queue!Arm
    <2>3. QED
      BY <2>2 DEF Queue!Next
  <1>3. ASSUME NEW t \in Thread, ExecuteAddTask(t)
        PROVE  Queue!Next
    <2>1. PICK k \in TaskId : arms' = [arms EXCEPT ![k] = @ + 1]
      BY <1>3 DEF ExecuteAddTask
    <2>2. Queue!Arm({k})
      <3>1. UNCHANGED <<starts, wrk>>
        BY <1>3 DEF ExecuteAddTask
      <3>2. QED
        BY <2>1, <3>1 DEF Queue!Arm
    <2>3. QED
      BY <2>2 DEF Queue!Next
  <1>4. CASE WorkerPick \/ WorkerTake
    BY <1>4 DEF WorkerPick, WorkerTake, WorkerGoto
  <1>5. CASE WorkerLoad
    <2>1. CASE LoadStarts
      <3>1. PICK k \in TaskId : k = wrk.task
        BY <2>1 DEF LoadStarts
      <3>2. Active = NoTask /\ Active' = k
        BY <2>1, <3>1 DEF LoadStarts
      <3>3. starts[k] < arms[k] /\ arms' = arms /\ starts' = [starts EXCEPT ![k] = @ + 1]
        BY <2>1, <3>1 DEF LoadStarts
      <3>4. Credit[k] > 0
        BY <3>3
      <3>5. \A j \in TaskId : Credit'[j] = IF j = k THEN Credit[j] - 1 ELSE Credit[j]
        BY <3>3
      <3>6. Credit' = [Credit EXCEPT ![k] = @ - 1]
        BY <3>5
      <3>7. QED
        BY <3>2, <3>4, <3>6 DEF Queue!Start, Queue!Next
    <2>2. CASE LoadLoses
      BY <2>2 DEF LoadLoses, WorkerIdle
    <2>3. QED
      BY <1>5, <2>1, <2>2, LoadCases
  <1>6. CASE WorkerRun \/ WorkerSave \/ WorkerReport
    BY <1>6 DEF WorkerRun, WorkerSave, WorkerReport, WorkerGoto, AfterTaskRun
  <1>7. CASE WorkerFinish
    BY <1>7 DEF WorkerFinish, WorkerIdle, Queue!Stop, Queue!Next
  <1>8. CASE WorkerAbort
    BY <1>8 DEF WorkerAbort, WorkerIdle, Queue!Stop, Queue!Next
  <1>9. QED
    BY <1>1, <1>2, <1>3, <1>4, <1>5, <1>6, <1>7, <1>8, ThreadsStutter
       DEF WorkerStep

\* sql_task and async_sql_exec implement the exclusive queue, in every instance.
THEOREM QueueImplemented == Spec => RunsAreArmedAndExclusive
  BY QueueInit, QueueStep, TypeCorrect, JobCorrect, PTL
     DEF Spec, RunsAreArmedAndExclusive, Queue!Spec

-----------------------------------------------------------------------------
(* Where a task is, and what it takes for an order to stay in ASYNC_EXEC *)

\* No task is forgotten: one that says EXEC_ING is in the worker's hands or was
\* lost by it in an exception or a restart; and a finished one was begun.  This is
\* the safety half of QueuedTaskRetires (async_sql_exec.py:39-108).
TasksAreAccounted ==
  \A k \in TaskId :
    /\ execStatus[k] = EXEC_STATUS_EXEC_ING =>
         k \in dropped \/ (wrk.task = k /\ wrk.pc \notin {"idle", "picked"})
    /\ execStatus[k] = EXEC_STATUS_EXEC_FINISH => starts[k] > 0

\* A task that the worker has begun to run was started.
AccountInv ==
  /\ TasksAreAccounted
  /\ wrk.pc \notin {"idle", "picked", "taken"} => starts[wrk.task] > 0

\* Initially there is no task.
LEMMA AccountInit == Init => AccountInv
  BY DEF Init, TablesInit, WorkerIdle, AccountInv, TasksAreAccounted

\* Only the worker loses tasks.
LEMMA OnlyWorkerDrops ==
  ASSUME [Next]_vars
  PROVE  UNCHANGED dropped \/ WorkerStep \/ WorkerAbort
  <1> USE DEF jobVars
  <1>1. ASSUME NEW t \in Web, Request(t)
        PROVE  UNCHANGED dropped
    BY <1>1 DEF Request, SaveBegin, CommitBegin, ExecuteBegin, RollbackBegin, ResetAsyncBegin
  <1>2. ASSUME NEW o \in used, Cancel(o) \/ Delete(o) \/ ResetSucced(o)
        PROVE  UNCHANGED dropped
    BY <1>2 DEF Cancel, Delete, ResetSucced
  <1>3. ASSUME NEW t \in Thread, Continue(t) \/ Abort(t)
        PROVE  UNCHANGED dropped
    BY <1>3 DEF Continue, Abort, SaveRead, SaveWrite, CommitCheck, CommitWrite,
       ExecuteCheck, ExecuteAddTask, ExecuteSetAsync, ExecuteRun, ExecuteReport,
       ExecuteSave, RollbackRun, RollbackLoad, RollbackWrite, ResetAsyncOrder
  <1>4. CASE VerifierStep \/ UNCHANGED vars
    BY <1>4 DEF VerifierStep, VerifyPick, VerifyPost, vars
  <1>5. QED
    BY <1>1, <1>2, <1>3, <1>4 DEF Next

\* Every step keeps account of every task.
LEMMA AccountStep == TypeInv /\ AccountInv /\ [Next]_vars => AccountInv'
  <1> SUFFICES ASSUME TypeInv, AccountInv, [Next]_vars PROVE AccountInv'
    OBVIOUS
  <1> USE DEF TypeInv, TypeOK, TablesTypeOK, LocalsOK, AccountInv, TasksAreAccounted,
              WorkerIdle, taskVars, jobVars
  <1>1. CASE QueueStutters /\ ~WorkerStep /\ ~WorkerAbort
    BY <1>1, OnlyWorkerDrops DEF QueueStutters
  <1>2. ASSUME NEW t \in Web, NEW o \in used, ResetAsyncBegin(t, o)
        PROVE  AccountInv'
    BY <1>2 DEF ResetAsyncBegin, RearmTasks
  <1>3. ASSUME NEW t \in Thread, ExecuteAddTask(t)
        PROVE  AccountInv'
    BY <1>3 DEF ExecuteAddTask, AddTask
  <1>4. CASE WorkerPick
    BY <1>4 DEF WorkerPick, ToExec
  <1>5. CASE WorkerTake
    BY <1>5 DEF WorkerTake, UpdateExecStatus, WorkerGoto
  <1>6. CASE WorkerLoad
    <2>1. CASE taskOrder[wrk.task] \in rows
      <3>1. /\ wrk.pc = "taken" /\ wrk'.task = wrk.task /\ wrk'.pc = "running"
            /\ starts' = [starts EXCEPT ![wrk.task] = @ + 1]
            /\ UNCHANGED <<execStatus, dropped>>
        BY <1>6, <2>1 DEF WorkerLoad
      <3>2. QED
        BY <3>1
    <2>2. CASE taskOrder[wrk.task] \notin rows
      <3>1. wrk.pc = "taken" /\ wrk' = WorkerIdle /\ UNCHANGED <<execStatus, starts>>
            /\ dropped' = dropped \cup {wrk.task}
        BY <1>6, <2>2 DEF WorkerLoad
      <3>2. QED
        BY <3>1
    <2>3. QED
      BY <2>1, <2>2
  <1>7. CASE WorkerRun \/ WorkerSave \/ WorkerReport
    <2>1. /\ UNCHANGED <<execStatus, starts, dropped>> /\ wrk'.task = wrk.task
          /\ {wrk.pc, wrk'.pc} \cap {"idle", "picked", "taken"} = {}
      BY <1>7 DEF WorkerRun, WorkerSave, WorkerReport, WorkerGoto, AfterTaskRun
    <2>2. QED
      BY <2>1
  <1>8. CASE WorkerFinish
    BY <1>8 DEF WorkerFinish, UpdateExecStatus, FinishStatus
  <1>9. CASE WorkerAbort
    BY <1>9 DEF WorkerAbort
  <1>10. QED
    BY <1>1, <1>2, <1>3, <1>4, <1>5, <1>6, <1>7, <1>8, <1>9, ThreadsStutter DEF WorkerStep

\* In every instance no task of sql_task is forgotten.
THEOREM TasksAccounted == Spec => []TasksAreAccounted
  BY AccountInit, AccountStep, TypeCorrect, PTL DEF Spec, AccountInv

\* The worker has reported the result of a task, or never will.
Reported(k) ==
  execStatus[k] = EXEC_STATUS_EXEC_FINISH \/ (wrk.pc = "finish" /\ wrk.task = k)

AllReported(o) == \A k \in TasksOf(o) : Reported(k)

\* ASYNC_EXEC is written over the result of the last task of an order: by the
\* request that queued it, or by a save that had read that status
\* (sql_order.py:358-359, mysql_change.py:144-147).
AsyncComesLate ==
  \E t \in Thread :
    /\ \/ ExecuteSetAsync(t)
       \/ SaveWrite(t) /\ thr[t].num = ORDER_STATUS_ASYNC_EXEC
    /\ thr[t].order \in rows \ rearmed
    /\ AllReported(thr[t].order)

\* An order in ASYNC_EXEC has a task whose result is still to come.
ReportInv ==
  \A o \in rows \ rearmed : status[o] = ORDER_STATUS_ASYNC_EXEC => ~AllReported(o)

\* The second statement of reset_async is about an order it has re-armed.
ResetInv == \A t \in Thread : thr[t].pc = "resetOrder" => thr[t].order \in rearmed

\* Initially there is no order.
LEMMA ReportInit == Init => ReportInv /\ ResetInv
  BY DEF Init, TablesInit, Idle, ReportInv, ResetInv

USE DEF ORDER_STATUS_NO_VIEW, ORDER_STATUS_AGREE_SUCCED, ORDER_STATUS_AGREE_FAILED,
        ORDER_STATUS_ASYNC_EXEC, ORDER_STATUS_NO_COMMIT

\* An order comes to be in ASYNC_EXEC through one of three statements.
LEMMA WhoSetsAsync ==
  ASSUME TypeInv, EvidenceInv, [Next]_vars, NEW o \in rows',
         status'[o] = ORDER_STATUS_ASYNC_EXEC
  PROVE  \/ o \in rows /\ status[o] = ORDER_STATUS_ASYNC_EXEC
         \/ \E t \in Thread :
              /\ o \in rows /\ thr[t].order = o
              /\ \/ ExecuteSetAsync(t)
                 \/ SaveWrite(t) /\ thr[t].num = ORDER_STATUS_ASYNC_EXEC
         \/ \E t \in Thread : ResetAsyncOrder(t) /\ thr[t].order = o
  <1> DEFINE Before == o \in rows /\ status[o] = ORDER_STATUS_ASYNC_EXEC
  <1> USE DEF TypeInv, TypeOK, TablesTypeOK, LocalsOK, HoldsOrder, HoldsSql, orderVars
  <1>1. ASSUME NEW t \in Web, Request(t)
        PROVE  Before
    BY <1>1 DEF Request, SaveBegin, CommitBegin, ExecuteBegin, RollbackBegin, ResetAsyncBegin
  <1>2. ASSUME NEW q \in used, Cancel(q) \/ Delete(q) \/ ResetSucced(q)
        PROVE  Before
    BY <1>2 DEF Cancel, Delete, ResetSucced, SetOrderStatus, DeleteOrder, Put
  <1>3. ASSUME NEW t \in Thread, SaveWrite(t)
        PROVE  Before \/ (o \in rows /\ thr[t].order = o /\ thr[t].num = ORDER_STATUS_ASYNC_EXEC)
    <2>1. thr[t].pc = "saveWrite"
          /\ (thr[t].num = ORDER_STATUS_ASYNC_EXEC => thr[t].order \in OrderId)
      BY <1>3 DEF SaveWrite, At, EvidenceInv, AsyncInv
    <2>2. CASE thr[t].order = NoOrder
      <3>1. PICK new \in OrderId \ used : InsertOrder(new, thr[t].sql, thr[t].num)
        BY <1>3, <2>2 DEF SaveWrite, SaveOrder
      <3>2. thr[t].num # ORDER_STATUS_ASYNC_EXEC
        BY <2>1, <2>2
      <3>3. QED
        BY <3>1, <3>2 DEF InsertOrder
    <2>3. CASE thr[t].order # NoOrder
      BY <1>3, <2>3 DEF SaveWrite, SaveOrder, UpdateOrder, Put
    <2>4. QED
      BY <2>2, <2>3
  <1>4. ASSUME NEW t \in Thread, CommitWrite(t)
        PROVE  Before
    BY <1>4 DEF CommitWrite, SaveOrder, InsertOrder, UpdateOrder, Put
  <1>5. ASSUME NEW t \in Thread, ExecuteSetAsync(t) \/ ResetAsyncOrder(t)
        PROVE  Before \/ (o \in rows /\ thr[t].order = o)
    BY <1>5 DEF ExecuteSetAsync, ResetAsyncOrder, SetToAsyncExecStatus, SetOrderStatus, Put
  <1>6. ASSUME NEW t \in Thread, ExecuteCheck(t) \/ ExecuteReport(t) \/ ExecuteSave(t)
        PROVE  Before
    BY <1>6 DEF ExecuteCheck, ExecuteReport, ExecuteSave, SetLatestExecResult,
       SetOrderStatus, SaveRawResultSet, Put
  <1>7. ASSUME NEW t \in Thread,
               \/ SaveRead(t) \/ CommitCheck(t) \/ ExecuteAddTask(t) \/ ExecuteRun(t)
               \/ RollbackRun(t) \/ RollbackLoad(t) \/ RollbackWrite(t) \/ Abort(t)
        PROVE  Before
    BY <1>7 DEF SaveRead, CommitCheck, ExecuteAddTask, ExecuteRun, RollbackRun,
       RollbackLoad, RollbackWrite, SetRollBackTimes, Abort
  <1>8. CASE VerifierStep \/ UNCHANGED vars
    BY <1>8 DEF VerifierStep, VerifyPick, VerifyPost, vars
  <1>9. CASE WorkerStep \/ WorkerAbort
    BY <1>9 DEF WorkerStep, WorkerPick, WorkerTake, WorkerLoad, WorkerRun, WorkerSave,
       WorkerReport, WorkerFinish, WorkerAbort, SaveRawResultSet, SetLatestExecResult,
       SetOrderStatus, Put
  <1> HIDE DEF Before
  <1>10. QED
    BY <1>1, <1>2, <1>3, <1>4, <1>5, <1>6, <1>7, <1>8, <1>9
       DEF Next, Continue, Before

\* The last result of an order that nobody re-arms is reported by the worker alone.
LEMMA WhoReports ==
  ASSUME TypeInv, [Next]_vars, NEW o \in OrderId, o \notin rearmed', AllReported(o)'
  PROVE  AllReported(o) \/ (WorkerReport /\ taskOrder[wrk.task] = o)
  <1> USE DEF TypeInv, TypeOK, TablesTypeOK, LocalsOK, AllReported, Reported, TasksOf,
              WorkerIdle, taskVars
  <1>1. CASE QueueStutters
    BY <1>1 DEF QueueStutters
  <1>2. ASSUME NEW t \in Web, NEW q \in used, ResetAsyncBegin(t, q)
        PROVE  AllReported(o)
    BY <1>2 DEF ResetAsyncBegin, RearmTasks
  <1>3. ASSUME NEW t \in Thread, ExecuteAddTask(t)
        PROVE  AllReported(o)
    <2>1. PICK k \in TaskId : AddTask(k, thr[t].order)
      BY <1>3 DEF ExecuteAddTask
    <2>2. /\ taskOrder[k] = NoOrder /\ wrk' = wrk
          /\ taskOrder' = [taskOrder EXCEPT ![k] = thr[t].order]
          /\ execStatus' = [execStatus EXCEPT ![k] = EXEC_STATUS_TO_EXEC]
      BY <1>3, <2>1 DEF AddTask, ExecuteAddTask
    <2>3. QED
      BY <2>2
  <1>4. CASE WorkerPick
    BY <1>4 DEF WorkerPick, ToExec
  <1>5. CASE WorkerTake
    BY <1>5 DEF WorkerTake, UpdateExecStatus, WorkerGoto
  <1>6. CASE WorkerLoad
    <2>1. wrk.pc = "taken" /\ wrk'.pc # "finish" /\ UNCHANGED <<taskOrder, execStatus>>
      BY <1>6, LoadCases DEF LoadStarts, LoadLoses
    <2>2. QED
      BY <2>1
  <1>7. CASE WorkerRun \/ WorkerSave
    <2>1. wrk'.pc # "finish" /\ UNCHANGED <<taskOrder, execStatus>>
      BY <1>7 DEF WorkerRun, WorkerSave, WorkerGoto, AfterTaskRun
    <2>2. QED
      BY <2>1
  <1>8. CASE WorkerReport
    BY <1>8 DEF WorkerReport, WorkerGoto
  <1>9. CASE WorkerFinish
    BY <1>9 DEF WorkerFinish, UpdateExecStatus
  <1>10. CASE WorkerAbort
    BY <1>10 DEF WorkerAbort
  <1>11. QED
    BY <1>1, <1>2, <1>3, <1>4, <1>5, <1>6, <1>7, <1>8, <1>9, <1>10, ThreadsStutter
       DEF WorkerStep

\* A reset stays noted, and the order being reset is the noted one.
LEMMA ResetStep ==
  ASSUME TypeInv, ResetInv, [Next]_vars
  PROVE  rearmed \subseteq rearmed' /\ ResetInv'
  <1> DEFINE Frame == /\ rearmed' = rearmed
                      /\ \A t \in Thread : thr'[t].pc = "resetOrder" => thr'[t] = thr[t]
  <1>0. Frame => rearmed \subseteq rearmed' /\ ResetInv'
    BY DEF ResetInv
  <1> USE DEF TypeInv, TypeOK, Thread, Idle, Goto, Reply, Step, At, evidVars
  <1>1. ASSUME NEW t \in Web, NEW o \in used \cup {NoOrder}, NEW s \in Sql,
               SaveBegin(t, o, s) \/ CommitBegin(t, o, s)
        PROVE  Frame
    BY <1>1 DEF SaveBegin, CommitBegin
  <1>2. ASSUME NEW t \in Web, NEW o \in used, ExecuteBegin(t, o) \/ RollbackBegin(t, o)
        PROVE  Frame
    BY <1>2 DEF ExecuteBegin, LoadOrder, RollbackBegin
  <1>3. ASSUME NEW t \in Web, NEW o \in used, ResetAsyncBegin(t, o)
        PROVE  rearmed \subseteq rearmed' /\ ResetInv'
    BY <1>3 DEF ResetAsyncBegin, ResetInv
  <1>4. ASSUME NEW o \in used, Cancel(o) \/ Delete(o) \/ ResetSucced(o)
        PROVE  Frame
    BY <1>4 DEF Cancel, Delete, ResetSucced
  <1>5. ASSUME NEW t \in Thread, SaveRead(t) \/ SaveWrite(t) \/ CommitCheck(t) \/ CommitWrite(t)
        PROVE  Frame
    BY <1>5 DEF SaveRead, SaveWrite, CommitCheck, CommitWrite
  <1>6. ASSUME NEW t \in Thread,
               ExecuteCheck(t) \/ ExecuteAddTask(t) \/ ExecuteSetAsync(t)
        PROVE  Frame
    BY <1>6 DEF ExecuteCheck, ExecuteAddTask, ExecuteSetAsync, BigOrderPoint,
       SetLatestExecResult, SetToAsyncExecStatus, SetOrderStatus
  <1>7. ASSUME NEW t \in Thread, ExecuteRun(t) \/ ExecuteReport(t) \/ ExecuteSave(t)
        PROVE  Frame
    BY <1>7 DEF ExecuteRun, ExecuteReport, ExecuteSave, Apply, AfterRun,
       SetLatestExecResult, SetOrderStatus, SaveRawResultSet
  <1>8. ASSUME NEW t \in Thread, RollbackRun(t) \/ RollbackLoad(t) \/ RollbackWrite(t)
        PROVE  Frame
    BY <1>8 DEF RollbackRun, AfterRollback, RollbackLoad, RollbackWrite
  <1>9. ASSUME NEW t \in Thread, ResetAsyncOrder(t) \/ Abort(t)
        PROVE  Frame
    BY <1>9 DEF ResetAsyncOrder, Abort
  <1>10. ASSUME VerifierStep
         PROVE  Frame
    BY <1>10 DEF VerifierStep, VerifyPick, VerifyPost, LoadOrder
  <1>11. ASSUME WorkerStep \/ WorkerAbort \/ UNCHANGED vars
         PROVE  Frame
    BY <1>11 DEF WorkerStep, WorkerPick, WorkerTake, WorkerLoad, WorkerRun, WorkerSave,
       WorkerReport, WorkerFinish, WorkerAbort, Apply, vars
  <1> HIDE DEF Frame
  <1>12. QED
    BY <1>0, <1>1, <1>2, <1>3, <1>4, <1>5, <1>6, <1>7, <1>8, <1>9, <1>10, <1>11
       DEF Next, Request, Continue

\* Unless ASYNC_EXEC comes late, an order that shows it has a result to come.
LEMMA ReportStep ==
  ASSUME TypeInv, EvidenceInv, ReportInv, ResetInv, [Next]_vars, ~AsyncComesLate
  PROVE  ReportInv'
  <1> SUFFICES ASSUME NEW o \in rows', o \notin rearmed', AllReported(o)',
                      status'[o] = ORDER_STATUS_ASYNC_EXEC
               PROVE  FALSE
    BY DEF ReportInv
  <1>1. o \notin rearmed
    BY ResetStep
  <1>2. PICK t \in Thread :
          \/ o \in rows /\ status[o] = ORDER_STATUS_ASYNC_EXEC
          \/ /\ o \in rows /\ thr[t].order = o
             /\ \/ ExecuteSetAsync(t)
                \/ SaveWrite(t) /\ thr[t].num = ORDER_STATUS_ASYNC_EXEC
          \/ ResetAsyncOrder(t) /\ thr[t].order = o
    BY WhoSetsAsync DEF Thread
  <1>3. ~ResetAsyncOrder(t) \/ thr[t].order # o
    BY <1>1 DEF ResetAsyncOrder, At, ResetInv
  <1>4. o \in rows /\ o \in OrderId
    BY <1>2, <1>3 DEF TypeInv, TypeOK, TablesTypeOK
  <1>5. CASE WorkerReport /\ taskOrder[wrk.task] = o
    BY <1>4, <1>5 DEF WorkerReport, SetLatestExecResult, SetOrderStatus, Put,
       TypeInv, TypeOK, TablesTypeOK
  <1>6. CASE AllReported(o)
    <2>1. CASE status[o] = ORDER_STATUS_ASYNC_EXEC
      BY <1>1, <1>4, <1>6, <2>1 DEF ReportInv
    <2>2. CASE thr[t].order = o /\ (\/ ExecuteSetAsync(t)
                                    \/ SaveWrite(t) /\ thr[t].num = ORDER_STATUS_ASYNC_EXEC)
      BY <1>1, <1>4, <1>6, <2>2 DEF AsyncComesLate
    <2>3. QED
      BY <1>2, <1>3, <2>1, <2>2
  <1>7. QED
    BY <1>4, <1>5, <1>6, WhoReports

\* An order in the background shows its result later, unless ASYNC_EXEC was written
\* after its last result: the one way in which the claim of sql_order.py:360 fails.
THEOREM AsyncReports == Spec /\ [][~AsyncComesLate]_vars => []AsyncWillReport
  <1>1. TypeInv /\ EvidenceInv /\ ReportInv /\ ResetInv /\ [Next]_vars
          /\ [~AsyncComesLate]_vars => ReportInv' /\ ResetInv'
    <2>1. CASE UNCHANGED vars
      BY <2>1 DEF vars, orderVars, taskVars, evidVars, ReportInv, ResetInv, AllReported,
         Reported, TasksOf
    <2>2. QED
      BY <2>1, ReportStep, ResetStep
  <1>2. ReportInv => AsyncWillReport
    BY DEF ReportInv, AllReported, Reported, AsyncWillReport
  <1>3. QED
    BY <1>1, <1>2, ReportInit, TypeCorrect, EvidenceCorrect, PTL DEF Spec

-----------------------------------------------------------------------------
(* The queue of tasks drains, in whatever order the SELECT picks: every    *)
(* round that begins once nothing is armed any more takes a task out of it *)
(* for good, so none can be passed over for ever.                          *)

InHand(k) == wrk.pc # "idle" /\ wrk.task = k
Settled(k) == execStatus[k] = EXEC_STATUS_EXEC_FINISH \/ k \in dropped
InQueue(k) == k \in ToExec

Open == {k \in TaskId : InQueue(k) \/ InHand(k)}

\* The worker's runs end, and it looks for work again while there is some.
Resting == wrk.pc = "idle"
RunsEnd == []<>Resting
RoundsBegin == []<>(~Resting \/ ToExec = {})

\* A step that queues nothing, neither a new task nor one that was reset, and does not
\* cut a round short.
Undisturbed == arms' = arms /\ ~WorkerAbort

\* The worker keeps a task until it is finished or lost, although a reset may queue it
\* again meanwhile.
LEMMA HeldUntilSettled ==
  ASSUME TypeInv, NEW k \in TaskId, InHand(k), [Next]_vars
  PROVE  InHand(k)' \/ Settled(k)'
  <1> USE DEF TypeInv, TypeOK, TablesTypeOK, InHand, Settled, WorkerIdle, taskVars
  <1>1. CASE QueueStutters
    BY <1>1 DEF QueueStutters
  <1>2. ASSUME NEW t \in Web, NEW q \in used, ResetAsyncBegin(t, q)
        PROVE  InHand(k)'
    BY <1>2 DEF ResetAsyncBegin
  <1>3. ASSUME NEW t \in Thread, ExecuteAddTask(t)
        PROVE  InHand(k)'
    BY <1>3 DEF ExecuteAddTask
  <1>4. CASE WorkerPick
    BY <1>4 DEF WorkerPick
  <1>5. CASE WorkerTake \/ WorkerRun \/ WorkerSave \/ WorkerReport
    BY <1>5 DEF WorkerTake, WorkerRun, WorkerSave, WorkerReport, WorkerGoto, AfterTaskRun
  <1>6. CASE WorkerLoad
    <2>1. CASE taskOrder[wrk.task] \in rows
      BY <1>6, <2>1 DEF WorkerLoad
    <2>2. CASE taskOrder[wrk.task] \notin rows
      BY <1>6, <2>2 DEF WorkerLoad
    <2>3. QED
      BY <2>1, <2>2
  <1>7. CASE WorkerFinish
    BY <1>7 DEF WorkerFinish, UpdateExecStatus, FinishStatus
  <1>8. CASE WorkerAbort
    BY <1>8 DEF WorkerAbort
  <1>9. QED
    BY <1>1, <1>2, <1>3, <1>4, <1>5, <1>6, <1>7, <1>8, ThreadsStutter DEF WorkerStep

\* Only the worker takes a task from the queue, and then it has it.
LEMMA QueuedUntilHeld ==
  ASSUME TypeInv, NEW k \in TaskId, InQueue(k), [Next]_vars
  PROVE  InQueue(k)' \/ InHand(k)' \/ Settled(k)'
  <1> USE DEF TypeInv, TypeOK, TablesTypeOK, LocalsOK, InQueue, ToExec, InHand, Settled, taskVars
  <1>1. CASE QueueStutters
    BY <1>1 DEF QueueStutters
  <1>2. ASSUME NEW t \in Web, NEW q \in used, ResetAsyncBegin(t, q)
        PROVE  InQueue(k)'
    BY <1>2 DEF ResetAsyncBegin, RearmTasks
  <1>3. ASSUME NEW t \in Thread, ExecuteAddTask(t)
        PROVE  InQueue(k)'
    BY <1>3 DEF ExecuteAddTask, AddTask
  <1>4. CASE WorkerTake
    BY <1>4 DEF WorkerTake, UpdateExecStatus, WorkerGoto
  <1>5. CASE WorkerFinish
    BY <1>5 DEF WorkerFinish, UpdateExecStatus, FinishStatus
  <1>6. CASE WorkerPick \/ WorkerRun \/ WorkerSave \/ WorkerReport \/ WorkerLoad \/ WorkerAbort
    <2>1. UNCHANGED <<taskOrder, execStatus>>
      BY <1>6 DEF WorkerPick, WorkerRun, WorkerSave, WorkerReport, WorkerLoad, WorkerAbort
    <2>2. QED
      BY <2>1
  <1>7. QED
    BY <1>1, <1>2, <1>3, <1>4, <1>5, <1>6, ThreadsStutter DEF WorkerStep

\* Of the steps that queue nothing, none changes what is queued but the worker's.
LEMMA UndisturbedCases ==
  ASSUME TypeInv, [Next]_vars, [Undisturbed]_vars
  PROVE  UNCHANGED <<taskOrder, execStatus, wrk>> \/ WorkerStep
  <1> USE DEF TypeInv, TypeOK, TablesTypeOK, taskVars
  <1>1. arms' = arms /\ (WorkerAbort => UNCHANGED vars)
    BY DEF Undisturbed, vars, jobVars
  <1>2. ASSUME NEW t \in Web, NEW q \in used, ResetAsyncBegin(t, q)
        PROVE  UNCHANGED <<taskOrder, execStatus, wrk>>
    <2>1. \A k \in TaskId : arms[k] \in Nat /\ arms'[k] = arms[k]
      BY <1>1
    <2>2. \A k \in TaskId : taskOrder[k] = q => arms'[k] = arms[k] + 1
      BY <1>2 DEF ResetAsyncBegin
    <2>3. \A k \in TaskId : taskOrder[k] # q
      BY <2>1, <2>2
    <2>4. execStatus' = execStatus
      BY <1>2, <2>3 DEF ResetAsyncBegin, RearmTasks
    <2>5. QED
      BY <1>2, <2>4 DEF ResetAsyncBegin, RearmTasks
  <1>3. ASSUME NEW t \in Thread PROVE ~ExecuteAddTask(t)
    <2>1. SUFFICES ASSUME ExecuteAddTask(t) PROVE FALSE
      OBVIOUS
    <2>2. PICK k \in TaskId : arms' = [arms EXCEPT ![k] = @ + 1]
      BY <2>1 DEF ExecuteAddTask
    <2>3. arms[k] \in Nat /\ arms'[k] = arms[k] + 1
      BY <2>2
    <2>4. QED
      BY <1>1, <2>3
  <1>4. CASE WorkerAbort
    BY <1>1, <1>4 DEF vars
  <1>5. CASE QueueStutters
    BY <1>5 DEF QueueStutters
  <1>6. QED
    BY <1>2, <1>3, <1>4, <1>5, ThreadsStutter

\* Such a step adds no task to those that are queued or in hand.
LEMMA OpenStep ==
  ASSUME TypeInv, [Next]_vars, [Undisturbed]_vars, NEW k \in Open'
  PROVE  k \in Open
  <1> USE DEF TypeInv, TypeOK, TablesTypeOK, LocalsOK, Open, InQueue, InHand, ToExec,
              WorkerIdle, taskVars
  <1>1. CASE UNCHANGED <<taskOrder, execStatus, wrk>>
    BY <1>1
  <1>2. CASE WorkerPick
    BY <1>2 DEF WorkerPick
  <1>3. CASE WorkerTake \/ WorkerRun \/ WorkerSave \/ WorkerReport
    BY <1>3 DEF WorkerTake, WorkerRun, WorkerSave, WorkerReport, WorkerGoto, AfterTaskRun,
       UpdateExecStatus
  <1>4. CASE WorkerLoad
    BY <1>4, LoadCases DEF LoadStarts, LoadLoses
  <1>5. CASE WorkerFinish
    BY <1>5 DEF WorkerFinish, UpdateExecStatus, FinishStatus
  <1>6. QED
    BY <1>1, <1>2, <1>3, <1>4, <1>5, UndisturbedCases DEF WorkerStep

\* The tasks of Q are queued or in hand; some of them no longer are, being settled, and
\* no other is.
Same(Q) == Open = Q
Fewer(Q) == Open \subseteq Q /\ \E k \in Q \ Open : Settled(k)

\* Tasks leave the queue and the worker's hands only settled.
LEMMA QueueShrinks ==
  ASSUME TypeInv, NEW Q, Same(Q), [Next]_vars, [Undisturbed]_vars
  PROVE  Same(Q)' \/ Fewer(Q)'
  <1>1. Open' \subseteq Q
    BY OpenStep DEF Same
  <1>2. CASE Open' = Q
    BY <1>2 DEF Same
  <1>3. CASE Open' # Q
    <2>1. PICK k \in Q : k \notin Open'
      BY <1>1, <1>3
    <2>2. k \in TaskId /\ (InQueue(k) \/ InHand(k))
      BY <2>1 DEF Same, Open
    <2>3. InQueue(k)' \/ InHand(k)' \/ Settled(k)'
      BY <2>2, HeldUntilSettled, QueuedUntilHeld
    <2>4. Settled(k)'
      BY <2>1, <2>2, <2>3 DEF Open
    <2>5. QED
      BY <1>1, <2>1, <2>4 DEF Fewer
  <1>4. QED
    BY <1>2, <1>3

\* The worker's task will not be queued when the worker lets go of it.
Clean == ~Resting /\ (wrk.pc = "picked" \/ execStatus[wrk.task] # EXEC_STATUS_TO_EXEC)

\* A round that begins is clean.
LEMMA RestStep ==
  ASSUME TypeInv, Resting, [Next]_vars, [Undisturbed]_vars
  PROVE  Resting' \/ Clean'
  <1>1. CASE WorkerPick
    BY <1>1 DEF WorkerPick, Clean, Resting
  <1>2. CASE wrk' = wrk
    BY <1>2 DEF Resting
  <1>3. QED
    BY <1>1, <1>2, UndisturbedCases
    DEF WorkerStep, Resting, WorkerTake, WorkerLoad, WorkerRun, WorkerSave, WorkerReport,
        WorkerFinish

\* A clean round stays clean until it ends, and takes its task out of the queue.
LEMMA CleanStep ==
  ASSUME TypeInv, Clean, [Next]_vars, [Undisturbed]_vars
  PROVE  Clean' \/ (wrk.task \in Open /\ wrk.task \notin Open')
  <1>0. wrk.pc # "idle" /\ wrk.task \in TaskId /\ wrk.task \in Open
    BY DEF Clean, Resting, TypeInv, LocalsOK, Open, InHand
  <1> USE DEF TypeInv, TypeOK, TablesTypeOK, Clean, Resting, taskVars,
              EXEC_STATUS_TO_EXEC, EXEC_STATUS_EXEC_ING, EXEC_STATUS_EXEC_FINISH
  <1>1. CASE UNCHANGED <<taskOrder, execStatus, wrk>>
    BY <1>1
  <1>2. CASE WorkerTake
    BY <1>0, <1>2 DEF WorkerTake, WorkerGoto, UpdateExecStatus
  <1>3. CASE WorkerRun \/ WorkerSave \/ WorkerReport
    BY <1>3 DEF WorkerRun, WorkerSave, WorkerReport, WorkerGoto, AfterTaskRun
  <1>4. CASE WorkerLoad
    <2>1. CASE LoadStarts
      BY <2>1 DEF LoadStarts
    <2>2. CASE LoadLoses
      BY <1>0, <2>2 DEF LoadLoses, WorkerIdle, Open, InQueue, InHand, ToExec
    <2>3. QED
      BY <1>4, <2>1, <2>2, LoadCases
  <1>5. CASE WorkerFinish
    BY <1>0, <1>5 DEF WorkerFinish, UpdateExecStatus, FinishStatus, WorkerIdle, Open, InQueue,
       InHand, ToExec
  <1>6. QED
    BY <1>0, <1>1, <1>2, <1>3, <1>4, <1>5, UndisturbedCases DEF WorkerStep, WorkerPick

\* Once nothing is queued or cut short any more, the tasks that are queued or in hand do
\* not stay the same: some of them are finished or lost, and none is added, in whatever
\* order the worker picks.  (That a finite set shrinks so only finitely often is not said.)
THEOREM QueueDrains ==
  ASSUME NEW Q \in SUBSET TaskId, Q # {}
  PROVE  Spec /\ RunsEnd /\ RoundsBegin /\ <>[][Undisturbed]_vars
           => <>[](Open = Q => <>(Open \subseteq Q /\ \E k \in Q \ Open : Settled(k)))
  <1>1. TypeInv /\ Same(Q) /\ [Next]_vars /\ [Undisturbed]_vars => Same(Q)' \/ Fewer(Q)'
    BY QueueShrinks
  <1>2. TypeInv /\ Resting /\ [Next]_vars /\ [Undisturbed]_vars => Resting' \/ Clean'
    BY RestStep
  <1>3. TypeInv /\ Same(Q) /\ Clean /\ [Next]_vars /\ [Undisturbed]_vars
          => Clean' \/ ~Same(Q)'
    BY CleanStep DEF Same
  <1>4. Same(Q) /\ Resting => ~(ToExec = {})
    BY DEF Same, Resting, Open, InHand, InQueue
  <1>5. Clean => ~Resting
    BY DEF Clean
  <1>6. /\ Same(Q) <=> Open = Q
        /\ Fewer(Q) <=> Open \subseteq Q /\ \E k \in Q \ Open : Settled(k)
    BY DEF Same, Fewer
  <1>7. QED
    BY <1>1, <1>2, <1>3, <1>4, <1>5, <1>6, TypeCorrect, PTL DEF Spec, RunsEnd, RoundsBegin

\* A worker that looks for work holds no task.
HandsEmpty == wrk.pc = "idle" => wrk = WorkerIdle

\* Over every step it lets go of what it held.
LEMMA HandsStep == TypeInv /\ HandsEmpty /\ [Next]_vars => HandsEmpty'
  <1> SUFFICES ASSUME TypeInv, HandsEmpty, [Next]_vars PROVE HandsEmpty'
    OBVIOUS
  <1> USE DEF HandsEmpty
  <1>1. CASE wrk' = wrk
    BY <1>1
  <1>2. CASE WorkerPick
    BY <1>2 DEF WorkerPick
  <1>3. CASE WorkerTake \/ WorkerRun \/ WorkerSave \/ WorkerReport
    BY <1>3 DEF WorkerTake, WorkerRun, WorkerSave, WorkerReport, WorkerGoto, AfterTaskRun,
       TypeInv, TypeOK
  <1>4. CASE WorkerLoad
    BY <1>4 DEF WorkerLoad, TypeInv, TypeOK
  <1>5. CASE WorkerFinish \/ WorkerAbort
    BY <1>5 DEF WorkerFinish, WorkerAbort
  <1>6. QED
    BY <1>1, <1>2, <1>3, <1>4, <1>5, ThreadsStutter
       DEF WorkerStep, QueueStutters, ResetAsyncBegin, ExecuteAddTask

\* In every instance an idle worker has no task in its hands.
THEOREM IdleHandsEmpty == Spec => []HandsEmpty
  <1>1. Init => HandsEmpty
    BY DEF Init, HandsEmpty
  <1>2. QED
    BY <1>1, HandsStep, TypeCorrect, PTL DEF Spec
=============================================================================
