----------------------- MODULE ArchiveDispatchProofs -----------------------
(***************************************************************************)
(* Machine-checked proofs about the scheduling of archive tasks: types,    *)
(* no occurrence run twice or out of order, run-once tasks, and the two    *)
(* waits: nobody waits in vain, due tasks are claimed, requests answered.  *)
(***************************************************************************)
EXTENDS ArchiveDispatchProperties, TLAPS

USE ArchiveAssumption DEF ByHand, NoJob, tableVars, jobVars, noteVars

\* What the actors hold at each program point.
Holding == {"send", "wait", "disable"}

LocalsOK ==
  /\ jdg.pc \in Holding => jdg.job \in Occurrence
  /\ \A a \in Admin : adm[a].pc # "idle" => adm[a].task \in Task
  /\ \A m \in mail : m.job[2] # ByHand => m.job \in Occurrence
  /\ exe.pc = "fork" =>
       exe.job \in Task \X Nat /\ (exe.job[2] # ByHand => exe.job \in Occurrence)

TypeInv == TypeOK /\ LocalsOK

Claimed(c) == claims[c] > 0
Started(c) == starts[c] > 0

\* A claim is never later than latest_exec_time, as long as the row is there,
\* and what a round still has to do comes after every claim.
ClaimInv ==
  /\ \A k \in Task : latest[k] <= now
  /\ \A c \in Occurrence : Claimed(c) =>
       c[1] \in used /\ c[2] <= now /\ (c[1] \in tasks => c[2] <= latest[c[1]])
  /\ \A j \in jdg.todo :
       /\ j[1] \in used /\ j[2] <= now
       /\ \A c \in Occurrence : c[1] = j[1] /\ Claimed(c) => c[2] < j[2]
  /\ \A i, j \in jdg.todo : i[1] = j[1] => i = j

\* A claimed occurrence on its way is in one place at a time: with the judger
\* that is about to send it, in the one message the judger waits for, or with
\* the executor that is about to fork.
FlightInv ==
  /\ \A c \in Occurrence : Started(c) => Claimed(c)
  /\ jdg.pc \in Holding => Claimed(jdg.job)
  /\ jdg.pc = "send" => ~Started(jdg.job) /\ (exe.pc = "fork" => exe.job # jdg.job)
  /\ Judger \in acked => jdg.pc = "wait"
  /\ \A m \in mail :
       \/ m.from # Judger /\ m.job[2] = ByHand
       \/ /\ m.from = Judger /\ Judger \notin acked
          /\ jdg.pc = "wait" /\ m.job = jdg.job
          /\ ~Started(m.job) /\ (exe.pc = "fork" => exe.job # m.job)
  /\ exe.pc = "fork" /\ exe.job[2] # ByHand => Claimed(exe.job) /\ ~Started(exe.job)

\* The occurrences that were started or may still be.
Live(c) ==
  \/ Started(c)
  \/ exe.pc = "fork" /\ c = exe.job
  \/ jdg.pc \in Holding /\ c = jdg.job

\* While a run-once task has a live occurrence the judger is busy with it or the
\* task is disabled, and the current round has nothing more to do with it.
OnceFor(k) ==
  /\ \A c, d \in Occurrence : c[1] = k /\ d[1] = k /\ Live(c) /\ Live(d) => c = d
  /\ \A c \in Occurrence : c[1] = k /\ Live(c) =>
       /\ \A j \in jdg.todo : j[1] # k
       /\ \/ jdg.pc \in Holding /\ jdg.job[1] = k
          \/ k \notin tasks
          \/ ~enabled[k]

OnceInv == \A k \in Once \ (reenabled \cup undisabled) : OnceFor(k)

Inv == TypeInv /\ ClaimInv /\ FlightInv /\ OnceInv

-----------------------------------------------------------------------------
(* Occurrences *)

\* An occurrence is a pair of a task and a positive time.
LEMMA OccurrenceFacts ==
  \A o \in Occurrence : o \in Task \X Nat /\ o[1] \in Task /\ o[2] \in Nat \ {0}
  BY DEF Occurrence

\* Two occurrences of one task at one time are the same.
LEMMA OccurrenceExt ==
  ASSUME NEW c \in Occurrence, NEW d \in Occurrence, c[1] = d[1], c[2] = d[2]
  PROVE  c = d
  BY OccurrenceFacts

\* What is due comes from the schedule, after latest_exec_time and not after now.
LEMMA DueFacts ==
  ASSUME TypeOK, NEW j \in Due
  PROVE  /\ j \in Occurrence
         /\ j[1] \in tasks /\ enabled[j[1]]
         /\ j[2] <= now /\ latest[j[1]] < j[2]
  <1> SUFFICES ASSUME j \in Task \X (0 .. now), j[1] \in tasks, enabled[j[1]],
                      j[2] \in Schedule[j[1]], j[2] > latest[j[1]]
               PROVE  j \in Occurrence /\ j[2] <= now /\ latest[j[1]] < j[2]
    BY DEF Due, After
  <1>1. j = <<j[1], j[2]>> /\ j[1] \in Task /\ j[2] \in Nat /\ j[2] <= now
    BY DEF TypeOK
  <1>2. latest[j[1]] \in Nat
    BY <1>1 DEF TypeOK
  <1>3. j \in {j[1]} \X Schedule[j[1]]
    BY <1>1
  <1> QED
    BY <1>1, <1>2, <1>3 DEF Occurrence

\* One occurrence per task is due.
LEMMA DueUnique ==
  ASSUME TypeOK, NEW i \in Due, NEW j \in Due, i[1] = j[1]
  PROVE  i = j
  <1>1. i \in Occurrence /\ j \in Occurrence
    BY DueFacts
  <1>2. i[2] <= j[2] /\ j[2] <= i[2]
    BY DEF Due
  <1> QED
    BY <1>1, <1>2, OccurrenceFacts, OccurrenceExt

-----------------------------------------------------------------------------
(* Types *)

\* The tables are empty and nobody holds anything.
LEMMA TypeInit == Init => TypeInv
  BY DEF Init, TypeInv, TypeOK, LocalsOK, Holding, JudgerIdle, AdminIdle,
     ExecutorIdle, Job

\* Setting a status keeps the types of the table, whatever the id.
LEMMA SetStatusTypes ==
  ASSUME TypeOK, NEW k, NEW v \in BOOLEAN, SetStatus(k, v)
  PROVE  /\ enabled' \in [Task -> BOOLEAN]
         /\ tasks' = tasks /\ used' = used /\ latest' = latest
  <1>1. CASE k \in tasks
    <2>1. k \in Task
      BY <1>1 DEF TypeOK
    <2>2. enabled' = [enabled EXCEPT ![k] = v]
      BY <1>1 DEF SetStatus
    <2> QED
      BY <2>1, <2>2 DEF SetStatus, TypeOK
  <1>2. CASE k \notin tasks
    BY <1>2 DEF SetStatus, TypeOK
  <1> QED
    BY <1>1, <1>2

\* Every step is counted against at most one bound.
LEMMA CountersStep ==
  ASSUME reqs \in Nat, faults \in Nat, [Next]_vars
  PROVE  reqs' \in Nat /\ faults' \in Nat
  <1>1. ASSUME Steady \/ Accept \/ Fault \/ UNCHANGED <<reqs, faults>>
        PROVE  reqs' \in Nat /\ faults' \in Nat
    BY <1>1 DEF Steady, Accept, Fault
  <1>2. ASSUME Tick \/ JudgerStep \/ ExecutorStep \/ Restart \/ UNCHANGED vars
        PROVE  Steady \/ Accept \/ Fault \/ UNCHANGED <<reqs, faults>>
    BY <1>2 DEF vars, Tick, JudgerStep, JudgerBegin, JudgerAdvance, JudgerSend, JudgerAck,
       JudgerDisable, JudgerEnd, ExecutorStep, ExecutorReceive, ExecutorFork, Restart
  <1>3. ASSUME NEW k \in Task, AddTask(k) \/ DeleteTask(k)
        PROVE  Steady \/ Accept
    BY <1>3 DEF AddTask, DeleteTask
  <1>4. ASSUME NEW a \in Admin, AdminStep(a)
        PROVE  Steady \/ Accept \/ Fault
    BY <1>4 DEF AdminStep, StartNowBegin, ReverseBegin, StartNowSend, StartNowAck,
       ReverseWrite, AdminFails
  <1> QED
    BY <1>1, <1>2, <1>3, <1>4 DEF Next

\* Every action keeps the types and what the actors hold.
LEMMA TypeStep == TypeInv /\ [Next]_vars => TypeInv'
  <1> SUFFICES ASSUME TypeInv, [Next]_vars PROVE TypeInv'
    OBVIOUS
  <1> USE DEF TypeInv, TypeOK, LocalsOK, Holding, Job, Sender
  <1>0. reqs' \in Nat /\ faults' \in Nat
    BY CountersStep
  <1>1. CASE Tick
    BY <1>0, <1>1 DEF Tick
  <1>2. CASE JudgerBegin
    <2>1. Due \subseteq Occurrence
      BY DueFacts
    <2> QED
      BY <1>0, <1>2, <2>1 DEF JudgerBegin
  <1>3. CASE JudgerAdvance
    <2> PICK j \in jdg.todo : 
          \/ /\ SetLatest(j[1])
             /\ claims' = [claims EXCEPT ![j] = @ + 1]
             /\ jdg' = [jdg EXCEPT !.pc = "send", !.todo = @ \ {j}, !.job = j]
             /\ Steady
          \/ /\ SetLatest(j[1]) \/ UNCHANGED tableVars
             /\ claims' = claims
             /\ jdg' = [jdg EXCEPT !.todo = @ \ {j}]
             /\ Fault
      BY <1>3 DEF JudgerAdvance
    <2>1. tasks' = tasks /\ used' = used /\ enabled' = enabled /\ latest' \in [Task -> Nat]
      BY DEF SetLatest
    <2>2. claims' \in [Occurrence -> Nat]
      OBVIOUS
    <2>3. /\ jdg' \in [pc: {"idle", "scan", "send", "wait", "disable"},
                       todo: SUBSET Occurrence, job: Occurrence \cup {NoJob}]
          /\ jdg'.pc \in Holding => jdg'.job \in Occurrence
      <3>1. jdg.todo \ {j} \subseteq Occurrence /\ j \in Occurrence
        OBVIOUS
      <3>2. jdg.pc = "scan"
        BY <1>3 DEF JudgerAdvance
      <3>3. \/ jdg' = [jdg EXCEPT !.pc = "send", !.todo = @ \ {j}, !.job = j]
            \/ jdg' = [jdg EXCEPT !.todo = @ \ {j}]
        OBVIOUS
      <3> QED
        BY <3>1, <3>2, <3>3
    <2>4. UNCHANGED <<now, adm, mail, acked, exe, starts, noteVars>>
      BY <1>3 DEF JudgerAdvance
    <2>5. TypeOK'
      BY <1>0, <2>1, <2>2, <2>3, <2>4
    <2>6. LocalsOK'
      BY <2>3, <2>4
    <2> QED
      BY <2>5, <2>6
  <1>4. CASE JudgerSend
    BY <1>0, <1>4, OccurrenceFacts DEF JudgerSend
  <1>5. CASE JudgerAck
    BY <1>0, <1>5 DEF JudgerAck, AfterAck
  <1>6. CASE JudgerDisable
    <2>1. /\ enabled' \in [Task -> BOOLEAN]
          /\ tasks' = tasks /\ used' = used /\ latest' = latest
      BY <1>6, SetStatusTypes DEF JudgerDisable
    <2>2. jdg.job[1] \in Task
      BY <1>6, OccurrenceFacts DEF JudgerDisable
    <2>3. undisabled' \subseteq Task
      BY <1>6, <2>2 DEF JudgerDisable
    <2>4. jdg' = [jdg EXCEPT !.pc = "scan"]
      BY <1>6 DEF JudgerDisable
    <2>5. UNCHANGED <<now, adm, mail, acked, exe, claims, starts, reenabled>>
      BY <1>6 DEF JudgerDisable
    <2>6. TypeOK'
      BY <1>0, <2>1, <2>3, <2>4, <2>5
    <2>7. LocalsOK'
      BY <2>4, <2>5
    <2> QED
      BY <2>6, <2>7
  <1>7. CASE JudgerEnd
    BY <1>0, <1>7 DEF JudgerEnd, JudgerIdle
  <1>8. CASE ExecutorReceive
    BY <1>0, <1>8, OccurrenceFacts DEF ExecutorReceive, Reply
  <1>9. CASE ExecutorFork
    <2>1. starts' \in [Occurrence -> Nat]
      BY <1>9 DEF ExecutorFork
    <2> QED
      BY <1>0, <1>9, <2>1 DEF ExecutorFork, ExecutorIdle
  <1>10. ASSUME NEW k \in Task, AddTask(k) \/ DeleteTask(k)
         PROVE  TypeInv'
    <2>1. /\ enabled' \in [Task -> BOOLEAN]
          /\ latest' \in [Task -> Nat] /\ tasks' \subseteq used' /\ used' \subseteq Task
      <3>1. CASE AddTask(k)
        BY <3>1 DEF AddTask
      <3>2. CASE DeleteTask(k)
        BY <3>2 DEF DeleteTask
      <3> QED
        BY <1>10, <3>1, <3>2
    <2>2. UNCHANGED <<now, jdg, adm, mail, acked, exe, jobVars, noteVars>>
      BY <1>10 DEF AddTask, DeleteTask
    <2>3. TypeOK'
      BY <1>0, <2>1, <2>2
    <2>4. LocalsOK'
      BY <2>2
    <2> QED
      BY <2>3, <2>4
  <1>11. ASSUME NEW a \in Admin, NEW k \in used, StartNowBegin(a, k) \/ ReverseBegin(a, k)
         PROVE  TypeInv'
    <2>1. PICK p \in {"send", "reverse"}, status \in BOOLEAN :
            AdminGoto(a, p, k, status)
      <3>1. CASE StartNowBegin(a, k)
        BY <3>1 DEF StartNowBegin
      <3>2. CASE ReverseBegin(a, k)
        BY <3>2 DEF ReverseBegin
      <3> QED
        BY <1>11, <3>1, <3>2
    <2>2. adm' \in [Admin -> [pc: {"idle", "send", "wait", "reverse"}, task: Task \cup {NoTask},
                            status: BOOLEAN]]
      BY <2>1 DEF AdminGoto
    <2>3. \A b \in Admin : adm'[b].pc # "idle" => adm'[b].task \in Task
      BY <2>1 DEF AdminGoto
    <2>4. UNCHANGED <<tableVars, now, jdg, mail, acked, exe, jobVars, noteVars>>
      BY <1>11 DEF StartNowBegin, ReverseBegin
    <2>5. TypeOK'
      BY <1>0, <2>2, <2>4
    <2>6. LocalsOK'
      BY <2>3, <2>4
    <2> QED
      BY <2>5, <2>6
  <1>12. ASSUME NEW a \in Admin, StartNowSend(a)
         PROVE  TypeInv'
    BY <1>0, <1>12 DEF StartNowSend
  <1>13. ASSUME NEW a \in Admin, StartNowAck(a) \/ AdminFails(a)
         PROVE  TypeInv'
    <2>1. adm' = [adm EXCEPT ![a] = AdminIdle]
      BY <1>13 DEF StartNowAck, AdminFails
    <2>2. adm' \in [Admin -> [pc: {"idle", "send", "wait", "reverse"}, task: Task \cup {NoTask},
                            status: BOOLEAN]]
      BY <2>1 DEF AdminIdle
    <2>3. \A b \in Admin : adm'[b].pc # "idle" => adm'[b].task \in Task
      BY <2>1 DEF AdminIdle
    <2> QED
      BY <1>0, <1>13, <2>2, <2>3 DEF StartNowAck, AdminFails
  <1>14. ASSUME NEW a \in Admin, ReverseWrite(a)
         PROVE  TypeInv'
    BY <1>0, <1>14 DEF ReverseWrite, SetStatus, AdminIdle
  <1>15. CASE Restart
    <2>1. undisabled' \subseteq Task
      BY <1>15, OccurrenceFacts DEF Restart
    <2>2. adm' \in [Admin -> [pc: {"idle", "send", "wait", "reverse"}, task: Task \cup {NoTask},
                            status: BOOLEAN]]
      BY <1>15 DEF Restart, AdminIdle
    <2>3. \A b \in Admin : adm'[b].pc = "idle"
      BY <1>15 DEF Restart, AdminIdle
    <2>4. /\ jdg' \in [pc: {"idle", "scan", "send", "wait", "disable"},
                       todo: SUBSET Occurrence, job: Occurrence \cup {NoJob}]
          /\ jdg'.pc = "idle"
      BY <1>15 DEF Restart, JudgerIdle
    <2>5. exe' \in [pc: {"listen", "fork", "down"}, job: Job] /\ exe'.pc = "listen"
      BY <1>15 DEF Restart, ExecutorIdle
    <2> QED
      BY <1>0, <1>15, <2>1, <2>2, <2>3, <2>4, <2>5 DEF Restart
  <1>16. CASE UNCHANGED vars
    BY <1>16 DEF vars
  <1> QED
    BY <1>1, <1>2, <1>3, <1>4, <1>5, <1>6, <1>7, <1>8, <1>9, <1>10, <1>11, <1>12,
       <1>13, <1>14, <1>15, <1>16 DEF Next, JudgerStep, ExecutorStep, AdminStep

-----------------------------------------------------------------------------
(* Claims *)

\* The actions that leave the claims, and what they are compared with, alone.
ClaimsAlone == UNCHANGED <<now, latest, used, tasks, claims>> /\ jdg'.todo = jdg.todo

\* Which actions those are.
LEMMA OthersLeaveClaims ==
  ASSUME TypeOK,
         \/ JudgerSend \/ JudgerAck \/ JudgerDisable \/ ExecutorStep
         \/ \E a \in Admin : AdminStep(a)
         \/ UNCHANGED vars
  PROVE  ClaimsAlone
  <1> USE DEF ClaimsAlone
  <1>1. CASE JudgerSend \/ JudgerAck \/ JudgerDisable
    BY <1>1 DEF TypeOK, JudgerSend, JudgerAck, JudgerDisable, SetStatus
  <1>2. CASE ExecutorStep
    BY <1>2 DEF ExecutorStep, ExecutorReceive, ExecutorFork
  <1>3. ASSUME NEW a \in Admin, AdminStep(a)
        PROVE  ClaimsAlone
    BY <1>3 DEF AdminStep, StartNowBegin, ReverseBegin, StartNowSend, StartNowAck,
       ReverseWrite, AdminFails, SetStatus
  <1>4. CASE UNCHANGED vars
    BY <1>4 DEF vars
  <1> QED
    BY <1>1, <1>2, <1>3, <1>4

\* Nothing is claimed at first.
LEMMA ClaimInit == Init => ClaimInv
  BY DEF Init, ClaimInv, Claimed, JudgerIdle

\* A round takes what lies after latest_exec_time, and nothing moves a claim past it.
LEMMA ClaimStep == TypeInv /\ ClaimInv /\ [Next]_vars => ClaimInv'
  <1> SUFFICES ASSUME TypeInv, ClaimInv, [Next]_vars PROVE ClaimInv'
    OBVIOUS
  <1> USE DEF ClaimInv, Claimed
  <1>0. TypeOK /\ TypeOK'
    BY TypeStep DEF TypeInv
  <1>1. CASE Tick
    <2>1. now' = now + 1 /\ UNCHANGED <<latest, used, tasks, claims, jdg>>
      BY <1>1 DEF Tick
    <2> QED
      BY <1>0, <2>1, OccurrenceFacts DEF TypeOK
  <1>2. CASE JudgerBegin
    <2>1. UNCHANGED <<now, latest, used, tasks, claims>> /\ jdg'.todo = Due
      BY <1>2 DEF JudgerBegin
    <2>2. ASSUME NEW j \in Due
          PROVE  /\ j[1] \in used /\ j[2] <= now
                 /\ \A c \in Occurrence : c[1] = j[1] /\ claims[c] > 0 => c[2] < j[2]
      BY <1>0, DueFacts, OccurrenceFacts DEF TypeOK
    <2>3. \A i, j \in Due : i[1] = j[1] => i = j
      BY <1>0, DueUnique
    <2> QED
      BY <2>1, <2>2, <2>3
  <1>3. CASE JudgerAdvance
    <2>1. PICK j \in jdg.todo :
            \/ /\ SetLatest(j[1])
               /\ claims' = [claims EXCEPT ![j] = @ + 1]
               /\ jdg' = [jdg EXCEPT !.pc = "send", !.todo = @ \ {j}, !.job = j]
            \/ /\ SetLatest(j[1]) \/ UNCHANGED tableVars
               /\ claims' = claims
               /\ jdg' = [jdg EXCEPT !.todo = @ \ {j}]
      BY <1>3 DEF JudgerAdvance
    <2>2. j \in Occurrence /\ j[1] \in Task /\ jdg'.todo = jdg.todo \ {j}
      BY <1>0, <2>1, OccurrenceFacts DEF TypeOK
    <2>3. UNCHANGED <<now, used, tasks>>
      BY <1>3, <2>1 DEF JudgerAdvance, SetLatest
    <2>4. \/ latest' = [latest EXCEPT ![j[1]] = now]
          \/ latest' = latest /\ (claims' # claims => j[1] \notin tasks)
      BY <2>1 DEF SetLatest
    <2>5. claims' = claims \/ claims' = [claims EXCEPT ![j] = claims[j] + 1]
      BY <2>1
    <2>6. \A c \in Occurrence : claims'[c] > 0 => claims[c] > 0 \/ (c = j /\ claims' # claims)
      BY <1>0, <2>5 DEF TypeOK
    <2>7. \A k \in Task : latest'[k] <= now'
      BY <1>0, <2>2, <2>3, <2>4 DEF TypeOK
    <2>8. ASSUME NEW c \in Occurrence, claims'[c] > 0
          PROVE  c[1] \in used' /\ c[2] <= now' /\ (c[1] \in tasks' => c[2] <= latest'[c[1]])
      <3>1. c[1] \in Task /\ c[2] \in Nat /\ now \in Nat
        BY <1>0, OccurrenceFacts DEF TypeOK
      <3>2. CASE claims[c] > 0
        BY <1>0, <2>2, <2>3, <2>4, <3>1, <3>2 DEF TypeOK
      <3>3. CASE c = j /\ claims' # claims
        BY <1>0, <2>2, <2>3, <2>4, <3>1, <3>3 DEF TypeOK
      <3> QED
        BY <2>6, <2>8, <3>2, <3>3
    <2>9. ASSUME NEW i \in jdg'.todo
          PROVE  /\ i[1] \in used' /\ i[2] <= now'
                 /\ \A c \in Occurrence : c[1] = i[1] /\ claims'[c] > 0 => c[2] < i[2]
      BY <2>2, <2>3, <2>6
    <2> QED
      BY <2>2, <2>7, <2>8, <2>9
  <1>4. CASE JudgerEnd \/ Restart
    <2>1. UNCHANGED <<now, latest, used, tasks, claims>> /\ jdg'.todo = {}
      BY <1>4 DEF JudgerEnd, Restart, JudgerIdle
    <2> QED
      BY <2>1
  <1>5. ASSUME NEW k \in Task, AddTask(k)
        PROVE  ClaimInv'
    <2>1. /\ k \notin used /\ used' = used \cup {k} /\ tasks' = tasks \cup {k}
          /\ latest' = [latest EXCEPT ![k] = now] /\ UNCHANGED <<now, claims, jdg>>
      BY <1>5 DEF AddTask
    <2> QED
      BY <1>0, <2>1, OccurrenceFacts DEF TypeOK
  <1>6. ASSUME NEW k \in Task, DeleteTask(k)
        PROVE  ClaimInv'
    BY <1>6 DEF DeleteTask
  <1>7. CASE ClaimsAlone
    BY <1>7 DEF ClaimsAlone
  <1> QED
    BY <1>0, <1>1, <1>2, <1>3, <1>4, <1>5, <1>6, <1>7, OthersLeaveClaims DEF Next, JudgerStep

-----------------------------------------------------------------------------
(* Occurrences on their way *)

\* The actions that move no job.
JobsAlone == UNCHANGED <<claims, starts, jdg, exe, mail, acked>>

\* Which actions those are.
LEMMA OthersLeaveJobs ==
  ASSUME \/ Tick \/ UNCHANGED vars
         \/ \E k \in Task : AddTask(k) \/ DeleteTask(k)
         \/ \E a \in Admin :
              \/ \E k \in used : StartNowBegin(a, k) \/ ReverseBegin(a, k)
              \/ ReverseWrite(a) \/ AdminFails(a)
  PROVE  JobsAlone
  <1> USE DEF JobsAlone
  <1>1. CASE Tick \/ UNCHANGED vars
    BY <1>1 DEF Tick, vars
  <1>2. ASSUME NEW k \in Task, AddTask(k) \/ DeleteTask(k)
        PROVE  JobsAlone
    BY <1>2 DEF AddTask, DeleteTask
  <1>3. ASSUME NEW a \in Admin,
               \/ \E k \in used : StartNowBegin(a, k) \/ ReverseBegin(a, k)
               \/ ReverseWrite(a) \/ AdminFails(a)
        PROVE  JobsAlone
    BY <1>3 DEF StartNowBegin, ReverseBegin, ReverseWrite, AdminFails
  <1> QED
    BY <1>1, <1>2, <1>3

\* No job is on its way at first.
LEMMA FlightInit == Init => FlightInv
  BY DEF Init, FlightInv, Claimed, Started, Holding, JudgerIdle, ExecutorIdle

\* A job is handed on from place to place and never copied.
LEMMA FlightStep == TypeInv /\ ClaimInv /\ FlightInv /\ [Next]_vars => FlightInv'
  <1> SUFFICES ASSUME TypeInv, ClaimInv, FlightInv, [Next]_vars PROVE FlightInv'
    OBVIOUS
  <1> USE DEF FlightInv, Claimed, Started, Holding
  <1>0. TypeOK /\ LocalsOK
    BY DEF TypeInv
  <1>1. CASE JudgerBegin \/ JudgerEnd
    <2>1. jdg.pc \in {"idle", "scan"} /\ jdg'.pc \in {"idle", "scan"}
      BY <1>1 DEF JudgerBegin, JudgerEnd, JudgerIdle
    <2>2. UNCHANGED <<claims, starts, exe, mail, acked>>
      BY <1>1 DEF JudgerBegin, JudgerEnd
    <2> QED
      BY <2>1, <2>2
  <1>2. CASE JudgerAdvance
    <2>1. PICK j \in jdg.todo :
            \/ /\ claims' = [claims EXCEPT ![j] = @ + 1]
               /\ jdg' = [jdg EXCEPT !.pc = "send", !.todo = @ \ {j}, !.job = j]
            \/ /\ claims' = claims
               /\ jdg' = [jdg EXCEPT !.todo = @ \ {j}]
      BY <1>2 DEF JudgerAdvance
    <2>2. jdg.pc = "scan" /\ UNCHANGED <<starts, exe, mail, acked>>
      BY <1>2 DEF JudgerAdvance
    <2>3. j \in Occurrence /\ j[2] \in Nat \ {0} /\ ~Claimed(j)
      BY <1>0, OccurrenceFacts DEF TypeOK, ClaimInv
    <2>4. CASE /\ claims' = [claims EXCEPT ![j] = @ + 1]
               /\ jdg' = [jdg EXCEPT !.pc = "send", !.todo = @ \ {j}, !.job = j]
      <3>1. jdg'.pc = "send" /\ jdg'.job = j
        BY <1>0, <2>4 DEF TypeOK
      <3>2. \A c \in Occurrence : Claimed(c) => Claimed(c)'
        BY <1>0, <2>3, <2>4 DEF TypeOK
      <3>3. Claimed(j)'
        BY <1>0, <2>3, <2>4 DEF TypeOK
      <3>4. ~Started(j)
        BY <2>3
      <3>5. exe.pc = "fork" => exe.job # j
        BY <2>3
      <3>6. exe.pc = "fork" /\ exe.job[2] # ByHand => Claimed(exe.job)'
        BY <1>0, <2>2, <3>2 DEF LocalsOK
      <3> QED
        BY <2>2, <3>1, <3>2, <3>3, <3>4, <3>5, <3>6
    <2>5. CASE claims' = claims /\ jdg' = [jdg EXCEPT !.todo = @ \ {j}]
      BY <1>0, <2>2, <2>5 DEF TypeOK
    <2> QED
      BY <2>1, <2>4, <2>5
  <1>3. CASE JudgerSend
    BY <1>0, <1>3 DEF JudgerSend, TypeOK
  <1>4. CASE JudgerAck
    BY <1>0, <1>4 DEF JudgerAck, AfterAck, TypeOK
  <1>5. CASE JudgerDisable
    BY <1>0, <1>5 DEF JudgerDisable, TypeOK
  <1>6. CASE ExecutorReceive
    <2>1. PICK m \in mail : /\ mail' = mail \ {m} /\ acked' = acked \cup {m.from}
                            /\ exe' = [pc |-> "fork", job |-> m.job]
      BY <1>6 DEF ExecutorReceive, Reply
    <2>2. exe.pc = "listen" /\ UNCHANGED <<claims, starts, jdg>>
      BY <1>6 DEF ExecutorReceive
    <2>3. CASE m.from # Judger /\ m.job[2] = ByHand
      <3>1. \A n \in mail : n.from = Judger => n.job # m.job
        BY <1>0, <2>3, OccurrenceFacts DEF LocalsOK
      <3>2. jdg.pc = "send" => jdg.job # m.job
        BY <1>0, <2>3, OccurrenceFacts DEF LocalsOK
      <3>3. Judger \in acked' <=> Judger \in acked
        BY <2>1, <2>3
      <3>4. exe'.job = m.job
        BY <2>1
      <3> QED
        BY <2>1, <2>2, <2>3, <3>1, <3>2, <3>3, <3>4
    <2>4. CASE m.from = Judger
      <3>1. \A n \in mail' : n.from # Judger /\ n.job[2] = ByHand
        BY <1>0, <2>1, <2>4 DEF TypeOK
      <3>2. jdg.pc = "wait" /\ m.job = jdg.job /\ ~Started(m.job)
        BY <2>4
      <3> QED
        BY <2>1, <2>2, <3>1, <3>2
    <2> QED
      BY <2>3, <2>4
  <1>7. CASE ExecutorFork
    <2>1. exe.pc = "fork" /\ exe'.pc # "fork" /\ UNCHANGED <<claims, jdg, mail, acked>>
      BY <1>0, <1>7 DEF ExecutorFork, ExecutorIdle
    <2>2. \/ starts' = starts
          \/ exe.job[2] # ByHand /\ starts' = [starts EXCEPT ![exe.job] = @ + 1]
      BY <1>7 DEF ExecutorFork
    <2>3. \A c \in Occurrence : Started(c)' => Started(c) \/ (c = exe.job /\ Claimed(exe.job))
      BY <1>0, <2>1, <2>2 DEF TypeOK, LocalsOK
    <2> QED
      BY <1>0, <2>1, <2>3 DEF LocalsOK
  <1>8. ASSUME NEW a \in Admin, StartNowSend(a)
        PROVE  FlightInv'
    BY <1>8 DEF StartNowSend
  <1>9. ASSUME NEW a \in Admin, StartNowAck(a)
        PROVE  FlightInv'
    BY <1>9 DEF StartNowAck
  <1>10. CASE Restart
    BY <1>10 DEF Restart, JudgerIdle, ExecutorIdle
  <1>11. CASE JobsAlone
    BY <1>11 DEF JobsAlone
  <1> QED
    BY <1>1, <1>2, <1>3, <1>4, <1>5, <1>6, <1>7, <1>8, <1>9, <1>10, <1>11,
       OthersLeaveJobs DEF Next, JudgerStep, ExecutorStep, AdminStep

\* The specification implements Occurrences: a step that claims or forks is a step
\* of Occurrences, every other one leaves its state alone.
LEMMA OccurrencesStep ==
  TypeInv /\ ClaimInv /\ FlightInv /\ [Next]_vars => [Occurrences!Next]_Occurrences!vars
  <1> SUFFICES ASSUME TypeInv, ClaimInv, FlightInv, [Next]_vars
               PROVE  [Occurrences!Next]_Occurrences!vars
    OBVIOUS
  <1> USE DEF Claimed, Started
  <1>0. TypeOK /\ LocalsOK
    BY DEF TypeInv
  <1>1. CASE Tick
    BY <1>1 DEF Tick, Occurrences!Next, Occurrences!Tick
  <1>2. CASE JudgerAdvance
    <2>1. PICK j \in jdg.todo : claims' = claims \/ claims' = [claims EXCEPT ![j] = @ + 1]
      BY <1>2 DEF JudgerAdvance
    <2>2. UNCHANGED <<now, starts>>
      BY <1>2 DEF JudgerAdvance
    <2>3. /\ j \in Occurrence /\ j[2] <= now
          /\ \A c \in Occurrence : c[1] = j[1] /\ claims[c] > 0 => c[2] < j[2]
      BY <1>0 DEF TypeOK, ClaimInv
    <2>4. CASE claims' = [claims EXCEPT ![j] = @ + 1]
      <3>1. Occurrences!Claim(j)
        BY <2>2, <2>3, <2>4 DEF Occurrences!Claim
      <3> QED
        BY <2>3, <3>1 DEF Occurrences!Next
    <2>5. CASE claims' = claims
      BY <2>2, <2>5 DEF Occurrences!vars
    <2> QED
      BY <2>1, <2>4, <2>5
  <1>3. CASE ExecutorFork
    <2>1. exe.pc = "fork" /\ UNCHANGED <<now, claims>>
      BY <1>3 DEF ExecutorFork
    <2>2. CASE starts' = starts
      BY <2>1, <2>2 DEF Occurrences!vars
    <2>3. CASE exe.job[2] # ByHand /\ starts' = [starts EXCEPT ![exe.job] = @ + 1]
      <3>1. PICK o \in Occurrence : o = exe.job
        BY <1>0, <2>1, <2>3 DEF LocalsOK
      <3>2. starts[o] < claims[o]
        BY <1>0, <2>1, <2>3, <3>1 DEF FlightInv, TypeOK
      <3>3. Occurrences!Start(o)
        BY <2>1, <2>3, <3>1, <3>2 DEF Occurrences!Start
      <3> QED
        BY <3>3 DEF Occurrences!Next
    <2> QED
      BY <1>3, <2>2, <2>3 DEF ExecutorFork
  <1>4. ASSUME UNCHANGED <<now, claims, starts>>
        PROVE  [Occurrences!Next]_Occurrences!vars
    BY <1>4 DEF Occurrences!vars
  <1>5. CASE JudgerBegin \/ JudgerSend \/ JudgerAck \/ JudgerDisable \/ JudgerEnd
    BY <1>4, <1>5 DEF JudgerBegin, JudgerSend, JudgerAck, JudgerDisable, JudgerEnd
  <1>6. CASE ExecutorReceive \/ Restart \/ UNCHANGED vars
    BY <1>4, <1>6 DEF ExecutorReceive, Restart, vars
  <1>7. ASSUME NEW k \in Task, AddTask(k) \/ DeleteTask(k)
        PROVE  [Occurrences!Next]_Occurrences!vars
    BY <1>4, <1>7 DEF AddTask, DeleteTask
  <1>8. ASSUME NEW a \in Admin, AdminStep(a)
        PROVE  [Occurrences!Next]_Occurrences!vars
    BY <1>4, <1>8 DEF AdminStep, StartNowBegin, ReverseBegin, StartNowSend, StartNowAck,
       ReverseWrite, AdminFails
  <1> QED
    BY <1>1, <1>2, <1>3, <1>5, <1>6, <1>7, <1>8 DEF Next, JudgerStep, ExecutorStep

-----------------------------------------------------------------------------
(* Run-once tasks *)

\* What is live was claimed, so its task was inserted.
LEMMA LiveIsClaimed ==
  ASSUME TypeInv, ClaimInv, FlightInv, NEW c \in Occurrence, Live(c)
  PROVE  Claimed(c) /\ c[1] \in used
  <1>1. Claimed(c)
    BY OccurrenceFacts DEF Live, FlightInv
  <1> QED
    BY <1>1 DEF ClaimInv

\* Nothing is live at first.
LEMMA OnceInit == Init => OnceInv
  BY DEF Init, OnceInv, OnceFor, Live, Started, Holding, JudgerIdle, ExecutorIdle

\* SetStatus(k, FALSE) disables k or finds no row; it leaves other tasks alone.
LEMMA SetStatusFrame ==
  ASSUME TypeOK, NEW n \in Task, NEW v \in BOOLEAN, SetStatus(n, v), NEW k \in Task
  PROVE  /\ tasks' = tasks
         /\ k # n => enabled'[k] = enabled[k]
         /\ k = n /\ k \in tasks => enabled'[k] = v
  BY DEF SetStatus, TypeOK

\* The judger lets go of a live occurrence only by disabling its task.
LEMMA OnceStepJudger ==
  ASSUME TypeInv, ClaimInv, FlightInv, JudgerStep,
         NEW k \in Once \ undisabled', OnceFor(k)
  PROVE  OnceFor(k)'
  <1> USE DEF Live, Started, Holding
  <1>0. TypeOK /\ LocalsOK /\ k \in Task
    BY DEF TypeInv
  <1>1. CASE JudgerBegin
    <2>1. jdg.pc = "idle" /\ jdg' = [pc |-> "scan", todo |-> Due, job |-> NoJob]
      BY <1>1 DEF JudgerBegin
    <2>2. UNCHANGED <<tasks, enabled, starts, exe>>
      BY <1>1 DEF JudgerBegin
    <2>3. \A c \in Occurrence : Live(c)' <=> Live(c)
      BY <2>1, <2>2
    <2>4. ASSUME NEW c \in Occurrence, c[1] = k, Live(c), NEW j \in Due, j[1] = k
          PROVE  FALSE
      BY <1>0, <2>1, <2>4, DueFacts DEF OnceFor
    <2> QED
      BY <2>1, <2>2, <2>3, <2>4 DEF OnceFor
  <1>2. CASE JudgerEnd
    <2>1. jdg.pc = "scan" /\ jdg'.pc = "idle" /\ jdg'.todo = {}
      BY <1>2 DEF JudgerEnd, JudgerIdle
    <2>2. UNCHANGED <<tasks, enabled, starts, exe>>
      BY <1>2 DEF JudgerEnd
    <2> QED
      BY <2>1, <2>2 DEF OnceFor
  <1>3. CASE JudgerAdvance
    <2>1. PICK j \in jdg.todo :
            /\ SetLatest(j[1]) \/ UNCHANGED tableVars
            /\ \/ jdg' = [jdg EXCEPT !.pc = "send", !.todo = @ \ {j}, !.job = j]
               \/ jdg' = [jdg EXCEPT !.todo = @ \ {j}]
      BY <1>3 DEF JudgerAdvance
    <2>2. jdg.pc = "scan" /\ UNCHANGED <<tasks, enabled, starts, exe>>
      BY <1>3, <2>1 DEF JudgerAdvance, SetLatest
    <2>3. jdg'.todo = jdg.todo \ {j} /\ j \in Occurrence
      BY <1>0, <2>1 DEF TypeOK
    <2>4. CASE jdg' = [jdg EXCEPT !.todo = @ \ {j}]
      <3>1. jdg'.pc = "scan"
        BY <1>0, <2>2, <2>4 DEF TypeOK
      <3> QED
        BY <2>2, <2>3, <3>1 DEF OnceFor
    <2>5. CASE jdg' = [jdg EXCEPT !.pc = "send", !.todo = @ \ {j}, !.job = j]
      <3>1. jdg'.pc = "send" /\ jdg'.job = j
        BY <1>0, <2>5 DEF TypeOK
      <3>2. \A c \in Occurrence : Live(c)' => Live(c) \/ c = j
        BY <2>2, <3>1
      <3>3. CASE j[1] = k
        <4>1. \A c \in Occurrence : c[1] = k => ~Live(c)
          BY <3>3 DEF OnceFor
        <4>2. \A i \in jdg'.todo : i[1] # k
          BY <2>3, <3>3 DEF ClaimInv
        <4> QED
          BY <3>1, <3>2, <3>3, <4>1, <4>2 DEF OnceFor
      <3>4. CASE j[1] # k
        BY <2>2, <2>3, <3>2, <3>4 DEF OnceFor
      <3> QED
        BY <3>3, <3>4
    <2> QED
      BY <2>1, <2>4, <2>5
  <1>4. CASE JudgerSend
    <2>1. jdg.pc = "send" /\ UNCHANGED <<tasks, enabled, starts, exe>>
      BY <1>4 DEF JudgerSend
    <2>2. /\ jdg'.pc \in {"wait", "scan"} /\ jdg'.todo = jdg.todo /\ jdg'.job = jdg.job
      BY <1>0, <1>4 DEF JudgerSend, TypeOK
    <2>3. CASE jdg'.pc = "wait"
      BY <2>1, <2>2, <2>3 DEF OnceFor
    <2>4. CASE jdg'.pc = "scan"
      <3>1. ASSUME jdg.job[1] = k, NEW c \in Occurrence, c[1] = k, Live(c)'
            PROVE  FALSE
        <4>1. c # jdg.job /\ Live(c)
          BY <2>1, <2>2, <2>4, <3>1 DEF FlightInv
        <4>2. jdg.job \in Occurrence /\ Live(jdg.job)
          BY <1>0, <2>1 DEF LocalsOK
        <4> QED
          BY <3>1, <4>1, <4>2 DEF OnceFor
      <3>2. \A c \in Occurrence : Live(c)' => Live(c)
        BY <2>1, <2>4
      <3> QED
        BY <2>1, <2>2, <3>1, <3>2 DEF OnceFor
    <2> QED
      BY <2>2, <2>3, <2>4
  <1>5. CASE JudgerAck
    <2>1. jdg.pc = "wait" /\ UNCHANGED <<tasks, enabled, starts, exe>>
      BY <1>5 DEF JudgerAck
    <2>2. /\ jdg'.pc = AfterAck(jdg.job[1])
          /\ jdg'.todo = jdg.todo /\ jdg'.job = jdg.job
      BY <1>0, <1>5 DEF JudgerAck, TypeOK
    <2>3. jdg.job[1] = k => jdg'.pc = "disable"
      BY <2>2 DEF AfterAck
    <2>4. \A c \in Occurrence : Live(c)' => Live(c)
      BY <2>1, <2>2
    <2> QED
      BY <2>1, <2>2, <2>3, <2>4 DEF OnceFor
  <1>6. CASE JudgerDisable
    <2>1. jdg.pc = "disable" /\ UNCHANGED <<starts, exe>>
      BY <1>6 DEF JudgerDisable
    <2>2. jdg'.pc = "scan" /\ jdg'.todo = jdg.todo
      BY <1>0, <1>6 DEF JudgerDisable, TypeOK
    <2>3. PICK n \in Task : n = jdg.job[1]
      BY <1>0, <2>1, OccurrenceFacts DEF LocalsOK
    <2>4. SetStatus(n, FALSE) \/ (UNCHANGED tableVars /\ k # n)
      BY <1>6, <2>3 DEF JudgerDisable
    <2>5. /\ tasks' = tasks
          /\ k # n => enabled'[k] = enabled[k]
          /\ k = n => k \notin tasks \/ ~enabled'[k]
      BY <1>0, <2>4, SetStatusFrame
    <2>6. \A c \in Occurrence : Live(c)' => Live(c)
      BY <2>1, <2>2
    <2> QED
      BY <2>1, <2>2, <2>3, <2>5, <2>6 DEF OnceFor
  <1> QED
    BY <1>1, <1>2, <1>3, <1>4, <1>5, <1>6 DEF JudgerStep

\* The executor makes nothing live that was not.
LEMMA OnceStepExecutor ==
  ASSUME TypeInv, FlightInv, ExecutorStep, NEW k \in Once, OnceFor(k)
  PROVE  OnceFor(k)'
  <1> USE DEF Live, Started, Holding
  <1>0. TypeOK /\ LocalsOK /\ k \in Task
    BY DEF TypeInv
  <1>1. UNCHANGED <<tasks, enabled, jdg>>
    BY DEF ExecutorStep, ExecutorReceive, ExecutorFork
  <1>2. CASE ExecutorReceive
    <2>1. PICK m \in mail : exe' = [pc |-> "fork", job |-> m.job]
      BY <1>2 DEF ExecutorReceive
    <2>2. exe.pc = "listen" /\ starts' = starts
      BY <1>2 DEF ExecutorReceive
    <2>3. \A c \in Occurrence : Live(c)' => Live(c)
      BY <1>1, <2>1, <2>2, OccurrenceFacts DEF FlightInv
    <2> QED
      BY <1>0, <1>1, <2>3 DEF OnceFor
  <1>3. CASE ExecutorFork
    <2>1. exe.pc = "fork" /\ exe'.pc # "fork"
      BY <1>0, <1>3 DEF ExecutorFork, ExecutorIdle
    <2>2. \A c \in Occurrence : c # exe.job => starts'[c] = starts[c]
      BY <1>0, <1>3 DEF ExecutorFork, TypeOK
    <2>3. \A c \in Occurrence : Live(c)' => Live(c)
      BY <1>1, <2>1, <2>2
    <2> QED
      BY <1>0, <1>1, <2>3 DEF OnceFor
  <1> QED
    BY <1>2, <1>3 DEF ExecutorStep

\* Nobody else enables the task without being counted in reenabled.
LEMMA OnceStep == Inv /\ [Next]_vars => OnceInv'
  <1> SUFFICES ASSUME Inv, [Next]_vars,
                      NEW k \in Once \ (reenabled' \cup undisabled')
               PROVE  OnceFor(k)'
    BY DEF OnceInv
  <1>0. TypeInv /\ ClaimInv /\ FlightInv /\ TypeOK /\ LocalsOK /\ k \in Task
    BY DEF Inv, TypeInv
  <1>1. reenabled \subseteq reenabled' /\ undisabled \subseteq undisabled'
    <2>1. CASE Tick \/ JudgerStep \/ ExecutorStep \/ Restart \/ UNCHANGED vars
      BY <2>1 DEF Tick, JudgerStep, JudgerBegin, JudgerAdvance, JudgerSend, JudgerAck,
         JudgerDisable, JudgerEnd, ExecutorStep, ExecutorReceive, ExecutorFork, Restart, vars
    <2>2. ASSUME NEW n \in Task, AddTask(n) \/ DeleteTask(n)
          PROVE  reenabled \subseteq reenabled' /\ undisabled \subseteq undisabled'
      BY <2>2 DEF AddTask, DeleteTask
    <2>3. ASSUME NEW a \in Admin, AdminStep(a)
          PROVE  reenabled \subseteq reenabled' /\ undisabled \subseteq undisabled'
      BY <2>3 DEF AdminStep, StartNowBegin, ReverseBegin, StartNowSend, StartNowAck,
         ReverseWrite, AdminFails
    <2> QED
      BY <2>1, <2>2, <2>3 DEF Next
  <1>2. OnceFor(k)
    BY <1>1 DEF Inv, OnceInv
  <1>3. CASE JudgerStep
    BY <1>0, <1>2, <1>3, OnceStepJudger
  <1>4. CASE ExecutorStep
    BY <1>0, <1>2, <1>4, OnceStepExecutor
  <1> USE DEF Live, Started, Holding
  <1>5. ASSUME UNCHANGED <<jdg, exe, starts>>,
               k \in tasks' /\ enabled'[k] => k \in tasks /\ enabled[k]
        PROVE  OnceFor(k)'
    BY <1>0, <1>2, <1>5 DEF OnceFor
  <1>6. CASE Tick \/ UNCHANGED vars
    BY <1>5, <1>6 DEF Tick, vars
  <1>7. ASSUME NEW n \in Task, AddTask(n)
        PROVE  OnceFor(k)'
    <2>1. /\ n \notin used /\ UNCHANGED <<jdg, exe, starts>>
          /\ tasks' = tasks \cup {n} /\ enabled' = [enabled EXCEPT ![n] = TRUE]
      BY <1>7 DEF AddTask
    <2>2. CASE n = k
      <3>1. \A c \in Occurrence : c[1] = k => ~Live(c)
        BY <1>0, <2>1, <2>2, LiveIsClaimed
      <3> QED
        BY <2>1, <3>1 DEF OnceFor
    <2>3. CASE n # k
      BY <1>0, <1>5, <2>1, <2>3 DEF TypeOK
    <2> QED
      BY <2>2, <2>3
  <1>8. ASSUME NEW n \in Task, DeleteTask(n)
        PROVE  OnceFor(k)'
    BY <1>5, <1>8 DEF DeleteTask
  <1>9. ASSUME NEW a \in Admin, AdminStep(a)
        PROVE  OnceFor(k)'
    <2>1. CASE ReverseWrite(a)
      <3>1. adm[a].task \in Task /\ adm[a].status \in BOOLEAN
        BY <1>0, <2>1 DEF ReverseWrite, LocalsOK, TypeOK
      <3>2. PICK n \in Task, v \in BOOLEAN : SetStatus(n, v) /\ (v => n # k)
        BY <2>1, <3>1 DEF ReverseWrite
      <3>3. UNCHANGED <<jdg, exe, starts>>
        BY <2>1 DEF ReverseWrite
      <3> QED
        BY <1>0, <1>5, <3>2, <3>3, SetStatusFrame
    <2>2. CASE ~ReverseWrite(a)
      BY <1>5, <1>9, <2>2 DEF AdminStep, StartNowBegin, ReverseBegin, StartNowSend,
         StartNowAck, AdminFails
    <2> QED
      BY <2>1, <2>2
  <1>10. CASE Restart
    <2>1. /\ jdg'.pc = "idle" /\ jdg'.todo = {} /\ exe'.pc = "listen"
          /\ UNCHANGED <<tasks, enabled, starts>>
      BY <1>10 DEF Restart, JudgerIdle, ExecutorIdle
    <2>2. jdg.pc \in {"wait", "disable"} => jdg.job[1] # k
      BY <1>10 DEF Restart
    <2>3. ASSUME NEW c \in Occurrence, c[1] = k, Started(c), jdg.pc = "send", jdg.job[1] = k
          PROVE  FALSE
      <3>1. jdg.job \in Occurrence /\ Live(jdg.job) /\ Live(c) /\ c # jdg.job
        BY <1>0, <2>3 DEF LocalsOK, FlightInv
      <3> QED
        BY <1>2, <2>3, <3>1 DEF OnceFor
    <2>4. \A c \in Occurrence : Live(c)' => Started(c)
      BY <2>1
    <2> QED
      BY <1>2, <2>1, <2>2, <2>3, <2>4 DEF OnceFor
  <1> QED
    BY <1>3, <1>4, <1>6, <1>7, <1>8, <1>9, <1>10 DEF Next

-----------------------------------------------------------------------------
(* Theorems *)

\* The inductive invariant holds in every instance.
THEOREM InvCorrect == Spec => []Inv
  <1>1. Init => Inv
    BY TypeInit, ClaimInit, FlightInit, OnceInit DEF Inv
  <1>2. Inv /\ [Next]_vars => Inv'
    BY TypeStep, ClaimStep, FlightStep, OnceStep DEF Inv
  <1> QED
    BY <1>1, <1>2, PTL DEF Spec

\* The table, the actors' locals and the history keep their types, for any tasks,
\* schedules and administrators.
THEOREM ArchiveTypeSafe == Spec => []TypeOK
  <1>1. Inv => TypeOK
    BY DEF Inv, TypeInv
  <1> QED
    BY <1>1, InvCorrect, PTL

\* No occurrence is claimed out of order or run twice, whatever fails in between,
\* for any tasks, schedules and administrators.
THEOREM OccurrencesImplemented == Spec => OccurrencesRunAtMostOnce
  <1>1. Init => Occurrences!Init
    BY DEF Init, Occurrences!Init
  <1>2. Inv /\ [Next]_vars => [Occurrences!Next]_Occurrences!vars
    BY OccurrencesStep DEF Inv
  <1> QED
    BY <1>1, <1>2, InvCorrect, PTL DEF Spec, OccurrencesRunAtMostOnce, Occurrences!Spec

\* The schedule runs a run-once task once, for any tasks, schedules and administrators.
THEOREM OnceSafe == Spec => []ScheduleRunsOnce
  <1>1. Inv => ScheduleRunsOnce
    BY DEF Inv, OnceInv, OnceFor, Live, Started, ScheduleRunsOnce
  <1> QED
    BY <1>1, InvCorrect, PTL

-----------------------------------------------------------------------------
(* Nobody waits in vain *)

Waits(s) ==
  \/ s = Judger /\ jdg.pc = "wait"
  \/ s \in Admin /\ adm[s].pc = "wait"

Asked(s) == \E m \in mail : m.from = s

\* Who waits has one message on its way or one answer, and nobody else has either.
TalkInv ==
  /\ \A s \in Sender : Waits(s) <=> Asked(s) \/ s \in acked
  /\ \A s \in Sender : ~(Asked(s) /\ s \in acked)
  /\ \A m, n \in mail : m.from = n.from => m = n

\* Whoever waits has its answer, or the executor is dead, or it has something to do:
\* judger, administrators and executor never wait for each other
\* (cron_judger.py:58, archive.py:373, cron_executor.py:309).
NobodyWaitsInVain ==
  \A s \in Sender : Waits(s) =>
    \/ s \in acked
    \/ exe.pc = "fork" \/ exe.pc = "down"
    \/ exe.pc = "listen" /\ \E m \in mail : m.from = s

\* The actions that send, receive or acknowledge nothing, and start or end no wait.
SilentStep ==
  /\ UNCHANGED <<mail, acked>>
  /\ \A s \in Sender : Waits(s)' <=> Waits(s)

\* Which actions those are.
LEMMA OthersAreSilent ==
  ASSUME TypeOK,
         \/ Tick \/ UNCHANGED vars
         \/ JudgerBegin \/ JudgerAdvance \/ JudgerDisable \/ JudgerEnd \/ ExecutorFork
         \/ \E k \in Task : AddTask(k) \/ DeleteTask(k)
         \/ \E a \in Admin :
              \/ \E k \in used : StartNowBegin(a, k) \/ ReverseBegin(a, k)
              \/ ReverseWrite(a) \/ AdminFails(a)
  PROVE  SilentStep
  <1> USE DEF SilentStep, Waits
  <1>1. CASE Tick \/ UNCHANGED vars
    BY <1>1 DEF Tick, vars
  <1>2. CASE JudgerBegin \/ JudgerDisable \/ JudgerEnd \/ ExecutorFork
    <2>1. UNCHANGED <<adm, mail, acked>>
      BY <1>2 DEF JudgerBegin, JudgerDisable, JudgerEnd, ExecutorFork
    <2>2. jdg.pc = "wait" <=> jdg'.pc = "wait"
      <3>1. CASE JudgerBegin \/ JudgerEnd
        BY <3>1 DEF JudgerBegin, JudgerEnd, JudgerIdle
      <3>2. CASE JudgerDisable
        BY <3>2 DEF TypeOK, JudgerDisable
      <3>3. CASE ExecutorFork
        BY <3>3 DEF ExecutorFork
      <3> QED
        BY <1>2, <3>1, <3>2, <3>3
    <2> QED
      BY <2>1, <2>2
  <1>3. CASE JudgerAdvance
    BY <1>3 DEF TypeOK, JudgerAdvance
  <1>4. ASSUME NEW k \in Task, AddTask(k) \/ DeleteTask(k)
        PROVE  SilentStep
    BY <1>4 DEF AddTask, DeleteTask
  <1>5. ASSUME NEW a \in Admin,
               \/ \E k \in used : StartNowBegin(a, k) \/ ReverseBegin(a, k)
               \/ ReverseWrite(a) \/ AdminFails(a)
        PROVE  SilentStep
    <2>1. UNCHANGED <<jdg, mail, acked>> /\ adm[a].pc # "wait"
      BY <1>5 DEF StartNowBegin, ReverseBegin, ReverseWrite, AdminFails
    <2>2. \E q : adm' = [adm EXCEPT ![a] = q] /\ q.pc # "wait"
      BY <1>5 DEF StartNowBegin, ReverseBegin, ReverseWrite, AdminFails, AdminGoto, AdminIdle
    <2> QED
      BY <2>1, <2>2 DEF TypeOK
  <1> QED
    BY <1>1, <1>2, <1>3, <1>4, <1>5

\* Sending begins a wait, and only an answer or a restart ends it.
LEMMA TalkStep == TypeOK /\ TalkInv /\ [Next]_vars => TalkInv'
  <1> SUFFICES ASSUME TypeOK, TalkInv, [Next]_vars PROVE TalkInv'
    OBVIOUS
  <1> USE DEF TalkInv
  <1>1. \A m \in mail : m.from \in Sender
    BY DEF TypeOK
  <1>2. CASE SilentStep
    BY <1>2 DEF SilentStep, Asked
  <1>3. ASSUME NEW s \in Sender, NEW j, mail' = mail \cup {[from |-> s, job |-> j]},
               acked' = acked, ~Waits(s), Waits(s)',
               \A r \in Sender \ {s} : Waits(r)' <=> Waits(r)
        PROVE  TalkInv'
    <2>1. s \notin acked /\ \A m \in mail : m.from # s
      BY <1>3 DEF Asked
    <2>2. \A r \in Sender : Asked(r)' <=> Asked(r) \/ r = s
      <3>1. [from |-> s, job |-> j].from = s
        OBVIOUS
      <3> QED
        BY <1>3, <3>1 DEF Asked
    <2>3. \A m, n \in mail' : m.from = n.from => m = n
      BY <1>3, <2>1
    <2> QED
      BY <1>3, <2>1, <2>2, <2>3
  <1>4. ASSUME NEW s \in Sender, s \in acked, acked' = acked \ {s}, mail' = mail, ~Waits(s)',
               \A r \in Sender \ {s} : Waits(r)' <=> Waits(r)
        PROVE  TalkInv'
    <2>1. ~Asked(s) /\ \A r \in Sender : Asked(r)' <=> Asked(r)
      BY <1>4 DEF Asked
    <2> QED
      BY <1>4, <2>1
  <1>5. CASE JudgerSend
    <2>1. \A r \in Sender \ {Judger} : Waits(r)' <=> Waits(r)
      BY <1>5 DEF JudgerSend, Waits
    <2>2. CASE mail' = mail
      <3>1. ASSUME mail' = mail \cup {[from |-> Judger, job |-> jdg.job]} PROVE FALSE
        <4>1. [from |-> Judger, job |-> jdg.job] \in mail
          BY <2>2, <3>1
        <4>2. Asked(Judger) /\ ~Waits(Judger)
          BY <1>5, <4>1, ArchiveAssumption DEF Asked, JudgerSend, Waits
        <4> QED
          BY <4>2 DEF Sender
      <3>2. jdg.pc = "send" /\ jdg' = [jdg EXCEPT !.pc = "scan"] /\ UNCHANGED <<adm, acked>>
        BY <1>5, <3>1 DEF JudgerSend
      <3>3. Waits(Judger)' <=> Waits(Judger)
        BY <3>2, ArchiveAssumption DEF Waits, TypeOK
      <3> QED
        BY <1>2, <2>1, <2>2, <3>2, <3>3 DEF SilentStep
    <2>3. CASE mail' # mail
      <3>1. /\ mail' = mail \cup {[from |-> Judger, job |-> jdg.job]} /\ acked' = acked
            /\ ~Waits(Judger) /\ Waits(Judger)'
        BY <1>5, <2>3 DEF JudgerSend, Waits, TypeOK
      <3> QED
        BY <1>3, <2>1, <3>1 DEF Sender
    <2> QED
      BY <2>2, <2>3
  <1>6. CASE JudgerAck
    <2>1. /\ Judger \in acked /\ acked' = acked \ {Judger} /\ mail' = mail
          /\ ~Waits(Judger)' /\ \A r \in Sender \ {Judger} : Waits(r)' <=> Waits(r)
      BY <1>6 DEF JudgerAck, AfterAck, Waits, TypeOK
    <2> QED
      BY <1>4, <2>1 DEF Sender
  <1>7. CASE ExecutorReceive
    <2>1. PICK m \in mail : mail' = mail \ {m} /\ acked' = acked \cup {m.from}
      BY <1>7 DEF ExecutorReceive, Reply
    <2>2. \A r \in Sender : Waits(r)' <=> Waits(r)
      BY <1>7 DEF ExecutorReceive, Waits
    <2>3. \A r \in Sender : Asked(r)' <=> Asked(r) /\ r # m.from
      BY <2>1 DEF Asked
    <2>4. m.from \in Sender /\ Asked(m.from)
      BY <1>1 DEF Asked
    <2>5. \A n, q \in mail' : n.from = q.from => n = q
      BY <2>1
    <2>6. \A r \in Sender : r \in acked' <=> r \in acked \/ r = m.from
      BY <2>1
    <2> QED
      BY <2>2, <2>3, <2>4, <2>5, <2>6
  <1>8. ASSUME NEW a \in Admin, StartNowSend(a)
        PROVE  TalkInv'
    <2>1. /\ mail' = mail \cup {[from |-> a, job |-> <<adm[a].task, ByHand>>]}
          /\ acked' = acked /\ ~Waits(a) /\ Waits(a)'
          /\ \A r \in Sender \ {a} : Waits(r)' <=> Waits(r)
      BY <1>8, ArchiveAssumption DEF StartNowSend, Waits, TypeOK, Sender
    <2> QED
      BY <1>3, <2>1 DEF Sender
  <1>9. ASSUME NEW a \in Admin, StartNowAck(a)
        PROVE  TalkInv'
    <2>1. /\ a \in acked /\ acked' = acked \ {a} /\ mail' = mail /\ ~Waits(a)'
          /\ \A r \in Sender \ {a} : Waits(r)' <=> Waits(r)
      BY <1>9, ArchiveAssumption DEF StartNowAck, Waits, TypeOK, Sender, AdminIdle
    <2> QED
      BY <1>4, <2>1 DEF Sender
  <1>10. CASE Restart
    BY <1>10 DEF Restart, Waits, Asked, JudgerIdle, AdminIdle
  <1> QED
    BY <1>2, <1>5, <1>6, <1>7, <1>8, <1>9, <1>10, OthersAreSilent
       DEF Next, JudgerStep, ExecutorStep, AdminStep

\* In every instance a wait has its message or its answer: no message and no answer is
\* lost while its sender waits, restarts and failed calls included.
THEOREM WaitsAreAnswerable == Spec => []NobodyWaitsInVain
  <1>1. Init => TalkInv
    BY DEF Init, TalkInv, Waits, Asked, JudgerIdle, AdminIdle
  <1>2. Inv => TypeOK
    BY DEF Inv, TypeInv
  <1>3. TypeOK /\ TalkInv => NobodyWaitsInVain
    BY DEF TypeOK, TalkInv, NobodyWaitsInVain, Asked
  <1> QED
    BY <1>1, <1>2, <1>3, TalkStep, InvCorrect, PTL DEF Spec

-----------------------------------------------------------------------------
(* Rounds deal with what is due *)

DueFor(k) == \E j \in Due : j[1] = k
Listed(k) == \E j \in jdg.todo : j[1] = k

RoundOver == jdg.pc = "idle"
NoneLeft  == RoundOver => jdg.todo = {}

\* No statement fails, nothing dies and nothing is restarted.
NoFault == faults' = faults

\* Rounds end, and begin again unless nothing is due, as long as the executor lives.
NothingDue   == Due = {}
Down         == exe.pc = "down"
RoundsGoOn   == []<>(RoundOver \/ Down) /\ []<>(~RoundOver \/ NothingDue \/ Down)

\* Only the judger and a restart touch its locals.
LEMMA JudgerAlone ==
  ASSUME [Next]_vars, ~JudgerStep, ~Restart
  PROVE  jdg' = jdg
  BY DEF Next, Tick, ExecutorStep, ExecutorReceive, ExecutorFork, AddTask, DeleteTask, AdminStep,
     StartNowBegin, ReverseBegin, StartNowSend, StartNowAck, ReverseWrite, AdminFails, vars

\* A round ends when it has gone through its list.
LEMMA NoneLeftStep == TypeOK /\ NoneLeft /\ [Next]_vars => NoneLeft'
  <1> SUFFICES ASSUME TypeOK, NoneLeft, [Next]_vars PROVE NoneLeft'
    OBVIOUS
  <1> USE DEF NoneLeft, RoundOver
  <1>1. CASE JudgerBegin
    BY <1>1 DEF JudgerBegin
  <1>2. CASE JudgerEnd \/ Restart
    BY <1>2 DEF JudgerEnd, Restart, JudgerIdle
  <1>3. CASE JudgerAdvance \/ JudgerSend \/ JudgerAck \/ JudgerDisable
    <2>1. jdg'.pc # "idle"
      BY <1>3 DEF TypeOK, JudgerAdvance, JudgerSend, JudgerAck, JudgerDisable, AfterAck
    <2> QED
      BY <2>1
  <1>4. CASE jdg' = jdg
    BY <1>4
  <1> QED
    BY <1>1, <1>2, <1>3, <1>4, JudgerAlone DEF Next, JudgerStep

\* A round that begins lists every task that is due.
LEMMA RoundLists ==
  ASSUME TypeOK, NEW k \in Task, RoundOver, DueFor(k), [Next]_vars, [NoFault]_vars
  PROVE  RoundOver' \/ Listed(k)'
  <1> USE DEF RoundOver
  <1>1. CASE JudgerBegin
    <2>1. jdg'.todo = Due
      BY <1>1 DEF JudgerBegin
    <2> QED
      BY <2>1 DEF Listed, DueFor
  <1>2. CASE Restart
    BY <1>2 DEF Restart, JudgerIdle
  <1>3. CASE jdg' = jdg
    BY <1>3
  <1> QED
    BY <1>1, <1>2, <1>3, JudgerAlone
       DEF Next, JudgerStep, JudgerAdvance, JudgerSend, JudgerAck, JudgerDisable, JudgerEnd

\* A listed task stays listed until its turn has come, and then it is no longer due.
LEMMA TurnComes ==
  ASSUME TypeOK, NEW k \in Task, Listed(k), NoneLeft, [Next]_vars, [NoFault]_vars
  PROVE  Listed(k)' \/ ~DueFor(k)'
  <1>0. faults \in Nat /\ (UNCHANGED vars \/ faults' = faults)
    BY DEF TypeOK, NoFault
  <1>1. CASE jdg'.todo = jdg.todo
    BY <1>1 DEF Listed
  <1>2. CASE JudgerBegin \/ JudgerEnd
    <2>1. jdg.todo = {}
      BY <1>2 DEF JudgerBegin, JudgerEnd, NoneLeft, RoundOver
    <2> QED
      BY <2>1 DEF Listed
  <1>3. CASE Restart
    BY <1>0, <1>3 DEF Restart, Fault, vars
  <1>4. CASE JudgerAdvance
    <2>1. ~Fault
      BY <1>0 DEF vars, Fault
    <2>2. PICK j \in jdg.todo :
            /\ SetLatest(j[1])
            /\ jdg' = [jdg EXCEPT !.pc = "send", !.todo = @ \ {j}, !.job = j]
            /\ now' = now
      BY <1>4, <2>1, Zenon DEF JudgerAdvance
    <2>3. jdg'.todo = jdg.todo \ {j}
      BY <2>2 DEF TypeOK
    <2>4. CASE j[1] # k
      BY <2>3, <2>4 DEF Listed
    <2>5. CASE j[1] = k
      <3>1. /\ tasks' = tasks
            /\ latest' = IF k \in tasks THEN [latest EXCEPT ![k] = now] ELSE latest
        BY <2>2, <2>5 DEF SetLatest
      <3>2. now \in Nat /\ latest \in [Task -> Nat]
        BY DEF TypeOK
      <3>3. ASSUME NEW i \in Due', i[1] = k PROVE FALSE
        <4>1. /\ i[2] \in 0 .. now /\ k \in tasks
              /\ \E f \in Schedule[k] : f = i[2] /\ f > latest'[k]
          BY <2>2, <3>1, <3>3 DEF Due, After
        <4>2. latest'[k] = now
          BY <3>1, <3>2, <4>1
        <4> QED
          BY <3>2, <4>1, <4>2
      <3> QED
        BY <3>3 DEF DueFor
    <2> QED
      BY <2>4, <2>5
  <1>5. CASE JudgerSend \/ JudgerAck \/ JudgerDisable
    <2>1. jdg'.todo = jdg.todo
      BY <1>5 DEF TypeOK, JudgerSend, JudgerAck, JudgerDisable
    <2> QED
      BY <1>1, <2>1
  <1> QED
    BY <1>1, <1>2, <1>3, <1>4, <1>5, JudgerAlone DEF Next, JudgerStep

\* A due task does not stay due, in every instance, if rounds keep ending and beginning
\* and faults cease: the first round that begins afterwards lists the task, and only the
\* UPDATE of latest_exec_time takes it from the list.
THEOREM RoundsClaimTheDue ==
  Spec /\ <>[][NoFault]_vars /\ RoundsGoOn => DueIsClaimed
  <1>1. Init => NoneLeft
    BY DEF Init, NoneLeft, JudgerIdle
  <1>2. Inv => TypeOK
    BY DEF Inv, TypeInv
  <1>3. ASSUME NEW k \in Task
        PROVE  Spec /\ <>[][NoFault]_vars /\ RoundsGoOn =>
                 ((\E j \in Due : j[1] = k) ~> (\A j \in Due : j[1] # k) \/ exe.pc = "down")
    <2>1. TypeOK /\ RoundOver /\ DueFor(k) /\ [Next]_vars /\ [NoFault]_vars
            => RoundOver' \/ Listed(k)'
      BY RoundLists
    <2>2. TypeOK /\ Listed(k) /\ NoneLeft /\ [Next]_vars /\ [NoFault]_vars
            => Listed(k)' \/ ~DueFor(k)'
      BY TurnComes
    <2>3. DueFor(k) => ~NothingDue
      BY DEF DueFor, NothingDue
    <2>4. RoundOver /\ NoneLeft => ~Listed(k)
      BY DEF NoneLeft, Listed
    <2>5. DueFor(k) <=> \E j \in Due : j[1] = k
      BY DEF DueFor
    <2>6. ~DueFor(k) => \A j \in Due : j[1] # k
      BY DEF DueFor
    <2>7. Down <=> exe.pc = "down"
      BY DEF Down
    <2> QED
      BY <1>1, <1>2, <2>1, <2>2, <2>3, <2>4, <2>5, <2>6, <2>7, NoneLeftStep, InvCorrect, PTL
         DEF Spec, RoundsGoOn
  <1> QED
    BY <1>3 DEF DueIsClaimed

-----------------------------------------------------------------------------
(* Who starts a task by hand gets an answer: for every instance, from what *)
(* is never lost between the sockets; that the executor catches up with    *)
(* its messages, and that a thread reads its answer, are premises.         *)

InWait(a) == adm[a].pc = "wait"
Free(a) == adm[a].pc = "idle"
Answered(a) == a \in acked
CaughtUp == mail = {}

ExecutorCatchesUp == []<>(CaughtUp \/ Down)
AnswersAreRead == \A a \in Admin : []<>(~InWait(a) \/ ~Answered(a) \/ Down)

\* An answer waits for its reader, unless a restart ends both.
LEMMA AnswerStays ==
  ASSUME TypeOK, TalkInv, NEW a \in Admin, InWait(a), Answered(a), [Next]_vars
  PROVE  (InWait(a) /\ Answered(a))' \/ ~InWait(a)'
  <1> USE DEF InWait, Answered
  <1>1. a \in Sender /\ a # Judger
    BY ArchiveAssumption DEF Sender
  <1>2. CASE SilentStep
    BY <1>2 DEF SilentStep
  <1>3. CASE JudgerSend
    BY <1>3 DEF JudgerSend
  <1>4. CASE JudgerAck
    BY <1>1, <1>4 DEF JudgerAck
  <1>5. CASE ExecutorReceive
    BY <1>5 DEF ExecutorReceive, Reply
  <1>6. ASSUME NEW b \in Admin, StartNowSend(b)
        PROVE  acked' = acked
    BY <1>6 DEF StartNowSend
  <1>7. ASSUME NEW b \in Admin, StartNowAck(b)
        PROVE  (InWait(a) /\ Answered(a))' \/ ~InWait(a)'
    <2>1. CASE b = a
      BY <1>7, <2>1 DEF StartNowAck, TypeOK, AdminIdle
    <2>2. CASE b # a
      BY <1>7, <2>2 DEF StartNowAck, TypeOK
    <2> QED
      BY <2>1, <2>2
  <1>8. CASE Restart
    BY <1>8 DEF Restart, AdminIdle
  <1> QED
    BY <1>2, <1>3, <1>4, <1>5, <1>6, <1>7, <1>8, OthersAreSilent
       DEF Next, JudgerStep, ExecutorStep, AdminStep

\* A thread that waits is let go by an answer or a restart, and by nothing else.
LEMMA WaitEnds ==
  ASSUME TypeOK, NEW a \in Admin, InWait(a), [Next]_vars
  PROVE  InWait(a)' \/ Free(a)'
  <1> USE DEF InWait, Free
  <1>1. CASE adm' = adm
    BY <1>1
  <1>2. ASSUME NEW b \in Admin, AdminStep(b)
        PROVE  InWait(a)' \/ Free(a)'
    <2>1. CASE b = a
      <3>1. StartNowAck(a)
        BY <1>2, <2>1 DEF AdminStep, StartNowBegin, ReverseBegin, StartNowSend,
           ReverseWrite, AdminFails
      <3> QED
        BY <3>1 DEF StartNowAck, TypeOK, AdminIdle
    <2>2. CASE b # a
      <3>1. \E q : adm' = [adm EXCEPT ![b] = q]
        BY <1>2 DEF AdminStep, StartNowBegin, ReverseBegin, StartNowSend,
           StartNowAck, ReverseWrite, AdminFails, AdminGoto
      <3> QED
        BY <2>2, <3>1 DEF TypeOK
    <2> QED
      BY <2>1, <2>2
  <1>3. CASE Restart
    BY <1>3 DEF Restart, AdminIdle
  <1> QED
    BY <1>1, <1>2, <1>3 DEF Next, Tick, JudgerStep, JudgerBegin, JudgerAdvance, JudgerSend,
       JudgerAck, JudgerDisable, JudgerEnd, ExecutorStep, ExecutorReceive, ExecutorFork,
       AddTask, DeleteTask, vars

\* In every instance start_now answers or the executor is dead, if the executor catches
\* up time and again and threads read their answers: a message that is no longer in the
\* socket was answered.
THEOREM StartsAreAnswered ==
  Spec /\ ExecutorCatchesUp /\ AnswersAreRead => StartNowAnswers
  <1>1. Init => TalkInv
    BY DEF Init, TalkInv, Waits, Asked, JudgerIdle, AdminIdle
  <1>2. Inv => TypeOK
    BY DEF Inv, TypeInv
  <1>3. ASSUME NEW a \in Admin
        PROVE  Spec /\ ExecutorCatchesUp /\ AnswersAreRead =>
                 (adm[a].pc = "wait" ~> adm[a].pc = "idle" \/ exe.pc = "down")
    <2>1. AnswersAreRead => []<>(~InWait(a) \/ ~Answered(a) \/ Down)
      BY DEF AnswersAreRead
    <2>2. TypeOK /\ TalkInv /\ InWait(a) /\ Answered(a) /\ [Next]_vars
            => (InWait(a) /\ Answered(a))' \/ ~InWait(a)'
      BY AnswerStays
    <2>3. TalkInv /\ InWait(a) /\ CaughtUp => Answered(a)
      BY DEF TalkInv, InWait, CaughtUp, Answered, Waits, Asked, Sender
    <2>4. TypeOK /\ InWait(a) /\ [Next]_vars => InWait(a)' \/ Free(a)'
      BY WaitEnds
    <2>5. (InWait(a) <=> adm[a].pc = "wait") /\ (Free(a) <=> adm[a].pc = "idle")
      BY DEF InWait, Free
    <2>6. Down <=> exe.pc = "down"
      BY DEF Down
    <2> QED
      BY <1>1, <1>2, <2>1, <2>2, <2>3, <2>4, <2>5, <2>6, TalkStep, InvCorrect, PTL
         DEF Spec, ExecutorCatchesUp
  <1> QED
    BY <1>3 DEF StartNowAnswers

\* The two halves together: nobody waits for ever.
THEOREM WaitsCease ==
  Spec /\ <>[][NoFault]_vars /\ RoundsGoOn /\ ExecutorCatchesUp /\ AnswersAreRead => WaitsEnd
  BY RoundsClaimTheDue, StartsAreAnswered DEF WaitsEnd
=============================================================================
