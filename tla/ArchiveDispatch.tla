--------------------------- MODULE ArchiveDispatch ---------------------------
(***************************************************************************)
(* How an archive task comes to be run.  The process cron_judger reads all *)
(* tasks, claims those whose schedule is due by advancing their            *)
(* latest_exec_time, and sends one message for each to the process         *)
(* cron_executor, which acknowledges it and forks a process that runs the  *)
(* task.  Administrators enable, disable, delete and start tasks from      *)
(* pages rendered earlier.  Sender and executor talk through ZeroMQ REQ    *)
(* and REP sockets without timeout: a sender waits until its message is    *)
(* acknowledged.                                                           *)
(*                                                                         *)
(* A step ends at each statement sent to the database, each message sent,  *)
(* received or acknowledged, and each fork.                                *)
(***************************************************************************)
EXTENDS Naturals, FiniteSets

CONSTANTS
  Task,         \* the ids archive_task can hand out
  Once,         \* tasks with is_exec_once = 1
  Schedule,     \* per task, the times its cron rule matches
  Admin,        \* threads of the web server that serve an administrator
  Judger,       \* the process cron_judger
  NoTask,       \* no task in an actor's hands
  MaxTime,      \* bound: the clock stops here
  MaxRequests,  \* bound: requests the server accepts
  MaxFaults     \* bound: failed calls, dead processes and restarts

ASSUME ArchiveAssumption ==
  /\ Once \subseteq Task /\ NoTask \notin Task
  /\ Schedule \in [Task -> SUBSET (Nat \ {0})]
  /\ Judger \notin Admin
  /\ MaxTime \in Nat /\ MaxRequests \in Nat /\ MaxFaults \in Nat

VARIABLES
  tasks, used,  \* ids present in archive_task, ids ever inserted
  enabled,      \* archive_task.status
  latest,       \* archive_task.latest_exec_time
  now,          \* the wall clock
  jdg,          \* locals of the judger: program point, due tasks left, task
  adm,          \* locals of the threads: program point, task, status read
  mail,         \* messages sent and not yet received
  acked,        \* senders whose message was acknowledged, reply not yet read
  exe,          \* locals of the executor: program point, message
  \* What happened; only properties read these.
  claims,       \* per occurrence, how often latest_exec_time was advanced for it
  starts,       \* per occurrence, runs forked for it
  reenabled,    \* tasks an administrator's request enabled
  undisabled,   \* run-once tasks whose disabling was cut short
  reqs, faults

tableVars == <<tasks, used, enabled, latest>>
jobVars   == <<claims, starts>>
noteVars  == <<reenabled, undisabled>>
vars == <<tableVars, now, jdg, adm, mail, acked, exe, jobVars, noteVars, reqs, faults>>

Sender == Admin \cup {Judger}

\* An occurrence is a task and a time of its schedule; a job is an occurrence,
\* or a task and time 0, which stands for a start by hand.
Occurrence == UNION {{k} \X Schedule[k] : k \in Task}
ByHand == 0
Job == (Task \cup {NoTask}) \X Nat
NoJob == <<NoTask, ByHand>>

JudgerIdle   == [pc |-> "idle", todo |-> {}, job |-> NoJob]
AdminIdle    == [pc |-> "idle", task |-> NoTask, status |-> FALSE]
ExecutorIdle == [pc |-> "listen", job |-> NoJob]

Init ==
  /\ tasks = {} /\ used = {} /\ now = 0
  /\ enabled = [k \in Task |-> FALSE]
  /\ latest = [k \in Task |-> 0]
  /\ jdg = JudgerIdle
  /\ adm = [a \in Admin |-> AdminIdle]
  /\ mail = {} /\ acked = {}
  /\ exe = ExecutorIdle
  /\ claims = [o \in Occurrence |-> 0]
  /\ starts = [o \in Occurrence |-> 0]
  /\ reenabled = {} /\ undisabled = {}
  /\ reqs = 0 /\ faults = 0

Fault  == faults < MaxFaults /\ faults' = faults + 1 /\ reqs' = reqs
Accept == reqs < MaxRequests /\ reqs' = reqs + 1 /\ faults' = faults
Steady == UNCHANGED <<reqs, faults>>

Tick ==
  /\ now < MaxTime
  /\ now' = now + 1
  /\ Steady
  /\ UNCHANGED <<tableVars, jdg, adm, mail, acked, exe, jobVars, noteVars>>

-----------------------------------------------------------------------------
(* archive_task *)

\* UPDATE archive_task SET status = v WHERE id = k; a deleted row is not there.
SetStatus(k, v) ==
  /\ enabled' = IF k \in tasks THEN [enabled EXCEPT ![k] = v] ELSE enabled
  /\ UNCHANGED <<tasks, used, latest>>

\* UPDATE archive_task SET latest_exec_time = now WHERE id = k.
SetLatest(k) ==
  /\ latest' = IF k \in tasks THEN [latest EXCEPT ![k] = now] ELSE latest
  /\ UNCHANGED <<tasks, used, enabled>>

\* A variant for mutation: a rule matches the time of the last execution again.
AfterOrAt(t, k) == {f \in Schedule[k] : f >= t}

\* The matches of the rule after t.
After(t, k) == {f \in Schedule[k] : f > t}

\* A variant for mutation: the occurrence due is taken to be the present time.
DueAtNow ==
  {j \in Task \X {now} :
     /\ j[1] \in tasks /\ enabled[j[1]]
     /\ \E f \in After(latest[j[1]], j[1]) : f <= now}

\* The occurrences due now, one per task: croniter's next match after
\* latest_exec_time.
Due ==
  {j \in Task \X (0 .. now) :
     /\ j[1] \in tasks /\ enabled[j[1]]
     /\ j[2] \in After(latest[j[1]], j[1])
     /\ \A f \in After(latest[j[1]], j[1]) : j[2] <= f}

-----------------------------------------------------------------------------
(* cron_judger *)

\* One SELECT at the start of a round; a round with nothing due has no effect.
JudgerBegin ==
  /\ jdg.pc = "idle"
  /\ Due # {}
  /\ jdg' = [pc |-> "scan", todo |-> Due, job |-> NoJob]
  /\ Steady
  /\ UNCHANGED <<tableVars, now, adm, mail, acked, exe, jobVars, noteVars>>

JudgerEnd ==
  /\ jdg.pc = "scan" /\ jdg.todo = {}
  /\ jdg' = JudgerIdle
  /\ Steady
  /\ UNCHANGED <<tableVars, now, adm, mail, acked, exe, jobVars, noteVars>>

\* The statement fails: the task is passed over; the statement may have run.
JudgerAdvance ==
  /\ jdg.pc = "scan"
  /\ \E j \in jdg.todo :
       \/ /\ SetLatest(j[1])
          /\ claims' = [claims EXCEPT ![j] = @ + 1]
          /\ jdg' = [jdg EXCEPT !.pc = "send", !.todo = @ \ {j}, !.job = j]
          /\ Steady
       \/ /\ SetLatest(j[1]) \/ UNCHANGED tableVars
          /\ claims' = claims
          /\ jdg' = [jdg EXCEPT !.todo = @ \ {j}]
          /\ Fault
  /\ UNCHANGED <<now, adm, mail, acked, exe, starts, noteVars>>

\* An exception on the way to the socket leaves the task enabled.
JudgerSend ==
  /\ jdg.pc = "send"
  /\ \/ /\ mail' = mail \cup {[from |-> Judger, job |-> jdg.job]}
        /\ jdg' = [jdg EXCEPT !.pc = "wait"]
        /\ Steady
     \/ /\ mail' = mail
        /\ jdg' = [jdg EXCEPT !.pc = "scan"]
        /\ Fault
  /\ UNCHANGED <<tableVars, now, adm, acked, exe, jobVars, noteVars>>

\* A variant for mutation: is_exec_once is not looked at.
AfterAckAlwaysOn(k) == "scan"

AfterAck(k) == IF k \in Once THEN "disable" ELSE "scan"

JudgerAck ==
  /\ jdg.pc = "wait" /\ Judger \in acked
  /\ acked' = acked \ {Judger}
  /\ jdg' = [jdg EXCEPT !.pc = AfterAck(jdg.job[1])]
  /\ Steady
  /\ UNCHANGED <<tableVars, now, adm, mail, exe, jobVars, noteVars>>

\* A failure of the statement is logged and forgotten.
JudgerDisable ==
  /\ jdg.pc = "disable"
  /\ \/ /\ SetStatus(jdg.job[1], FALSE)
        /\ undisabled' = undisabled
        /\ Steady
     \/ /\ UNCHANGED tableVars
        /\ undisabled' = undisabled \cup {jdg.job[1]}
        /\ Fault
  /\ jdg' = [jdg EXCEPT !.pc = "scan"]
  /\ UNCHANGED <<now, adm, mail, acked, exe, jobVars, reenabled>>

-----------------------------------------------------------------------------
(* cron_executor *)

\* A variant for mutation: the executor does not reply.
NoReply(m) == acked' = acked

Reply(m) == acked' = acked \cup {m.from}

\* recv and the reply to it.
ExecutorReceive ==
  /\ exe.pc = "listen"
  /\ \E m \in mail :
       /\ mail' = mail \ {m}
       /\ Reply(m)
       /\ exe' = [pc |-> "fork", job |-> m.job]
  /\ Steady
  /\ UNCHANGED <<tableVars, now, jdg, adm, jobVars, noteVars>>

\* The loop catches nothing: a failing fork ends the process.
ExecutorFork ==
  /\ exe.pc = "fork"
  /\ \/ /\ starts' = IF exe.job[2] = ByHand THEN starts
                     ELSE [starts EXCEPT ![exe.job] = @ + 1]
        /\ exe' = ExecutorIdle
        /\ Steady
     \/ /\ UNCHANGED starts
        /\ exe' = [pc |-> "down", job |-> NoJob]
        /\ Fault
  /\ UNCHANGED <<tableVars, now, jdg, adm, mail, acked, claims, noteVars>>

-----------------------------------------------------------------------------
(* Administrators *)

\* /api/add_archive_task: status and latest_exec_time get their defaults.
AddTask(k) ==
  /\ k \notin used
  /\ tasks' = tasks \cup {k} /\ used' = used \cup {k}
  /\ enabled' = [enabled EXCEPT ![k] = TRUE]
  /\ latest' = [latest EXCEPT ![k] = now]
  /\ Steady
  /\ UNCHANGED <<now, jdg, adm, mail, acked, exe, jobVars, noteVars>>

DeleteTask(k) ==
  /\ Accept
  /\ k \in tasks
  /\ tasks' = tasks \ {k}
  /\ UNCHANGED <<used, enabled, latest, now, jdg, adm, mail, acked, exe, jobVars, noteVars>>

AdminGoto(a, p, k, status) ==
  adm' = [adm EXCEPT ![a] = [pc |-> p, task |-> k, status |-> status]]

\* /archive/start_now: a disabled task is refused, a deleted one raises.
StartNowBegin(a, k) ==
  /\ adm[a].pc = "idle" /\ Accept
  /\ k \in tasks /\ enabled[k]
  /\ AdminGoto(a, "send", k, FALSE)
  /\ UNCHANGED <<tableVars, now, jdg, mail, acked, exe, jobVars, noteVars>>

StartNowSend(a) ==
  /\ adm[a].pc = "send"
  /\ mail' = mail \cup {[from |-> a, job |-> <<adm[a].task, ByHand>>]}
  /\ adm' = [adm EXCEPT ![a].pc = "wait"]
  /\ Steady
  /\ UNCHANGED <<tableVars, now, jdg, acked, exe, jobVars, noteVars>>

StartNowAck(a) ==
  /\ adm[a].pc = "wait" /\ a \in acked
  /\ acked' = acked \ {a}
  /\ adm' = [adm EXCEPT ![a] = AdminIdle]
  /\ Steady
  /\ UNCHANGED <<tableVars, now, jdg, mail, exe, jobVars, noteVars>>

\* /archive/reverse_status and its twin in /api: read the status, write the
\* opposite.
ReverseBegin(a, k) ==
  /\ adm[a].pc = "idle" /\ Accept
  /\ k \in tasks
  /\ AdminGoto(a, "reverse", k, enabled[k])
  /\ UNCHANGED <<tableVars, now, jdg, mail, acked, exe, jobVars, noteVars>>

ReverseWrite(a) ==
  /\ adm[a].pc = "reverse"
  /\ SetStatus(adm[a].task, ~adm[a].status)
  /\ reenabled' = IF adm[a].status THEN reenabled ELSE reenabled \cup {adm[a].task}
  /\ adm' = [adm EXCEPT ![a] = AdminIdle]
  /\ Steady
  /\ UNCHANGED <<now, jdg, mail, acked, exe, jobVars, undisabled>>

\* An exception, before the message or the second statement, ends the request.
AdminFails(a) ==
  /\ adm[a].pc \in {"send", "reverse"} /\ Fault
  /\ adm' = [adm EXCEPT ![a] = AdminIdle]
  /\ UNCHANGED <<tableVars, now, jdg, mail, acked, exe, jobVars, noteVars>>

-----------------------------------------------------------------------------
\* The restart script kills the server, the judger and the executor; messages
\* live in their sockets.  Runs already forked have renamed themselves and go on.
Restart ==
  /\ Fault
  /\ jdg' = JudgerIdle
  /\ adm' = [a \in Admin |-> AdminIdle]
  /\ mail' = {} /\ acked' = {}
  /\ exe' = ExecutorIdle
  /\ undisabled' = IF jdg.pc \in {"wait", "disable"}
                   THEN undisabled \cup {jdg.job[1]} ELSE undisabled
  /\ UNCHANGED <<tableVars, now, jobVars, reenabled>>

JudgerStep ==
  \/ JudgerBegin \/ JudgerAdvance \/ JudgerSend
  \/ JudgerAck \/ JudgerDisable \/ JudgerEnd

ExecutorStep == ExecutorReceive \/ ExecutorFork

AdminStep(a) ==
  \/ \E k \in used : StartNowBegin(a, k) \/ ReverseBegin(a, k)
  \/ StartNowSend(a) \/ StartNowAck(a) \/ ReverseWrite(a)
  \/ AdminFails(a)

Next ==
  \/ Tick
  \/ JudgerStep \/ ExecutorStep
  \/ \E k \in Task : AddTask(k) \/ DeleteTask(k)
  \/ \E a \in Admin : AdminStep(a)
  \/ Restart

Spec == Init /\ [][Next]_vars

\* Both loops keep running; a thread that began a request goes on with it.
Fairness ==
  /\ WF_vars(JudgerStep)
  /\ WF_vars(ExecutorStep)
  /\ \A a \in Admin : WF_vars(StartNowSend(a) \/ StartNowAck(a) \/ ReverseWrite(a))

FairSpec == Spec /\ Fairness
=============================================================================
