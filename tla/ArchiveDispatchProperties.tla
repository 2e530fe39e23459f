---------------------- MODULE ArchiveDispatchProperties ----------------------
(***************************************************************************)
(* What the scheduling of archive tasks guarantees.                        *)
(***************************************************************************)
EXTENDS ArchiveDispatch

\* Types of the table, of the actors' locals and of the history.
TypeOK ==
  /\ tasks \subseteq used /\ used \subseteq Task
  /\ enabled \in [Task -> BOOLEAN]
  /\ latest \in [Task -> Nat]
  /\ now \in Nat
  /\ jdg \in [pc: {"idle", "scan", "send", "wait", "disable"},
             todo: SUBSET Occurrence, job: Occurrence \cup {NoJob}]
  /\ adm \in [Admin -> [pc: {"idle", "send", "wait", "reverse"}, task: Task \cup {NoTask},
                        status: BOOLEAN]]
  /\ mail \subseteq [from: Sender, job: Task \X Nat]
  /\ acked \subseteq Sender
  /\ exe \in [pc: {"listen", "fork", "down"}, job: Job]
  /\ claims \in [Occurrence -> Nat] /\ starts \in [Occurrence -> Nat]
  /\ reenabled \subseteq Task /\ undisabled \subseteq Task
  /\ reqs \in Nat /\ faults \in Nat

-----------------------------------------------------------------------------
(* Guarantees *)

\* Judger, sockets and executor implement Occurrences: an occurrence of a
\* schedule is run at most once and never out of order, although calls fail,
\* processes die between the claim, the message, its acknowledgement and the
\* fork, and a round works on rows read long before.
Occurrences == INSTANCE Occurrences WITH clock <- now

OccurrencesRunAtMostOnce == Occurrences!Spec

\* The schedule runs a run-once task at most once, unless its disabling was cut
\* short or an administrator's request enabled it.
ScheduleRunsOnce ==
  \A k \in Once \ (reenabled \cup undisabled) :
    \A c, d \in Occurrence :
      c[1] = k /\ d[1] = k /\ starts[c] > 0 /\ starts[d] > 0 => c = d

\* A due task does not stay due: it is claimed or passed over, disabled or
\* deleted, unless a dead executor leaves the judger waiting for ever.
DueIsClaimed ==
  \A k \in Task :
    (\E j \in Due : j[1] = k) ~> (\A j \in Due : j[1] # k) \/ exe.pc = "down"

\* start_now answers, unless the executor is dead.
StartNowAnswers ==
  \A a \in Admin : adm[a].pc = "wait" ~> adm[a].pc = "idle" \/ exe.pc = "down"

\* Nobody waits for ever on a living executor: neither the due tasks behind the
\* judger nor an administrator (cron_judger.py:58, archive.py:373, cron_executor.py:309).
WaitsEnd == DueIsClaimed /\ StartNowAnswers
=============================================================================
