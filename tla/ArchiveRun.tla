----------------------------- MODULE ArchiveRun -----------------------------
(***************************************************************************)
(* What the processes forked for an archive task do: dump the rows of each *)
(* table to a file, create each destination, have pt-archiver move the     *)
(* rows of each table, and log the outcome.  Runs of one task may overlap, *)
(* and the application goes on inserting rows.  mysqldump, pt-archiver and *)
(* the two target servers are external: they do their work or fail half    *)
(* way.                                                                    *)
(*                                                                         *)
(* Rows are those the task's condition selects.  A step ends at each call  *)
(* of an external program or server.                                       *)
(***************************************************************************)
EXTENDS Naturals

CONSTANTS
  Run,       \* forked processes
  Table,     \* tables to archive
  Row,       \* rows of the source that the condition selects
  TableOf,   \* the table a row belongs to
  MaxTime,   \* bound: the clock stops here
  MaxFaults  \* bound: failed calls and dead processes

ASSUME RunAssumption ==
  /\ Table # {} /\ TableOf \in [Row -> Table]
  /\ MaxTime \in Nat /\ MaxFaults \in Nat

VARIABLES
  task,     \* the settings of the archive_task row, which nothing changes
  present,  \* the row is in archive_task
  now,      \* the wall clock, in seconds
  run,      \* locals of the runs: program point, tables left, success
  src,      \* rows in the source
  exist,    \* names of the destination tables that exist
  copied,   \* rows in the destination tables
  file,     \* per file name, the rows in the file
  log,      \* per run, the row of archive_log
  arrived,  \* rows ever inserted into the source
  \* What happened; only properties read these.
  atStart,  \* per run, the rows in the source when the task was loaded
  dumped,   \* per run, the rows its dumps saw, each with the name of the file
  purged,   \* per run, the rows it deleted from the source
  overwritten, \* names of files that had rows in them when they were created anew
  faults

dstVars  == <<exist, copied>>
noteVars == <<atStart, dumped, purged>>
fileVars == <<file, overwritten>>
vars == <<task, present, now, run, src, dstVars, fileVars, log, arrived, noteVars, faults>>

\* Both kinds of names hold the table and the second at which they are computed.
Name == Table \X (0 .. MaxTime)
FileName(t) == <<t, now>>

\* genTableName: types 1 and 5 put the time of the call into the name.
DstName(t) == <<t, IF task.stamped THEN now ELSE 0>>

RowsOf(t) == {r \in src : TableOf[r] = t}

Init ==
  /\ task \in [backup: BOOLEAN, create: BOOLEAN, purge: BOOLEAN, stamped: BOOLEAN]
  /\ present = TRUE /\ now = 0
  /\ run = [p \in Run |-> [pc |-> "idle", todo |-> {}, ok |-> FALSE]]
  /\ src = {} /\ arrived = {}
  /\ exist \in {{}, Table \X {0}}
  /\ copied = {}
  /\ file = [n \in Name |-> {}] /\ overwritten = {}
  /\ log = [p \in Run |-> "none"]
  /\ atStart = [p \in Run |-> {}]
  /\ dumped = [p \in Run |-> {}]
  /\ purged = [p \in Run |-> {}]
  /\ faults = 0

Fault  == faults < MaxFaults /\ faults' = faults + 1
Steady == faults' = faults

-----------------------------------------------------------------------------
(* Stages *)

Goto(p, pc, ok) == run' = [run EXCEPT ![p] = [pc |-> pc, todo |-> Table, ok |-> ok]]

\* The table is done: on to the next one, or to the next stage.
Done(p, t, next) ==
  IF run[p].todo = {t} THEN Goto(p, next, next = "log")
  ELSE run' = [run EXCEPT ![p].todo = @ \ {t}]

GiveUp(p) == Goto(p, "log", FALSE)

\* A variant for mutation: the error of a dump is logged and not returned.
AfterBadDumpGoOn(p, t) == Done(p, t, IF task.create THEN "ensure" ELSE "archive")

AfterBadDump(p, t) == GiveUp(p)

AfterDumps == IF task.create THEN "ensure" ELSE "archive"
AfterLoad  == IF task.backup THEN "dump" ELSE AfterDumps

\* safe_archive loads the task; it does not look at its status.
Load(p) ==
  /\ run[p].pc = "idle"
  /\ IF present THEN Goto(p, AfterLoad, FALSE) ELSE GiveUp(p)
  /\ atStart' = [atStart EXCEPT ![p] = src]
  /\ Steady
  /\ UNCHANGED <<task, present, now, src, dstVars, fileVars, log, arrived, dumped, purged>>

\* The shell creates the file anew, whatever mysqldump writes to it.
Write(t, content) ==
  /\ file' = [file EXCEPT ![FileName(t)] = content]
  /\ overwritten' = overwritten \cup (IF file[FileName(t)] = {} THEN {} ELSE {FileName(t)})

\* mysqldump fails or is killed.
WritePart(t) == \E part \in SUBSET RowsOf(t) : Write(t, part)

Dump(p) ==
  /\ run[p].pc = "dump"
  /\ \E t \in run[p].todo :
       \/ /\ Write(t, RowsOf(t))
          /\ dumped' = [dumped EXCEPT ![p] = @ \cup {FileName(t)} \X RowsOf(t)]
          /\ Done(p, t, AfterDumps)
          /\ Steady
       \/ /\ WritePart(t)
          /\ AfterBadDump(p, t)
          /\ Fault
          /\ UNCHANGED dumped
  /\ UNCHANGED <<task, present, now, src, dstVars, log, arrived, atStart, purged>>

\* CREATE TABLE IF NOT EXISTS with the columns of the source; when it raises it
\* may have been done.
Ensure(p) ==
  /\ run[p].pc = "ensure"
  /\ \E t \in run[p].todo :
       \/ exist' = exist \cup {DstName(t)} /\ Done(p, t, "archive") /\ Steady
       \/ exist' \in {exist, exist \cup {DstName(t)}} /\ GiveUp(p) /\ Fault
  /\ UNCHANGED <<task, present, now, src, copied, fileVars, log, arrived, noteVars>>

\* A variant for mutation: the suffix of the name is forgotten.
MoveUnsuffixed(p, t, c, d) ==
  /\ copied' = copied \cup {<<t, 0>>} \X c
  /\ src' = src \ d
  /\ purged' = [purged EXCEPT ![p] = @ \cup d]

\* pt-archiver inserted the rows c and deleted the rows d.
Move(p, t, c, d) ==
  /\ copied' = copied \cup {DstName(t)} \X c
  /\ src' = src \ d
  /\ purged' = [purged EXCEPT ![p] = @ \cup d]

\* A variant for mutation: a row is deleted before it is known to be inserted.
DeletableAny(t, c) == SUBSET RowsOf(t)

\* What pt-archiver may have deleted when it inserted c: --purge or --no-delete.
Deletable(t, c) == IF task.purge THEN SUBSET c ELSE {{}}

\* A variant for mutation: the exit status of pt-archiver is not looked at.
AfterBadMoveGoOn(p, t) == Done(p, t, "log")

AfterBadMove(p, t) == GiveUp(p)

\* Without its destination pt-archiver does nothing; a row that is already there,
\* or a fault, stops it half way.
Archive(p) ==
  /\ run[p].pc = "archive"
  /\ \E t \in run[p].todo :
       \/ /\ DstName(t) \in exist
          /\ Move(p, t, RowsOf(t), IF task.purge THEN RowsOf(t) ELSE {})
          /\ Done(p, t, "log")
          /\ Steady
       \/ /\ DstName(t) \in exist
          /\ \E c \in SUBSET RowsOf(t) : \E d \in Deletable(t, c) : Move(p, t, c, d)
          /\ AfterBadMove(p, t)
          /\ \/ Fault
             \/ Steady /\ \E r \in RowsOf(t) : <<DstName(t), r>> \in copied
       \/ /\ DstName(t) \notin exist
          /\ UNCHANGED <<copied, src, purged>>
          /\ AfterBadMove(p, t)
          /\ Steady
  /\ UNCHANGED <<task, present, now, exist, fileVars, log, arrived, atStart, dumped>>

\* An exception of the INSERT is logged and forgotten.
Log(p) ==
  /\ run[p].pc = "log"
  /\ \/ log' = [log EXCEPT ![p] = IF run[p].ok THEN "success" ELSE "failure"] /\ Steady
     \/ log' = log /\ Fault
  /\ run' = [run EXCEPT ![p].pc = "exit"]
  /\ UNCHANGED <<task, present, now, src, dstVars, fileVars, arrived, noteVars>>

\* The process is killed, perhaps during a dump, or an exception outside the try blocks
\* ends it.
Die(p) ==
  /\ run[p].pc \notin {"idle", "exit"} /\ Fault
  /\ \/ UNCHANGED fileVars
     \/ run[p].pc = "dump" /\ \E t \in run[p].todo : WritePart(t)
  /\ run' = [run EXCEPT ![p].pc = "exit"]
  /\ UNCHANGED <<task, present, now, src, dstVars, log, arrived, noteVars>>

-----------------------------------------------------------------------------
(* The surroundings *)

Arrive(r) ==
  /\ r \notin arrived
  /\ src' = src \cup {r} /\ arrived' = arrived \cup {r}
  /\ Steady
  /\ UNCHANGED <<task, present, now, run, dstVars, fileVars, log, noteVars>>

DeleteTask ==
  /\ present /\ present' = FALSE
  /\ Steady
  /\ UNCHANGED <<task, now, run, src, dstVars, fileVars, log, arrived, noteVars>>

Tick ==
  /\ now < MaxTime /\ now' = now + 1
  /\ Steady
  /\ UNCHANGED <<task, present, run, src, dstVars, fileVars, log, arrived, noteVars>>

RunStep(p) == Load(p) \/ Dump(p) \/ Ensure(p) \/ Archive(p) \/ Log(p)

Next ==
  \/ \E p \in Run : RunStep(p) \/ Die(p)
  \/ \E r \in Row : Arrive(r)
  \/ DeleteTask \/ Tick

Spec == Init /\ [][Next]_vars
=============================================================================
