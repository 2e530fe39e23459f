------------------------ MODULE ArchiveRunProperties ------------------------
(***************************************************************************)
(* What a run of an archive task guarantees, alone and among other runs.   *)
(***************************************************************************)
EXTENDS ArchiveRun

\* Types of the task, the runs' locals, the stores and the history.
TypeOK ==
  /\ task \in [backup: BOOLEAN, create: BOOLEAN, purge: BOOLEAN, stamped: BOOLEAN]
  /\ present \in BOOLEAN /\ now \in 0 .. MaxTime
  /\ run \in [Run -> [pc: {"idle", "dump", "ensure", "archive", "log", "exit"},
                      todo: SUBSET Table, ok: BOOLEAN]]
  /\ src \subseteq arrived /\ arrived \subseteq Row
  /\ exist \subseteq Name /\ copied \subseteq exist \X Row
  /\ file \in [Name -> SUBSET Row] /\ overwritten \subseteq Name
  /\ log \in [Run -> {"none", "success", "failure"}]
  /\ atStart \in [Run -> SUBSET Row]
  /\ dumped \in [Run -> SUBSET (Name \X Row)]
  /\ purged \in [Run -> SUBSET Row]
  /\ faults \in Nat

\* A row that left the source is in a destination table, wherever runs failed,
\* died or overlapped.
NothingLost == \A r \in arrived \ src : \E n \in exist : <<n, r>> \in copied

\* With a backup ordered, a row that was there when a run began and that the run
\* deleted stands in the file of a dump of that run that saw it, whatever dump failed
\* or was cut short; unless a dump of the same second created that file anew
\* (cron_executor.py:56-63, 81-95, 215).
PurgedIsBackedUp ==
  task.backup => \A p \in Run : \A r \in purged[p] \cap atStart[p] :
    \E n \in Name : <<n, r>> \in dumped[p] /\ (r \in file[n] \/ n \in overwritten)

\* A run logged as a success left every row that was there when it began in a
\* destination, and none of them in the source if they were to be deleted.
SuccessIsWhole ==
  \A p \in Run : log[p] = "success" =>
    \A r \in atStart[p] :
      /\ \E n \in exist : <<n, r>> \in copied
      /\ task.purge => r \notin src

=============================================================================
