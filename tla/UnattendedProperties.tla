------------------------ MODULE UnattendedProperties ------------------------
(***************************************************************************)
(* What the system does with orders by itself, and what its schema says of *)
(* the time range that does not hold.                                      *)
(***************************************************************************)
EXTENDS Unattended

\* Types of what this module adds to SqlOrder.
UTypeOK ==
  /\ instance \subseteq Instance
  /\ allow \in [Instance -> TimeRange \cup {NoRange}]
  /\ setting \in Settings
  /\ round \in [pc: {"idle", "instance", "post", "posted"}, range: TimeRange \cup {NoRange},
               at: Time \cup {NoTime}, edited: BOOLEAN]
  /\ zombies \in BOOLEAN /\ checker \in {"idle", "restart"}
  /\ cut \subseteq Thread /\ wrkCut \in BOOLEAN
  /\ credit \in [OrderId -> Int]
  /\ late \in Nat /\ hidden \in BOOLEAN
  /\ edits \in Nat /\ faults \in Nat

\* Each automatic launch of an order is paid by a commit of that order, or by an
\* earlier launch whose report was cut short and which left the order waiting.
\* The verifier works on a status read long before, users cancel, edit, commit
\* and execute the order meanwhile, and execute never looks at the status
\* (sql_order.py:257, auto_verify.py:87-123).
AutoRunsArePaid == \A o \in OrderId : credit[o] >= 0

\* Turning the switch off stops the verifier, but for the one order of the round
\* that has read the switch already (auto_verify.py:82-85).
SwitchOffStops == ~setting.enable => late <= 1

\* A range over midnight is kept: whatever changes of settings the round has been
\* through, the time it saw lies in the range it took (auto_verify.py:31-66).
MidnightRangeKept ==
  round.pc = "post" /\ OverMidnight(round.range.begin, round.range.end)
    => InRange(round.range.begin, round.range.end, round.at)

\* api_execute runs a flagged text for the verifier only if the order was edited
\* after the verifier had judged it: the POST names the order, not the text
\* (auto_verify.py:112-123).
FlaggedNeedsAnEdit ==
  thr[Verifier].pc \in {"execCheck", "execRun"} /\ thr[Verifier].sql \in FlaggedSql
    => round.edited

\* A restart of Inception breaks a background run only if the decision could not
\* see it: it was taken after the SELECT, or reset_async had put its task back to
\* TO_EXEC while it ran (check_defunct.py:28-34).
CutRunsWereHidden == wrkCut => hidden

\* Nothing of the policy adds to what SqlOrder allows.
ImplementsSqlOrder == Spec

-----------------------------------------------------------------------------
(* Liveness *)

HeadIsStuck ==
  \E o \in ToVerify :
    /\ First(o)
    /\ ~InstanceThere(o) \/ RangeFor(o, setting.range) = NoRange

\* A waiting order without flagged words is executed or leaves the state, unless
\* the switch is off or the first such order can never be executed: only that one
\* is ever looked at (auto_verify.py:87, order.py:147).
WaitingIsServed ==
  \A o \in OrderId :
    o \in ToVerify ~> o \notin ToVerify \/ ~setting.enable \/ HeadIsStuck

\* A task that says it is being executed and that the worker does not hold.
Orphan ==
  \E k \in TaskId :
    /\ taskOrder[k] # NoOrder /\ execStatus[k] = EXEC_STATUS_EXEC_ING
    /\ wrk.task # k

\* Too many zombies lead to a restart, unless a task that a crash or an exception
\* of the worker left behind seems to run for ever (check_defunct.py:29-36).
DefunctIsCleared == zombies ~> ~zombies \/ Orphan

-----------------------------------------------------------------------------
(* A claim of the repository that does not hold *)

\* sql-admin-ui.sql:30-31: the two columns are the begin and the end of the time
\* in which automatic execution is allowed.
RunsInsideTheRange ==
  round.pc = "post" => InRange(round.range.begin, round.range.end, round.at)
=============================================================================
