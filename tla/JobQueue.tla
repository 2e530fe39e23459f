------------------------------ MODULE JobQueue ------------------------------
(***************************************************************************)
(* What sql_task and its single consumer promise, whatever the orders do:  *)
(* jobs run one at a time, and every run of a job is paid for by one       *)
(* arming of that job (its insertion, or a reset by an operator).  An      *)
(* arming may be lost, it is never used twice.                             *)
(***************************************************************************)
EXTENDS Integers

CONSTANTS Job, NoJob

VARIABLES
  credit,   \* armings of each job not used by a run
  active    \* the job running now, or NoJob

vars == <<credit, active>>

Init == credit = [j \in Job |-> 0] /\ active = NoJob

Arm(S) ==
  /\ credit' = [j \in Job |-> IF j \in S THEN credit[j] + 1 ELSE credit[j]]
  /\ UNCHANGED active

Start(j) ==
  /\ active = NoJob
  /\ credit[j] > 0
  /\ credit' = [credit EXCEPT ![j] = @ - 1]
  /\ active' = j

Stop ==
  /\ active # NoJob
  /\ active' = NoJob
  /\ UNCHANGED credit

Next ==
  \/ \E S \in SUBSET Job : Arm(S)
  \/ \E j \in Job : Start(j)
  \/ Stop

Spec == Init /\ [][Next]_vars
=============================================================================
