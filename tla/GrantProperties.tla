--------------------------- MODULE GrantProperties ---------------------------
(***************************************************************************)
(* What the status of an application and the account shown with it say     *)
(* about the target server.                                                *)
(***************************************************************************)
EXTENDS Grant

Points == {"idle", "granting", "account", "succeeding", "failing"}

\* Types of the table, the target, the threads and the history.
TypeOK ==
  /\ rows \subseteq used /\ used \subseteq OrderId
  /\ request \in [OrderId -> Request \cup {NoRequest}]
  /\ status \in [OrderId -> {STATUS_TO_GRANT, STATUS_SUCCED, STATUS_FAILED}]
  /\ account \in [OrderId -> Account \cup {NoAccount}]
  /\ listed \subseteq Db
  /\ granted \subseteq used \X Ip
  /\ passwd \in [User \X Ip -> Password \cup {NoPass}]
  /\ thr \in [Thread -> [pc: Points, order: OrderId \cup {NoOrder}, left: SUBSET Ip]]
  /\ cut \subseteq used
  /\ reqs \in Nat /\ faults \in Nat

\* An order shown as granted has been granted for every address, although grants
\* of it overlap, stop half way, and set the status in any order
\* (model/grant.py:377-389, controller/grant.py:139-145).
SuccessIsComplete ==
  \A o \in rows : status[o] = STATUS_SUCCED => \A ip \in request[o].ips : <<o, ip>> \in granted

\* The account shown with a granted order opens the target from each address, until
\* another order for the same user name and address is granted: its statement sets
\* its own password (model/grant.py:341-345, 378-387; grant_detail.html:60-68).
ShownAccountOpens ==
  \A o \in rows : status[o] = STATUS_SUCCED =>
    /\ account[o] = AccountOf(o)
    /\ \A ip \in request[o].ips :
         \/ passwd[<<account[o].user, ip>>] = account[o].pass
         \/ \E p \in used \ {o} :
              <<p, ip>> \in granted /\ AccountOf(p).user = account[o].user

\* An order that waits to be granted has given nothing away, unless a grant of it
\* is under way or was cut short by a restart: a failure half way is reported
\* (controller/grant.py:141-143).
WaitingGaveNothing ==
  \A o \in rows, ip \in Ip :
    status[o] = STATUS_TO_GRANT /\ <<o, ip>> \in granted =>
      o \in cut \/ \E t \in Thread : thr[t].order = o
=============================================================================
