-------------------------------- MODULE Grant --------------------------------
(***************************************************************************)
(* Applications for privileges on one MySQL instance (ui/controller/       *)
(* grant.py, ui/model/grant.py): a developer applies, an administrator has *)
(* the privileges granted, one statement per address, over a connection to *)
(* the target; the outcome goes into grant_apply.                          *)
(*                                                                         *)
(* Nothing is locked, the status is not looked at, and pages with the      *)
(* button may be old: any number of grants of an order may overlap.        *)
(***************************************************************************)
EXTENDS Naturals

CONSTANTS
  Thread,      \* threads of the server
  OrderId,     \* ids of grant_apply
  Db,          \* databases of the instance
  User, Password, Ip,
  NoIp,        \* an empty line in the list of addresses
  UserOf,      \* the lower-case name of a database
  GenPass,     \* md5 of order id and database name
  SpecAccount, \* accounts that users type in
  AutoGen,     \* pass_type 1: the account is generated
  NoOrder, NoAccount, NoPass, NoRequest,
  MaxRequests, \* bound on applications, grants and deletions
  MaxFaults    \* bound on failing calls, restarts and databases that go

Account == [user: User, pass: Password]

ASSUME GrantAssumption ==
  /\ UserOf \in [Db -> User] /\ GenPass \in [OrderId \X Db -> Password]
  /\ SpecAccount \subseteq Account
  /\ NoIp \notin Ip /\ NoOrder \notin OrderId
  /\ AutoGen \notin Account /\ NoAccount \notin Account
  /\ NoPass \notin Password
  /\ MaxRequests \in Nat /\ MaxFaults \in Nat

VARIABLES
  \* grant_apply
  rows, used,  \* the ids present, and those ever handed out
  request,     \* what was applied for; never written again
  status, account,
  \* mysql_ins_db: the databases still in the inventory
  listed,
  \* The target: addresses that an order was granted, passwords of user@address
  granted, passwd,
  \* Per thread: program point, order, addresses to come
  thr,
  \* History and bounds
  cut,         \* orders of which a grant was cut short by a restart
  reqs, faults

tableVars  == <<rows, used, request, status, account>>
targetVars == <<granted, passwd>>
vars == <<tableVars, listed, targetVars, thr, cut, reqs, faults>>

STATUS_TO_GRANT == 0
STATUS_SUCCED   == 1
STATUS_FAILED   == 2

Request == [db: Db, ips: (SUBSET Ip) \ {{}}, spec: SpecAccount \cup {AutoGen}]

Idle == [pc |-> "idle", order |-> NoOrder, left |-> {}]
At(t, point) == thr[t].pc = point

Init ==
  /\ rows = {} /\ used = {}
  /\ request = [o \in OrderId |-> NoRequest]
  /\ status  = [o \in OrderId |-> STATUS_TO_GRANT]
  /\ account = [o \in OrderId |-> NoAccount]
  /\ listed = Db
  /\ granted = {} /\ passwd = [a \in User \X Ip |-> NoPass]
  /\ thr = [t \in Thread |-> Idle]
  /\ cut = {} /\ reqs = 0 /\ faults = 0

Asked == reqs < MaxRequests /\ reqs' = reqs + 1 /\ UNCHANGED faults
Fault == faults < MaxFaults /\ faults' = faults + 1 /\ UNCHANGED reqs
NoEvent == UNCHANGED <<reqs, faults>>

-----------------------------------------------------------------------------
(* /grant/apply and /grant/del_order *)

\* A variant for mutation: empty lines are not taken out.
EnteredRaw(lines) == lines

\* The addresses in the lines of the form.
Entered(lines) == lines \ {NoIp}

Apply(o, lines, db, spec) ==
  /\ Asked
  /\ o \notin used
  /\ Entered(lines) # {}
  /\ rows' = rows \cup {o} /\ used' = used \cup {o}
  /\ request' = [request EXCEPT ![o] = [db |-> db, ips |-> Entered(lines), spec |-> spec]]
  /\ UNCHANGED <<status, account, listed, targetVars, thr, cut>>

DelOrder(o) ==
  /\ Asked
  /\ rows' = rows \ {o}
  /\ UNCHANGED <<used, request, status, account, listed, targetVars, thr, cut>>

-----------------------------------------------------------------------------
(* /grant/grant *)

Goto(t, point) == thr' = [thr EXCEPT ![t].pc = point]

\* The order is loaded with its server, instance and database; one of them gone
\* makes grant() raise at its start, an order gone raises before.
GrantBegin(t, o) ==
  /\ Asked
  /\ At(t, "idle") /\ o \in rows
  /\ thr' = [thr EXCEPT ![t] =
               IF request[o].db \in listed
               THEN [pc |-> "granting", order |-> o, left |-> request[o].ips]
               ELSE [pc |-> "failing", order |-> o, left |-> {}]]
  /\ UNCHANGED <<tableVars, listed, targetVars, cut>>

\* User name and password that grant() gives to an order.
AccountOf(o) ==
  LET r == request[o] IN
  IF r.spec = AutoGen THEN [user |-> UserOf[r.db], pass |-> GenPass[<<o, r.db>>]]
                      ELSE r.spec

\* "grant .. to user@ip identified by password": privileges and password.
Granted(o, ip) ==
  /\ granted' = granted \cup {<<o, ip>>}
  /\ passwd' = [passwd EXCEPT ![<<AccountOf(o).user, ip>>] = AccountOf(o).pass]

GrantOne(t, ip) ==
  /\ At(t, "granting") /\ ip \in thr[t].left
  /\ Granted(thr[t].order, ip)
  /\ thr' = [thr EXCEPT ![t].left = @ \ {ip}]
  /\ NoEvent
  /\ UNCHANGED <<tableVars, listed, cut>>

\* A variant for mutation: the error of one address is skipped.
AfterBadGrantSkip(t, ip) == [thr[t] EXCEPT !.left = @ \ {ip}]

\* The exception leaves the loop over the addresses.
AfterBadGrant(t, ip) == [thr[t] EXCEPT !.pc = "failing"]

\* A connection lost after the statement was sent may hide its effect.
GrantOneFails(t, ip) ==
  /\ Fault
  /\ At(t, "granting") /\ ip \in thr[t].left
  /\ UNCHANGED targetVars \/ Granted(thr[t].order, ip)
  /\ thr' = [thr EXCEPT ![t] = AfterBadGrant(t, ip)]
  /\ UNCHANGED <<tableVars, listed, cut>>

\* A variant for mutation: the account is not written.
AfterFlushNoAccount == "succeeding"
AfterFlush == "account"

FlushPrivileges(t) ==
  /\ At(t, "granting") /\ thr[t].left = {}
  /\ \/ Goto(t, AfterFlush) /\ NoEvent
     \/ Goto(t, "failing") /\ Fault
  /\ UNCHANGED <<tableVars, listed, targetVars, cut>>

\* An UPDATE of one row, which may be gone.
Put(column, o, value) == IF o \in rows THEN [column EXCEPT ![o] = value] ELSE column

SetAccountInfo(t) ==
  /\ At(t, "account")
  /\ LET o == thr[t].order IN
     \/ account' = Put(account, o, AccountOf(o)) /\ Goto(t, "succeeding") /\ NoEvent
     \/ account' \in {account, Put(account, o, AccountOf(o))} /\ Goto(t, "failing") /\ Fault
  /\ UNCHANGED <<rows, used, request, status, listed, targetVars, cut>>

\* A variant for mutation: a failed order is to be granted again.
FailedStatusReset == STATUS_TO_GRANT
FailedStatus == STATUS_FAILED

SetStatus(t, point, value) ==
  /\ At(t, point)
  /\ status' = Put(status, thr[t].order, value)
  /\ thr' = [thr EXCEPT ![t] = Idle]
  /\ NoEvent
  /\ UNCHANGED <<rows, used, request, account, listed, targetVars, cut>>

SetSucced(t) == SetStatus(t, "succeeding", STATUS_SUCCED)
SetFailed(t) == SetStatus(t, "failing", FailedStatus)

-----------------------------------------------------------------------------
(* The puller, or the deletion of a server, takes a database out of the    *)
(* inventory; the restart script, or an exception of setStatus, ends a     *)
(* request.                                                                *)

DbGone(db) ==
  /\ Fault
  /\ db \in listed /\ listed' = listed \ {db}
  /\ UNCHANGED <<tableVars, targetVars, thr, cut>>

Abort(t) ==
  /\ Fault
  /\ ~At(t, "idle")
  /\ thr' = [thr EXCEPT ![t] = Idle]
  /\ cut' = cut \cup {thr[t].order}
  /\ UNCHANGED <<tableVars, listed, targetVars>>

-----------------------------------------------------------------------------
GoesOn(t) ==
  \/ \E ip \in Ip : GrantOne(t, ip) \/ GrantOneFails(t, ip)
  \/ FlushPrivileges(t) \/ SetAccountInfo(t) \/ SetSucced(t) \/ SetFailed(t)

Requests ==
  \/ \E o \in OrderId, lines \in SUBSET (Ip \cup {NoIp}), db \in Db,
       spec \in SpecAccount \cup {AutoGen} : Apply(o, lines, db, spec)
  \/ \E o \in used : DelOrder(o) \/ \E t \in Thread : GrantBegin(t, o)

Next ==
  \/ Requests
  \/ \E t \in Thread : GoesOn(t) \/ Abort(t)
  \/ \E db \in Db : DbGone(db)

Spec == Init /\ [][Next]_vars
==============================================================================
