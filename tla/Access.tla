-------------------------------- MODULE Access --------------------------------
(***************************************************************************)
(* Who may see which server: departments collected from LDAP               *)
(* (ui/task/collect_department.py), the servers an administrator selects   *)
(* for a department (ui/controller/permission.py), and the rows of users   *)
(* with their roles, written at login (ui/controller/user.py).             *)
(*                                                                         *)
(* The tables have no unique keys.  A collector is forked every minute     *)
(* whether or not the one before has ended; commit compares and writes in  *)
(* three statements; login looks for the user and writes in two or three.  *)
(***************************************************************************)
EXTENDS Naturals

CONSTANTS
  Collector,   \* processes of collect_department, each with many runs
  Thread,      \* threads of the server
  DeptId,      \* ids of departments that requests name, whether or not there is such a row
  Group,       \* LDAP groups with the project xsql
  AllUser,     \* 'all-user'
  Excluded,    \* 'xueqiu'
  Server,      \* ids of mysql_server
  User,
  NoDept, NoUser,
  MaxEvents    \* bound on commits, logins, changes in LDAP, deleted servers,
               \* promotions, and requests and runs that are cut short

ASSUME AccessAssumption ==
  /\ {AllUser, Excluded} \subseteq Group /\ AllUser # Excluded
  /\ NoDept \notin DeptId /\ NoUser \notin User
  /\ MaxEvents \in Nat

VARIABLES
  ldap,        \* the groups there are
  deptRows,    \* department: how many rows a name has
  selected,    \* dept_server: how many rows there are for a department and a server
  servers,     \* mysql_server
  userRows,    \* user_info: how many rows a user has
  roles,       \* and the roles in them
  col,         \* per collector: the names that its run has still to insert
  thr,         \* per thread: program point and locals of a commit or a login
  \* History; only properties read it.
  double,      \* names that two collectors were about to insert at once
  batch,       \* per department, the selections of the commits that overlapped last
  torn,        \* departments of which a commit was cut short in that batch
  raced,       \* rows that two commits, and users that two logins, were to insert
  promoted,    \* users made administrators
  stale,       \* and those of which a login held the old role then
  events

accessVars  == <<selected, batch, torn, raced>>
userVars    == <<userRows, roles, promoted, stale>>
collectVars == <<deptRows, col, double>>
vars == <<ldap, servers, accessVars, userVars, collectVars, thr, events>>

\* The role of a new user.
NoRole == ""

Idle == [pc |-> "idle", dept |-> NoDept, sel |-> {}, add |-> {}, del |-> {},
         user |-> NoUser, role |-> NoRole]

At(t, point) == thr[t].pc = point

Init ==
  /\ ldap = Group
  /\ deptRows = [g \in Group |-> 0]
  /\ selected = [x \in DeptId \X Server |-> 0]
  /\ servers = Server
  /\ userRows = [u \in User |-> 0] /\ roles = [u \in User |-> {}]
  /\ col = [c \in Collector |-> {}] /\ thr = [t \in Thread |-> Idle]
  /\ double = {} /\ batch = [d \in DeptId |-> {}] /\ torn = {}
  /\ raced = {} /\ promoted = {} /\ stale = {}
  /\ events = 0

Event == events < MaxEvents /\ events' = events + 1

-----------------------------------------------------------------------------
(* collect_department.run *)

KnownNames == {g \in Group : deptRows[g] > 0}

\* The rows that run leaves out of its list of names: remove('all-user') takes out the
\* first such name and keeps the others.
Removed(g) == IF g = AllUser THEN 1 ELSE 0

ListedNames == {g \in Group : deptRows[g] > Removed(g)}

\* A variant for mutation: the name of the company counts as a department.
ToAddAll(groups) == groups \ ListedNames

\* A variant for mutation: names are looked for only when the table is empty.
ToAddOnce(groups) == IF KnownNames = {} THEN groups \ {Excluded} ELSE {}

\* A variant for mutation: every 'all-user' is taken out of the list.
ToAddEvery(groups) == groups \ ((ListedNames \ {AllUser}) \cup {Excluded})

\* A name that is not in the list is new; one row of 'all-user' is not enough for that
\* name to be in it, two are.
ToAdd(groups) == groups \ (ListedNames \cup {Excluded})

\* LDAP is asked until it answers, then the table is read and compared with the
\* answer; a run with nothing to add ends at once.
CollectRead(c) ==
  /\ col[c] = {}
  /\ LET new == ToAdd(ldap) IN
     /\ col' = [col EXCEPT ![c] = new]
     /\ double' = double \cup UNION {new \cap col[b] : b \in Collector \ {c}}
  /\ UNCHANGED <<ldap, servers, accessVars, userVars, deptRows, thr, events>>

\* addEnDepartments: one INSERT after the other; the last one ends the run.
CollectInsert(c, g) ==
  /\ g \in col[c]
  /\ deptRows' = [deptRows EXCEPT ![g] = @ + 1]
  /\ col' = [col EXCEPT ![c] = @ \ {g}]
  /\ UNCHANGED <<ldap, servers, accessVars, userVars, double, thr, events>>

\* An INSERT that raises, or the restart script, ends the process.
CollectAbort(c) ==
  /\ Event
  /\ col[c] # {}
  /\ col' = [col EXCEPT ![c] = {}]
  /\ UNCHANGED <<ldap, servers, accessVars, userVars, deptRows, double, thr>>

LdapChanges(g) ==
  /\ Event
  /\ ldap' = IF g \in ldap THEN ldap \ {g} ELSE ldap \cup {g}
  /\ UNCHANGED <<servers, accessVars, userVars, collectVars, thr>>

-----------------------------------------------------------------------------
(* permission.commit *)

Busy(d) == {t \in Thread : thr[t].dept = d}

\* loadServerByIpList: the selected servers that exist.  safeId accepts any number for
\* the department.
CommitBegin(t, d, sel) ==
  /\ Event
  /\ At(t, "idle")
  /\ LET dst == sel \cap servers IN
     /\ thr' = [thr EXCEPT ![t] = [Idle EXCEPT !.pc = "diff", !.dept = d, !.sel = dst]]
     /\ batch' = [batch EXCEPT ![d] = IF Busy(d) = {} THEN {dst} ELSE @ \cup {dst}]
  /\ torn' = IF Busy(d) = {} THEN torn \ {d} ELSE torn
  /\ UNCHANGED <<ldap, servers, selected, raced, userVars, collectVars>>

Allowed(d) == {s \in Server : selected[<<d, s>>] > 0}

\* A variant for mutation: what is no longer selected is kept.
DiffNoDel(src, dst) == [add |-> dst \ src, del |-> {}]

diffServerIdList(src, dst) == [add |-> dst \ src, del |-> src \ dst]

\* getServerByDeptId joins the rows with the servers there are.
CommitDiff(t) ==
  /\ At(t, "diff")
  /\ LET d    == thr[t].dept
         diff == diffServerIdList(Allowed(d) \cap servers, thr[t].sel)
     IN /\ thr' = [thr EXCEPT ![t].pc = "add", ![t].add = diff.add, ![t].del = diff.del]
        /\ raced' = raced \cup {<<d, s>> : s \in diff.add \cap
                      UNION {thr[u].add : u \in {x \in Busy(d) \ {t} : At(x, "add")}}}
  /\ UNCHANGED <<ldap, servers, selected, batch, torn, userVars, collectVars, events>>

\* addDeptIdServerIds: one INSERT of several rows; none when there is nothing to add.
CommitAdd(t) ==
  /\ At(t, "add")
  /\ selected' = [x \in DeptId \X Server |->
        selected[x] + (IF x[1] = thr[t].dept /\ x[2] \in thr[t].add THEN 1 ELSE 0)]
  /\ thr' = [thr EXCEPT ![t].pc = "del", ![t].add = {}]
  /\ UNCHANGED <<ldap, servers, batch, torn, raced, userVars, collectVars, events>>

\* delDeptIdServerIds: one DELETE.
CommitDel(t) ==
  /\ At(t, "del")
  /\ selected' = [x \in DeptId \X Server |->
        IF x[1] = thr[t].dept /\ x[2] \in thr[t].del THEN 0 ELSE selected[x]]
  /\ thr' = [thr EXCEPT ![t] = Idle]
  /\ UNCHANGED <<ldap, servers, batch, torn, raced, userVars, collectVars, events>>

\* The deletion of a server leaves its rows in dept_server.
ServerDeleted(s) ==
  /\ Event
  /\ s \in servers /\ servers' = servers \ {s}
  /\ UNCHANGED <<ldap, accessVars, userVars, collectVars, thr>>

-----------------------------------------------------------------------------
(* user.auth after LDAP has let the user in *)

\* isUserExist
LoginCheck(t, u) ==
  /\ Event
  /\ At(t, "idle")
  /\ thr' = [thr EXCEPT ![t] = [Idle EXCEPT !.user = u,
                 !.pc = IF userRows[u] > 0 THEN "loadRole" ELSE "addUser"]]
  /\ raced' = IF userRows[u] = 0 /\ \E o \in Thread : At(o, "addUser") /\ thr[o].user = u
              THEN raced \cup {u} ELSE raced
  /\ UNCHANGED <<ldap, servers, selected, batch, torn, userVars, collectVars>>

\* loadRoleByDomainName: the first row, and no order is stated.
LoginLoadRole(t) ==
  /\ At(t, "loadRole")
  /\ \E r \in roles[thr[t].user] : thr' = [thr EXCEPT ![t].pc = "update", ![t].role = r]
  /\ UNCHANGED <<ldap, servers, accessVars, userVars, collectVars, events>>

\* A variant for mutation: the role is not read before it is written.
RoleForgotten(t) == NoRole

\* The role that updateUserByDomainName writes back.
RoleOf(t) == thr[t].role

LoginUpdate(t) ==
  /\ At(t, "update")
  /\ roles' = [roles EXCEPT ![thr[t].user] = {RoleOf(t)}]
  /\ thr' = [thr EXCEPT ![t] = Idle]
  /\ UNCHANGED <<ldap, servers, accessVars, userRows, promoted, stale, collectVars, events>>

\* addUser
LoginAdd(t) ==
  /\ At(t, "addUser")
  /\ userRows' = [userRows EXCEPT ![thr[t].user] = @ + 1]
  /\ roles' = [roles EXCEPT ![thr[t].user] = @ \cup {NoRole}]
  /\ thr' = [thr EXCEPT ![t] = Idle]
  /\ UNCHANGED <<ldap, servers, accessVars, promoted, stale, collectVars, events>>

\* An operator makes a user an administrator, by hand.
Promote(u) ==
  /\ Event
  /\ userRows[u] > 0
  /\ roles' = [roles EXCEPT ![u] = {"admin"}]
  /\ promoted' = promoted \cup {u}
  /\ stale' = IF \E t \in Thread : At(t, "update") /\ thr[t].user = u
              THEN stale \cup {u} ELSE stale
  /\ UNCHANGED <<ldap, servers, accessVars, userRows, collectVars, thr>>

\* An exception of the database or the restart script, at any statement.
Abort(t) ==
  /\ Event
  /\ ~At(t, "idle")
  /\ thr' = [thr EXCEPT ![t] = Idle]
  /\ torn' = torn \cup ({thr[t].dept} \ {NoDept})
  /\ UNCHANGED <<ldap, servers, selected, batch, raced, userVars, collectVars>>

-----------------------------------------------------------------------------
CollectorStep(c) ==
  CollectRead(c) \/ \E g \in Group : CollectInsert(c, g)

CommitStep(t) == CommitDiff(t) \/ CommitAdd(t) \/ CommitDel(t)

LoginStep(t) == LoginLoadRole(t) \/ LoginUpdate(t) \/ LoginAdd(t)

Requests(t) ==
  \/ \E d \in DeptId, sel \in SUBSET Server : CommitBegin(t, d, sel)
  \/ \E u \in User : LoginCheck(t, u)

Events ==
  \/ \E c \in Collector : CollectAbort(c)
  \/ \E g \in Group : LdapChanges(g)
  \/ \E s \in Server : ServerDeleted(s)
  \/ \E u \in User : Promote(u)
  \/ \E t \in Thread : Abort(t)

Next ==
  \/ \E c \in Collector : CollectorStep(c)
  \/ \E t \in Thread : Requests(t) \/ CommitStep(t) \/ LoginStep(t)
  \/ Events

Spec == Init /\ [][Next]_vars

\* The loop of collect_department forks a run every minute, and LDAP answers in the end.
FairSpec == Spec /\ \A c \in Collector : WF_vars(CollectorStep(c))
=============================================================================
