----------------------------- MODULE Inventory -----------------------------
(***************************************************************************)
(* The inventory of servers, their MySQL instances and the databases of    *)
(* each instance.  Administrators add, edit and delete servers; the puller,*)
(* a process on another host, asks the web server for servers and          *)
(* instances, detects the databases of each, and posts the differences.    *)
(*                                                                         *)
(* The MySQL instances are external: their databases come and go, and a    *)
(* detection may fail.  A step ends at each statement, each HTTP call and  *)
(* each detection.  The handler of a call whose caller gave up goes on.    *)
(***************************************************************************)
EXTENDS Naturals, FiniteSets

CONSTANTS
  Admin,         \* threads of the web server that serve administrators
  Ip, Port,      \* addresses
  Db,            \* names of databases
  NoIp,          \* value of server[s] while the row does not exist
  DetectTables,  \* setting IS_DETECT_TABLE of the puller
  MaxServers, MaxInstances,            \* bounds: ids to hand out
  MaxRequests, MaxChanges, MaxFaults   \* bounds

ASSUME InventoryAssumption ==
  /\ NoIp \notin Ip /\ DetectTables \in BOOLEAN
  /\ MaxServers \in Nat /\ MaxInstances \in Nat
  /\ MaxRequests \in Nat /\ MaxChanges \in Nat /\ MaxFaults \in Nat

VARIABLES
  server, servers,  \* mysql_server: the ip of each id; the last id
  instance, instances, \* mysql_instance: the rows; the last id
  stored,           \* mysql_ins_db: how many rows for an instance and a name
  adm,              \* locals of the administrators' requests
  pul,              \* locals of the puller
  late,             \* handlers that go on after their caller gave up
  actual,           \* the databases that exist at an address
  \* What happened; only properties read these.
  seen,             \* per instance, databases some detection found
  missed,           \* per instance, databases a detection that found others did not
  raced,            \* rows that two handlers were about to insert at once
  reqs, changes, faults

serverVars   == <<server, servers>>
instanceVars == <<instance, instances>>
tableVars    == <<serverVars, instanceVars, stored>>
noteVars     == <<seen, missed, raced>>
bounds       == <<reqs, changes, faults>>
vars == <<tableVars, adm, pul, late, actual, noteVars, bounds>>

ServerId   == 1 .. MaxServers
InstanceId == 1 .. MaxInstances
NoServer   == 0  \* an instance may carry this id, or one of no server: see AddServer
Instance   == [id: InstanceId, server: ServerId \cup {NoServer}, port: Port]
Row        == InstanceId \X Db
NoRow      == <<>>

AdminIdle  == [pc |-> "idle", server |-> NoServer, ip |-> NoIp, ports |-> {}, ids |-> {}]
PullerIdle == [pc |-> "idle", servers |-> {}, ip |-> NoIp, todo |-> {},
               ins |-> 0, found |-> {}, del |-> {}, add |-> {}, row |-> NoRow]

Init ==
  /\ server = [s \in ServerId |-> NoIp] /\ servers = 0
  /\ instance = {} /\ instances = 0
  /\ stored = [r \in Row |-> 0]
  /\ adm = [a \in Admin |-> AdminIdle]
  /\ pul = PullerIdle
  /\ late = {}
  /\ actual \in [Ip \X Port -> (SUBSET Db) \ {{}}]
  /\ seen = {} /\ missed = {} /\ raced = {}
  /\ reqs = 0 /\ changes = 0 /\ faults = 0

Accept == reqs < MaxRequests /\ reqs' = reqs + 1 /\ UNCHANGED <<changes, faults>>
Fault  == faults < MaxFaults /\ faults' = faults + 1 /\ UNCHANGED <<reqs, changes>>
Steady == UNCHANGED bounds

\* MySQL databases are created and dropped; information_schema cannot be.
Change ==
  /\ changes < MaxChanges /\ changes' = changes + 1
  /\ \E x \in Ip \X Port, D \in (SUBSET Db) \ {{}} : actual' = [actual EXCEPT ![x] = D]
  /\ UNCHANGED <<tableVars, adm, pul, late, noteVars, reqs, faults>>

-----------------------------------------------------------------------------
(* Administrators *)

IpExists(ip) == \E s \in ServerId : server[s] = ip

\* Add: the name and the address must be new.
AddBegin(a, ip, ports) ==
  /\ adm[a].pc = "idle" /\ Accept
  /\ ~IpExists(ip)
  /\ adm' = [adm EXCEPT ![a] = [AdminIdle EXCEPT !.pc = "add", !.ip = ip, !.ports = ports]]
  /\ UNCHANGED <<tableVars, pul, late, actual, noteVars>>

\* lastrowid() is that of the connection object that all threads share: a
\* statement of another thread in between replaces it.
AddServer(a) ==
  /\ adm[a].pc = "add" /\ servers < MaxServers
  /\ servers' = servers + 1
  /\ server' = [server EXCEPT ![servers'] = adm[a].ip]
  /\ \E s \in ServerId \cup {NoServer} :
       /\ IF s = servers' THEN Steady ELSE Fault
       /\ adm' = [adm EXCEPT ![a].pc = "insert", ![a].server = s]
  /\ UNCHANGED <<instanceVars, stored, pul, late, actual, noteVars>>

\* Edit, from a page that may be older than the deletion of its server: a new
\* address must be free.
EditBegin(a, s, ip, ports) ==
  /\ adm[a].pc = "idle" /\ Accept
  /\ IpExists(ip) => server[s] = ip
  /\ adm' = [adm EXCEPT ![a] = [AdminIdle EXCEPT !.pc = "update", !.server = s,
                                                 !.ip = ip, !.ports = ports]]
  /\ UNCHANGED <<tableVars, pul, late, actual, noteVars>>

EditUpdate(a) ==
  /\ adm[a].pc = "update"
  /\ server' = [server EXCEPT ![adm[a].server] = IF @ = NoIp THEN NoIp ELSE adm[a].ip]
  /\ adm' = [adm EXCEPT ![a].pc = "replace"]
  /\ Steady
  /\ UNCHANGED <<servers, instanceVars, stored, pul, late, actual, noteVars>>

InstancesOf(s) == {i \in instance : i.server = s}

\* Edit deletes the instances and inserts them again, with new ids; the
\* databases of the old ids stay.
EditReplace(a) ==
  /\ adm[a].pc = "replace"
  /\ instance' = instance \ InstancesOf(adm[a].server)
  /\ adm' = [adm EXCEPT ![a].pc = "insert"]
  /\ Steady
  /\ UNCHANGED <<serverVars, instances, stored, pul, late, actual, noteVars>>

\* The last statements of add and edit, one per instance.
InsertInstance(a) ==
  /\ adm[a].pc = "insert" /\ instances < MaxInstances
  /\ \E p \in adm[a].ports :
       /\ instances' = instances + 1
       /\ instance' = instance \cup {[id |-> instances', server |-> adm[a].server, port |-> p]}
       /\ adm' = [adm EXCEPT ![a] =
                    IF adm[a].ports = {p} THEN AdminIdle
                    ELSE [adm[a] EXCEPT !.ports = @ \ {p}]]
  /\ Steady
  /\ UNCHANGED <<serverVars, stored, pul, late, actual, noteVars>>

\* The instances whose databases go are read first, by the id of the model
\* object: delete takes the id as a parameter and leaves that of the object 0.
DeleteBegin(a, s) ==
  /\ adm[a].pc = "idle" /\ Accept
  /\ adm' = [adm EXCEPT ![a] = [AdminIdle EXCEPT !.pc = "delete", !.server = s,
                                  !.ids = {i.id : i \in InstancesOf(NoServer)}]]
  /\ UNCHANGED <<tableVars, pul, late, actual, noteVars>>

DeleteServer(a) ==
  /\ adm[a].pc = "delete"
  /\ server' = [server EXCEPT ![adm[a].server] = NoIp]
  /\ adm' = [adm EXCEPT ![a].pc = "deleteInstances"]
  /\ Steady
  /\ UNCHANGED <<servers, instanceVars, stored, pul, late, actual, noteVars>>

DeleteInstances(a) ==
  /\ adm[a].pc = "deleteInstances"
  /\ instance' = instance \ InstancesOf(adm[a].server)
  /\ adm' = [adm EXCEPT ![a] = IF @.ids = {} THEN AdminIdle
                               ELSE [@ EXCEPT !.pc = "deleteDbs"]]
  /\ Steady
  /\ UNCHANGED <<serverVars, instances, stored, pul, late, actual, noteVars>>

DeleteRows(S) == stored' = [r \in Row |-> IF r \in S THEN 0 ELSE stored[r]]

DeleteDbs(a) ==
  /\ adm[a].pc = "deleteDbs"
  /\ DeleteRows(adm[a].ids \X Db)
  /\ adm' = [adm EXCEPT ![a] = AdminIdle]
  /\ Steady
  /\ UNCHANGED <<serverVars, instanceVars, pul, late, actual, noteVars>>

\* An exception or a restart ends a request between two statements.
AdminFails(a) ==
  /\ adm[a].pc # "idle" /\ Fault
  /\ adm' = [adm EXCEPT ![a] = AdminIdle]
  /\ UNCHANGED <<tableVars, pul, late, actual, noteVars>>

-----------------------------------------------------------------------------
(* The puller: one round *)

\* What the puller turns to when it has done with a server, an instance or a row.
Onward(p) ==
  IF p.add # {} THEN [p EXCEPT !.pc = "add"]
  ELSE IF p.todo # {} THEN [p EXCEPT !.pc = "instances"]
  ELSE IF p.servers # {} THEN [p EXCEPT !.pc = "servers"]
  ELSE PullerIdle

\* A variant for mutation: deleted rows are listed too.
AllServerRows == {<<s, server[s]>> : s \in ServerId}

ServerRows == {<<s, server[s]>> : s \in {t \in ServerId : server[t] # NoIp}}

\* get_mysql_servers.
PullServers ==
  /\ pul.pc = "idle"
  /\ pul' = Onward([PullerIdle EXCEPT !.servers = ServerRows])
  /\ Steady
  /\ UNCHANGED <<tableVars, adm, late, actual, noteVars>>

\* get_ins_by_server_id: the address of the server is the one read before.
PullInstances ==
  /\ pul.pc = "servers"
  /\ \E s \in pul.servers :
       pul' = Onward([pul EXCEPT !.servers = @ \ {s}, !.ip = s[2],
                                 !.todo = InstancesOf(s[1])])
  /\ Steady
  /\ UNCHANGED <<tableVars, adm, late, actual, noteVars>>

\* A variant for mutation: the list of databases is not emptied for an instance.
AllDetected(names) == pul.found \cup names

\* A new Instance object begins with no databases.
Detected(names) == names

\* A variant for mutation: a failed detection is compared as well.
WorthComparing(ok, names) == TRUE

\* A detection that failed is compared all the same if it got hold of a database.
Comparable(ok, names) == ok \/ names # {}

\* Instance.detect, and the branch on its status.
DetectionEnds(i, ok, names) ==
  LET p == [pul EXCEPT !.todo = @ \ {i}, !.ins = i.id, !.found = Detected(names)] IN
  /\ pul' = IF Comparable(ok, p.found) THEN [p EXCEPT !.pc = "compare"] ELSE Onward(p)
  /\ seen' = seen \cup ({i.id} \X names)
  /\ missed' = IF names = {} THEN missed ELSE missed \cup ({i.id} \X (Db \ names))

\* A failing detection found nothing or, when it looks into every database,
\* those before the failure.
Detect ==
  /\ pul.pc = "instances"
  /\ \E i \in pul.todo :
       LET there == actual[<<pul.ip, i.port>>] IN
       \/ DetectionEnds(i, TRUE, there) /\ Steady
       \/ \E names \in IF DetectTables THEN SUBSET there ELSE {{}} :
            DetectionEnds(i, FALSE, names) /\ Fault
  /\ UNCHANGED <<tableVars, adm, late, actual, raced>>

StoredRows == {r \in Row : r[1] = pul.ins /\ stored[r] > 0}
FoundRows  == {pul.ins} \X pul.found

\* A variant for mutation: nothing is ever deleted.
NothingGone == {}

Gone == StoredRows \ FoundRows

\* get_dbs_by_ins_id and the two differences.
Compare ==
  /\ pul.pc = "compare"
  /\ LET p == [pul EXCEPT !.del = Gone, !.add = FoundRows \ StoredRows] IN
     pul' = IF p.del = {} THEN Onward(p) ELSE [p EXCEPT !.pc = "del"]
  /\ Steady
  /\ UNCHANGED <<tableVars, adm, late, actual, noteVars>>

\* del_dbs_by_ins_id.
DelDbs ==
  /\ pul.pc = "del"
  /\ DeleteRows(pul.del)
  /\ pul' = Onward([pul EXCEPT !.del = {}])
  /\ Steady
  /\ UNCHANGED <<serverVars, instanceVars, adm, late, actual, noteVars>>

\* A variant for mutation: add_db_by_ins_id does not look.
IsExistsNever(r) == FALSE

IsExists(r) == stored[r] > 0

\* Row r is about to be inserted by a handler that found it missing.
AboutToInsert(r) ==
  \/ pul.pc = "insert" /\ pul.row = r
  \/ \E h \in late : h.pc = "insert" /\ h.rows = {r}

NoteRace(r) == raced' = IF AboutToInsert(r) THEN raced \cup {r} ELSE raced

\* add_db_by_ins_id: the SELECT; a row that exists is an error the puller logs.
AddCheck ==
  /\ pul.pc = "add"
  /\ \E r \in pul.add :
       LET p == [pul EXCEPT !.add = @ \ {r}] IN
       IF IsExists(r)
       THEN pul' = Onward(p) /\ raced' = raced
       ELSE pul' = [p EXCEPT !.pc = "insert", !.row = r] /\ NoteRace(r)
  /\ Steady
  /\ UNCHANGED <<tableVars, adm, late, actual, seen, missed>>

\* add_db_by_ins_id: the INSERT.
AddInsert ==
  /\ pul.pc = "insert"
  /\ stored' = [stored EXCEPT ![pul.row] = @ + 1]
  /\ pul' = Onward([pul EXCEPT !.row = NoRow])
  /\ Steady
  /\ UNCHANGED <<serverVars, instanceVars, adm, late, actual, noteVars>>

\* The call in progress and the rows its handler has to deal with; a number
\* tells abandoned handlers apart.
Calls ==
  {[pc |-> pul.pc, rows |-> S, no |-> faults] :
     S \in CASE pul.pc = "del"    -> {pul.del}
             [] pul.pc = "add"    -> {{r} : r \in pul.add}
             [] pul.pc = "insert" -> {{pul.row}}
             [] OTHER -> {}}

\* The puller gets no answer to a call and goes on; the handler may, too.
LoseAnswer ==
  /\ \E c \in Calls :
       /\ pul' = Onward([pul EXCEPT !.del = {}, !.row = NoRow,
                           !.add = IF c.pc = "add" THEN @ \ c.rows ELSE @])
       /\ late' \in {late, late \cup {c}}
  /\ Fault
  /\ UNCHANGED <<tableVars, adm, actual, noteVars>>

\* An exception or a restart ends the round.
RoundCut ==
  /\ pul.pc # "idle"
  /\ pul' = PullerIdle
  /\ late' \in {late} \cup {late \cup {c} : c \in Calls}
  /\ Fault
  /\ UNCHANGED <<tableVars, adm, actual, noteVars>>

-----------------------------------------------------------------------------
(* Handlers whose caller gave up *)

LateDelete(h) ==
  /\ h.pc = "del"
  /\ DeleteRows(h.rows)
  /\ late' = late \ {h}
  /\ Steady
  /\ UNCHANGED <<serverVars, instanceVars, adm, pul, actual, noteVars>>

LateCheck(h, r) ==
  /\ h.pc = "add" /\ h.rows = {r}
  /\ IF IsExists(r)
     THEN late' = late \ {h} /\ raced' = raced
     ELSE late' = (late \ {h}) \cup {[h EXCEPT !.pc = "insert"]} /\ NoteRace(r)
  /\ Steady
  /\ UNCHANGED <<tableVars, adm, pul, actual, seen, missed>>

LateInsert(h, r) ==
  /\ h.pc = "insert" /\ h.rows = {r}
  /\ stored' = [stored EXCEPT ![r] = @ + 1]
  /\ late' = late \ {h}
  /\ Steady
  /\ UNCHANGED <<serverVars, instanceVars, adm, pul, actual, noteVars>>

\* The web server is restarted, or the statement fails; the bound on faults has
\* counted the call already.
LateFails(h) ==
  /\ late' = late \ {h}
  /\ Steady
  /\ UNCHANGED <<tableVars, adm, pul, actual, noteVars>>

-----------------------------------------------------------------------------
AdminGoesOn(a) ==
  \/ AddServer(a) \/ EditUpdate(a) \/ EditReplace(a) \/ InsertInstance(a)
  \/ DeleteServer(a) \/ DeleteInstances(a) \/ DeleteDbs(a)

AdminBegins(a) ==
  \E ports \in (SUBSET Port) \ {{}}, ip \in Ip :
    \/ AddBegin(a, ip, ports)
    \/ \E s \in 1 .. servers : EditBegin(a, s, ip, ports)

PullerStep ==
  \/ PullServers \/ PullInstances \/ Detect \/ Compare
  \/ DelDbs \/ AddCheck \/ AddInsert

LateStep(h) == LateDelete(h) \/ \E r \in h.rows : LateCheck(h, r) \/ LateInsert(h, r)

Next ==
  \/ Change
  \/ \E a \in Admin :
       \/ AdminBegins(a) \/ AdminGoesOn(a) \/ AdminFails(a)
       \/ \E s \in 1 .. servers : DeleteBegin(a, s)
  \/ PullerStep \/ LoseAnswer \/ RoundCut
  \/ \E h \in late : LateStep(h) \/ LateFails(h)

Spec == Init /\ [][Next]_vars

\* The puller's loop goes on after any error; a request that was begun and a
\* handler that was abandoned get the processor again.
Fairness ==
  /\ WF_vars(PullerStep)
  /\ WF_vars(\E h \in late : LateStep(h))
  /\ \A a \in Admin : WF_vars(AdminGoesOn(a))

FairSpec == Spec /\ Fairness
=============================================================================
