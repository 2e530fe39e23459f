------------------------ MODULE InventoryProperties ------------------------
(***************************************************************************)
(* What the puller makes of the inventory, whatever administrators do.     *)
(***************************************************************************)
EXTENDS Inventory

Request ==
  [pc: {"idle", "add", "insert", "update", "replace", "delete", "deleteInstances", "deleteDbs"},
   server: ServerId \cup {NoServer}, ip: Ip \cup {NoIp}, ports: SUBSET Port,
   ids: SUBSET InstanceId]

Puller ==
  [pc: {"idle", "servers", "instances", "compare", "del", "add", "insert"},
   servers: SUBSET (ServerId \X Ip), ip: Ip \cup {NoIp}, todo: SUBSET Instance,
   ins: InstanceId \cup {0}, found: SUBSET Db,
   del: SUBSET Row, add: SUBSET Row, row: Row \cup {NoRow}]

Handler == [pc: {"del", "add", "insert"}, rows: SUBSET Row, no: Nat]

\* Types of the tables, of the actors' locals and of the history.
TypeOK ==
  /\ server \in [ServerId -> Ip \cup {NoIp}] /\ servers \in 0 .. MaxServers
  /\ instance \subseteq Instance /\ instances \in 0 .. MaxInstances
  /\ stored \in [Row -> Nat]
  /\ adm \in [Admin -> Request]
  /\ pul \in Puller
  /\ pul.pc = "compare" => pul.ins \in InstanceId
  /\ pul.pc = "insert" => pul.row \in Row
  /\ late \subseteq Handler
  /\ actual \in [Ip \X Port -> (SUBSET Db) \ {{}}]
  /\ seen \subseteq Row /\ missed \subseteq Row /\ raced \subseteq Row
  /\ reqs \in Nat /\ changes \in Nat /\ faults \in Nat

-----------------------------------------------------------------------------
(* Guarantees *)

\* A database is stored for an instance only if a detection of that very
\* instance found it, although ids are replaced by edits during a round, calls
\* are abandoned, and their handlers run in the middle of later rounds.
StoredWasDetected == \A r \in Row : stored[r] > 0 => r \in seen

\* A database is stored twice for an instance only if two handlers were between
\* their check and their insert at the same time.
DuplicatesNeedARace == \A r \in Row : stored[r] > 1 => r \in raced

\* A stored database goes only when a detection that found something did not
\* find it, or with the deletion of a server: an instance out of reach keeps its
\* databases.
NothingDroppedUnseen ==
  [][\A r \in Row : stored[r] > 0 /\ stored'[r] = 0 =>
       r \in missed \/ \E a \in Admin : adm[a].pc = "deleteDbs"]_vars

\* What is stored for an instance of a server is what its address has.
Accurate ==
  \A i \in instance :
    \A ip \in Ip : i.server # NoServer /\ server[i.server] = ip =>
      {d \in Db : stored[<<i.id, d>>] > 0} = actual[<<ip, i.port>>]

\* When administrators, databases and failures come to rest, the stored
\* databases become accurate and stay so, whatever stale rounds and abandoned
\* handlers left behind.
Converges == <>[]Accurate

-----------------------------------------------------------------------------
(* A claim of the repository *)

\* model/mysql_server_model.py:45: deleting a server also deletes its instances
\* and the databases of those instances.
DeleteTakesDatabases ==
  [][\A a \in Admin : \A i \in instance :
       /\ adm[a].pc = "deleteInstances" /\ adm'[a].pc = "idle" /\ faults' = faults
       /\ i.server = adm[a].server
       => \A d \in Db : stored'[<<i.id, d>>] = 0]_vars
=============================================================================
