-------------------------- MODULE InventoryProofs --------------------------
(***************************************************************************)
(* Machine-checked proofs about the inventory: types, what is stored was   *)
(* detected, duplicates need a race, nothing is dropped unseen, a deleted  *)
(* server takes only strays, and rounds that go on repair the store.       *)
(***************************************************************************)
EXTENDS InventoryProperties, TLAPS

USE InventoryAssumption
    DEF serverVars, instanceVars, tableVars, noteVars, bounds

\* An instance to be detected has an address.
AddressOK == pul.todo # {} => pul.ip \in Ip

TypeInv == TypeOK /\ AddressOK

\* What the puller is about to post, and what abandoned handlers still have to
\* do, comes from detections.
DetectedInv ==
  /\ pul.pc = "compare" => {pul.ins} \X pul.found \subseteq seen
  /\ pul.add \subseteq seen
  /\ pul.pc = "insert" => pul.row \in seen
  /\ \A h \in late : h.pc # "del" => h.rows \subseteq seen

MissedInv ==
  /\ pul.pc = "compare" => {pul.ins} \X (Db \ pul.found) \subseteq missed
  /\ pul.pc = "del" => pul.del \subseteq missed
  /\ \A h \in late : h.pc = "del" => h.rows \subseteq missed

\* A row without a race is stored, or about to be inserted by one handler, or
\* neither.
PullerInserts(r) == pul.pc = "insert" /\ pul.row = r
LateInserts(h, r) == h \in late /\ h.pc = "insert" /\ h.rows = {r}

SingleFor(r) ==
  /\ stored[r] <= 1
  /\ stored[r] > 0 => ~PullerInserts(r) /\ \A h \in late : ~LateInserts(h, r)
  /\ PullerInserts(r) => \A h \in late : ~LateInserts(h, r)
  /\ \A g, h \in late : LateInserts(g, r) /\ LateInserts(h, r) => g = h

RaceInv == \A r \in Row \ raced : SingleFor(r)

-----------------------------------------------------------------------------
\* Onward only moves the program point, or forgets everything.
LEMMA OnwardFacts ==
  ASSUME NEW p \in Puller, p.todo # {} => p.ip \in Ip
  PROVE  /\ Onward(p) \in Puller
         /\ Onward(p).todo # {} => Onward(p).ip \in Ip
         /\ Onward(p).pc \notin {"compare", "del", "insert"}
         /\ Onward(p).add \subseteq p.add
<1>1. PullerIdle \in Puller
  BY DEF PullerIdle, Puller, NoRow
<1>2. \A q \in {"add", "instances", "servers"} :
        /\ [p EXCEPT !.pc = q] \in Puller
        /\ [p EXCEPT !.pc = q].todo = p.todo /\ [p EXCEPT !.pc = q].ip = p.ip
        /\ [p EXCEPT !.pc = q].pc = q
        /\ [p EXCEPT !.pc = q].add = p.add
  BY DEF Puller
<1>3. PullerIdle.todo = {} /\ PullerIdle.pc = "idle" /\ PullerIdle.add = {}
  BY DEF PullerIdle
<1> QED
  BY <1>1, <1>2, <1>3 DEF Onward

-----------------------------------------------------------------------------
(* Types *)

\* The tables are empty and nobody holds anything.
LEMMA TypeInit == Init => TypeInv
  BY DEF Init, TypeInv, TypeOK, AddressOK, AdminIdle, Request, PullerIdle, Puller, NoRow,
     NoServer, Row

\* Every step is counted against at most one bound.
LEMMA BoundsTyped ==
  ASSUME TypeOK, Accept \/ Fault \/ Steady
  PROVE  reqs' \in Nat /\ changes' \in Nat /\ faults' \in Nat
  BY DEF TypeOK, Accept, Fault, Steady

\* Deleting rows leaves a table of counts, with no count increased.
LEMMA DeleteRowsFacts ==
  ASSUME TypeOK, NEW S, DeleteRows(S)
  PROVE  /\ stored' \in [Row -> Nat]
         /\ \A r \in Row : stored'[r] = stored[r] \/ (r \in S /\ stored'[r] = 0)
<1>1. stored' = [r \in Row |-> IF r \in S THEN 0 ELSE stored[r]]
  BY DEF DeleteRows
<1>2. \A r \in Row : stored'[r] = stored[r] \/ (r \in S /\ stored'[r] = 0)
  BY <1>1
<1>3. stored' \in [Row -> Nat]
  BY <1>1, <1>2 DEF TypeOK
<1> QED
  BY <1>2, <1>3

\* An administrator's step keeps the types.
LEMMA AdminTypes ==
  ASSUME TypeInv, NEW a \in Admin,
         \/ AdminBegins(a) \/ AdminGoesOn(a) \/ AdminFails(a)
         \/ \E s \in 1 .. servers : DeleteBegin(a, s)
  PROVE  TypeInv'
<1> USE DEF TypeInv, AddressOK, noteVars
<1>1. AdminIdle \in Request
  BY DEF AdminIdle, Request, NoServer
<1>2. ASSUME NEW ports \in SUBSET Port, NEW ip \in Ip, AddBegin(a, ip, ports)
      PROVE  TypeInv'
  <2>1. [AdminIdle EXCEPT !.pc = "add", !.ip = ip, !.ports = ports] \in Request
    BY <1>1 DEF Request
  <2> QED
    BY <1>2, <2>1, BoundsTyped DEF AddBegin, TypeOK
<1>3. ASSUME NEW ports \in SUBSET Port, NEW ip \in Ip, NEW s \in ServerId,
             EditBegin(a, s, ip, ports)
      PROVE  TypeInv'
  <2>1. [AdminIdle EXCEPT !.pc = "update", !.server = s, !.ip = ip, !.ports = ports] \in Request
    BY <1>1 DEF Request
  <2> QED
    BY <1>3, <2>1, BoundsTyped DEF EditBegin, TypeOK
<1>4. ASSUME NEW s \in ServerId, DeleteBegin(a, s)
      PROVE  TypeInv'
  <2>1. {i.id : i \in InstancesOf(NoServer)} \subseteq InstanceId
    BY DEF InstancesOf, TypeOK, Instance
  <2>2. [AdminIdle EXCEPT !.pc = "delete", !.server = s,
           !.ids = {i.id : i \in InstancesOf(NoServer)}] \in Request
    BY <1>1, <2>1 DEF Request
  <2> QED
    BY <1>4, <2>2, BoundsTyped DEF DeleteBegin, TypeOK
<1>5. CASE AddServer(a)
  <2>1. PICK s \in ServerId \cup {NoServer} :
          /\ Steady \/ Fault
          /\ adm' = [adm EXCEPT ![a].pc = "insert", ![a].server = s]
    BY <1>5 DEF AddServer
  <2>2. adm' \in [Admin -> Request]
    <3>1. adm' = [adm EXCEPT ![a] = [adm[a] EXCEPT !.pc = "insert", !.server = s]]
      BY <2>1 DEF TypeOK, Request
    <3>2. [adm[a] EXCEPT !.pc = "insert", !.server = s] \in Request
      BY DEF TypeOK, Request
    <3> QED
      BY <3>1, <3>2 DEF TypeOK
  <2>3. servers' \in 0 .. MaxServers
    BY <1>5 DEF AddServer, TypeOK
  <2>4. server' \in [ServerId -> Ip \cup {NoIp}]
    <3>1. adm[a].ip \in Ip \cup {NoIp}
      BY DEF TypeOK, Request
    <3> QED
      BY <1>5, <3>1 DEF AddServer, TypeOK
  <2> QED
    BY <1>5, <2>1, <2>2, <2>3, <2>4, BoundsTyped DEF AddServer, TypeOK
<1>6. CASE EditUpdate(a)
  <2>1. adm' \in [Admin -> Request] /\ server' \in [ServerId -> Ip \cup {NoIp}]
    BY <1>6 DEF EditUpdate, TypeOK, Request
  <2> QED
    BY <1>6, <2>1, BoundsTyped DEF EditUpdate, TypeOK
<1>7. CASE EditReplace(a)
  <2>1. adm' \in [Admin -> Request]
    BY <1>7 DEF EditReplace, TypeOK, Request
  <2> QED
    BY <1>7, <2>1, BoundsTyped DEF EditReplace, TypeOK
<1>8. CASE InsertInstance(a)
  <2>1. PICK p \in adm[a].ports :
          /\ instances' = instances + 1
          /\ instance' = instance \cup {[id |-> instances', server |-> adm[a].server, port |-> p]}
          /\ adm' = [adm EXCEPT ![a] =
                       IF adm[a].ports = {p} THEN AdminIdle
                       ELSE [adm[a] EXCEPT !.ports = @ \ {p}]]
    BY <1>8 DEF InsertInstance
  <2>2. adm[a] \in Request /\ p \in Port /\ adm[a].server \in ServerId \cup {NoServer}
    BY <2>1 DEF TypeOK, Request
  <2>3. [adm[a] EXCEPT !.ports = @ \ {p}] \in Request
    BY <2>2 DEF Request
  <2>4. adm' \in [Admin -> Request]
    <3> DEFINE q == IF adm[a].ports = {p} THEN AdminIdle ELSE [adm[a] EXCEPT !.ports = @ \ {p}]
    <3>2. q \in Request
      <4>1. CASE adm[a].ports = {p}
        BY <1>1, <4>1
      <4>2. CASE adm[a].ports # {p}
        BY <2>3, <4>2
      <4> QED
        BY <4>1, <4>2
    <3>3. adm' = [adm EXCEPT ![a] = q]
      BY <2>1
    <3> HIDE DEF q
    <3> QED
      BY <3>2, <3>3 DEF TypeOK
  <2>5. instances' \in InstanceId
    BY <1>8, <2>1 DEF InsertInstance, TypeOK, InstanceId
  <2>6. instance' \subseteq Instance
    BY <2>1, <2>2, <2>5 DEF TypeOK, Instance
  <2> QED
    BY <1>8, <2>4, <2>5, <2>6, BoundsTyped DEF InsertInstance, TypeOK, InstanceId
<1>9. CASE DeleteServer(a)
  <2>1. adm' \in [Admin -> Request] /\ server' \in [ServerId -> Ip \cup {NoIp}]
    BY <1>9 DEF DeleteServer, TypeOK, Request
  <2> QED
    BY <1>9, <2>1, BoundsTyped DEF DeleteServer, TypeOK
<1>10. CASE DeleteInstances(a)
  <2>1. [adm[a] EXCEPT !.pc = "deleteDbs"] \in Request
    BY DEF TypeOK, Request
  <2>2. adm' \in [Admin -> Request]
    BY <1>1, <1>10, <2>1 DEF DeleteInstances, TypeOK
  <2> QED
    BY <1>10, <2>2, BoundsTyped DEF DeleteInstances, TypeOK
<1>11. CASE DeleteDbs(a)
  <2>1. stored' \in [Row -> Nat]
    BY <1>11, DeleteRowsFacts DEF DeleteDbs
  <2> QED
    BY <1>1, <1>11, <2>1, BoundsTyped DEF DeleteDbs, TypeOK
<1>12. CASE AdminFails(a)
  BY <1>1, <1>12, BoundsTyped DEF AdminFails, TypeOK
<1>13. \A s \in 1 .. servers : s \in ServerId
  BY DEF TypeOK, ServerId
<1> QED
  BY <1>2, <1>3, <1>4, <1>5, <1>6, <1>7, <1>8, <1>9, <1>10, <1>11, <1>12, <1>13
  DEF AdminBegins, AdminGoesOn

\* A detection, of an address the puller knows, leaves the puller well typed.
LEMMA DetectionTypes ==
  ASSUME TypeInv, NEW i \in pul.todo, NEW ok \in BOOLEAN, NEW names \in SUBSET Db,
         DetectionEnds(i, ok, names)
  PROVE  /\ pul' \in Puller /\ (pul'.todo # {} => pul'.ip \in Ip)
         /\ pul'.pc # "insert" /\ (pul'.pc = "compare" => pul'.ins \in InstanceId)
         /\ seen' \subseteq Row /\ missed' \subseteq Row
<1> DEFINE p == [pul EXCEPT !.todo = @ \ {i}, !.ins = i.id, !.found = Detected(names)]
<1>1. i.id \in InstanceId /\ pul.ip \in Ip
  BY DEF TypeInv, TypeOK, AddressOK, Puller, Instance
<1>2. p \in Puller /\ p.ip = pul.ip /\ p.ins = i.id /\ p.found = names
  BY <1>1 DEF TypeInv, TypeOK, Puller, Detected
<1>3. \/ pul' = [p EXCEPT !.pc = "compare"]
      \/ pul' = Onward(p)
  BY DEF DetectionEnds
<1>4. seen' \subseteq Row /\ missed' \subseteq Row
  <2>1. {i.id} \X names \subseteq Row /\ {i.id} \X (Db \ names) \subseteq Row
    BY <1>1 DEF Row
  <2> QED
    BY <2>1 DEF DetectionEnds, TypeInv, TypeOK
<1> HIDE DEF p
<1>5. CASE pul' = [p EXCEPT !.pc = "compare"]
  BY <1>1, <1>2, <1>4, <1>5 DEF Puller
<1>6. CASE pul' = Onward(p)
  BY <1>1, <1>2, <1>4, <1>6, OnwardFacts
<1> QED
  BY <1>3, <1>5, <1>6

\* Puller fields that a step gives new values.
LEMMA PullerTypes ==
  ASSUME TypeInv, PullerStep
  PROVE  TypeInv'
<1> USE DEF TypeInv, AddressOK, noteVars
<1>1. CASE PullServers
  <2> DEFINE p == [PullerIdle EXCEPT !.servers = ServerRows]
  <2>1. ServerRows \subseteq ServerId \X Ip
    BY DEF ServerRows, TypeOK
  <2>2. p \in Puller /\ p.todo = {}
    BY <2>1 DEF PullerIdle, Puller, NoRow
  <2>3. pul' = Onward(p)
    BY <1>1 DEF PullServers
  <2> HIDE DEF p
  <2>4. pul' \in Puller /\ (pul'.todo # {} => pul'.ip \in Ip) /\ pul'.pc \notin {"compare", "insert"}
    BY <2>2, <2>3, OnwardFacts
  <2> QED
    BY <1>1, <2>4, BoundsTyped DEF PullServers, TypeOK
<1>2. CASE PullInstances
  <2>1. PICK s \in pul.servers :
          pul' = Onward([pul EXCEPT !.servers = @ \ {s}, !.ip = s[2], !.todo = InstancesOf(s[1])])
    BY <1>2 DEF PullInstances
  <2> DEFINE p == [pul EXCEPT !.servers = @ \ {s}, !.ip = s[2], !.todo = InstancesOf(s[1])]
  <2>2. s[2] \in Ip /\ InstancesOf(s[1]) \subseteq Instance
    BY DEF TypeOK, Puller, InstancesOf
  <2>3. p \in Puller /\ p.ip \in Ip
    BY <2>2 DEF TypeOK, Puller
  <2> HIDE DEF p
  <2>4. pul' \in Puller /\ (pul'.todo # {} => pul'.ip \in Ip) /\ pul'.pc \notin {"compare", "insert"}
    BY <2>1, <2>3, OnwardFacts DEF p
  <2> QED
    BY <1>2, <2>4, BoundsTyped DEF PullInstances, TypeOK
<1>3. CASE Detect
  <2>1. PICK i \in pul.todo :
          \/ DetectionEnds(i, TRUE, actual[<<pul.ip, i.port>>]) /\ Steady
          \/ \E names \in IF DetectTables THEN SUBSET actual[<<pul.ip, i.port>>] ELSE {{}} :
               DetectionEnds(i, FALSE, names) /\ Fault
    BY <1>3 DEF Detect
  <2>2. actual[<<pul.ip, i.port>>] \in SUBSET Db
    BY DEF TypeOK, Puller, Instance
  <2>3. PICK ok \in BOOLEAN, names \in SUBSET Db : DetectionEnds(i, ok, names) /\ (Steady \/ Fault)
    BY <2>1, <2>2
  <2>4. /\ pul' \in Puller /\ (pul'.todo # {} => pul'.ip \in Ip)
        /\ pul'.pc # "insert" /\ (pul'.pc = "compare" => pul'.ins \in InstanceId)
        /\ seen' \subseteq Row /\ missed' \subseteq Row
    BY <2>3, DetectionTypes
  <2> QED
    BY <1>3, <2>3, <2>4, BoundsTyped DEF Detect, TypeOK
<1>4. CASE Compare
  <2> DEFINE p == [pul EXCEPT !.del = Gone, !.add = FoundRows \ StoredRows]
  <2>1. FoundRows \subseteq Row
    BY <1>4 DEF Compare, FoundRows, TypeOK, Puller, Row
  <2>2. p \in Puller /\ p.todo = pul.todo /\ p.ip = pul.ip
    BY <2>1 DEF Gone, StoredRows, TypeOK, Puller
  <2>3. pul' = Onward(p) \/ pul' = [p EXCEPT !.pc = "del"]
    BY <1>4 DEF Compare
  <2> HIDE DEF p
  <2>4. pul' \in Puller /\ (pul'.todo # {} => pul'.ip \in Ip) /\ pul'.pc \notin {"compare", "insert"}
    <3>1. CASE pul' = Onward(p)
      BY <2>2, <3>1, OnwardFacts
    <3>2. CASE pul' = [p EXCEPT !.pc = "del"]
      BY <2>2, <3>2 DEF Puller
    <3> QED
      BY <2>3, <3>1, <3>2
  <2> QED
    BY <1>4, <2>4, BoundsTyped DEF Compare, TypeOK
<1>5. CASE DelDbs
  <2> DEFINE p == [pul EXCEPT !.del = {}]
  <2>1. p \in Puller /\ p.todo = pul.todo /\ p.ip = pul.ip
    BY DEF TypeOK, Puller
  <2>2. pul' = Onward(p)
    BY <1>5 DEF DelDbs
  <2> HIDE DEF p
  <2>3. pul' \in Puller /\ (pul'.todo # {} => pul'.ip \in Ip) /\ pul'.pc \notin {"compare", "insert"}
    BY <2>1, <2>2, OnwardFacts
  <2>4. stored' \in [Row -> Nat]
    BY <1>5, DeleteRowsFacts DEF DelDbs
  <2> QED
    BY <1>5, <2>3, <2>4, BoundsTyped DEF DelDbs, TypeOK
<1>6. CASE AddCheck
  <2>1. PICK r \in pul.add :
          LET p == [pul EXCEPT !.add = @ \ {r}] IN
          IF IsExists(r)
          THEN pul' = Onward(p) /\ raced' = raced
          ELSE pul' = [p EXCEPT !.pc = "insert", !.row = r] /\ NoteRace(r)
    BY <1>6 DEF AddCheck
  <2> DEFINE p == [pul EXCEPT !.add = @ \ {r}]
  <2>2. p \in Puller /\ p.todo = pul.todo /\ p.ip = pul.ip /\ r \in Row
    BY DEF TypeOK, Puller
  <2>3. raced' \subseteq Row
    BY <2>1, <2>2 DEF NoteRace, TypeOK
  <2>4. pul' = Onward(p) \/ pul' = [p EXCEPT !.pc = "insert", !.row = r]
    BY <2>1
  <2> HIDE DEF p
  <2>5. /\ pul' \in Puller /\ (pul'.todo # {} => pul'.ip \in Ip)
        /\ pul'.pc # "compare" /\ (pul'.pc = "insert" => pul'.row \in Row)
    <3>1. CASE pul' = Onward(p)
      BY <2>2, <3>1, OnwardFacts
    <3>2. CASE pul' = [p EXCEPT !.pc = "insert", !.row = r]
      BY <2>2, <3>2 DEF Puller
    <3> QED
      BY <2>4, <3>1, <3>2
  <2> QED
    BY <1>6, <2>3, <2>5, BoundsTyped DEF AddCheck, TypeOK
<1>7. CASE AddInsert
  <2> DEFINE p == [pul EXCEPT !.row = NoRow]
  <2>1. p \in Puller /\ p.todo = pul.todo /\ p.ip = pul.ip
    BY DEF TypeOK, Puller
  <2>2. pul' = Onward(p)
    BY <1>7 DEF AddInsert
  <2> HIDE DEF p
  <2>3. pul' \in Puller /\ (pul'.todo # {} => pul'.ip \in Ip) /\ pul'.pc \notin {"compare", "insert"}
    BY <2>1, <2>2, OnwardFacts
  <2>4. stored' \in [Row -> Nat]
    BY <1>7 DEF AddInsert, TypeOK
  <2> QED
    BY <1>7, <2>3, <2>4, BoundsTyped DEF AddInsert, TypeOK
<1> QED
  BY <1>1, <1>2, <1>3, <1>4, <1>5, <1>6, <1>7 DEF PullerStep

\* The call in progress takes its rows from the puller.
LEMMA CallFacts ==
  ASSUME TypeOK, NEW c \in Calls
  PROVE  /\ c \in Handler /\ c.pc = pul.pc /\ c.no = faults
         /\ c.pc = "del" => c.rows = pul.del
         /\ c.pc = "add" => \E r \in pul.add : c.rows = {r}
         /\ c.pc = "insert" => c.rows = {pul.row}
<1>1. PICK S \in CASE pul.pc = "del"    -> {pul.del}
                   [] pul.pc = "add"    -> {{r} : r \in pul.add}
                   [] pul.pc = "insert" -> {{pul.row}}
                   [] OTHER -> {} :
        c = [pc |-> pul.pc, rows |-> S, no |-> faults]
  BY DEF Calls
<1>2. CASE pul.pc = "del"
  BY <1>1, <1>2 DEF Handler, TypeOK, Puller
<1>3. CASE pul.pc = "add"
  BY <1>1, <1>3 DEF Handler, TypeOK, Puller
<1>4. CASE pul.pc = "insert"
  BY <1>1, <1>4 DEF Handler, TypeOK, Puller
<1>5. CASE pul.pc \notin {"del", "add", "insert"}
  BY <1>1, <1>5
<1> QED
  BY <1>2, <1>3, <1>4, <1>5

\* What is left of the puller when a call gets no answer, or when the round ends.
LEMMA PullerAfterFault ==
  ASSUME TypeInv, LoseAnswer \/ RoundCut
  PROVE  /\ pul' \in Puller /\ (pul'.todo # {} => pul'.ip \in Ip)
         /\ pul'.pc \notin {"compare", "del", "insert"}
         /\ pul'.add \subseteq pul.add
         /\ late' = late \/ \E c \in Calls : late' = late \cup {c}
<1>1. CASE LoseAnswer
  <2>1. PICK c \in Calls :
          /\ pul' = Onward([pul EXCEPT !.del = {}, !.row = NoRow,
                              !.add = IF c.pc = "add" THEN @ \ c.rows ELSE @])
          /\ late' \in {late, late \cup {c}}
    BY <1>1 DEF LoseAnswer
  <2> DEFINE p == [pul EXCEPT !.del = {}, !.row = NoRow,
                     !.add = IF c.pc = "add" THEN @ \ c.rows ELSE @]
  <2>2. p \in Puller /\ p.todo = pul.todo /\ p.ip = pul.ip /\ p.add \subseteq pul.add
    BY DEF TypeInv, TypeOK, Puller
  <2>3. pul' = Onward(p)
    BY <2>1
  <2> HIDE DEF p
  <2> QED
    BY <2>1, <2>2, <2>3, OnwardFacts DEF TypeInv, AddressOK
<1>2. CASE RoundCut
  <2>1. PullerIdle \in Puller
    BY DEF PullerIdle, Puller, NoRow
  <2> QED
    BY <1>2, <2>1 DEF RoundCut, PullerIdle
<1> QED
  BY <1>1, <1>2

\* A call without answer and the end of a round keep the types.
LEMMA FaultTypes ==
  ASSUME TypeInv, LoseAnswer \/ RoundCut
  PROVE  TypeInv'
<1>1. late' \subseteq Handler
  BY PullerAfterFault, CallFacts DEF TypeInv, TypeOK
<1>2. UNCHANGED <<tableVars, adm, actual, noteVars>> /\ Fault
  BY DEF LoseAnswer, RoundCut
<1> QED
  BY <1>1, <1>2, PullerAfterFault, BoundsTyped DEF TypeInv, TypeOK, AddressOK

\* Handlers without a caller keep the types.
LEMMA LateTypes ==
  ASSUME TypeInv, NEW h \in late, LateStep(h) \/ LateFails(h)
  PROVE  TypeInv'
<1> USE DEF TypeInv, AddressOK
<1>1. CASE LateDelete(h)
  BY <1>1, DeleteRowsFacts, BoundsTyped DEF LateDelete, TypeOK
<1>2. ASSUME NEW r \in h.rows, LateCheck(h, r)
      PROVE  TypeInv'
  <2>1. h \in Handler /\ r \in Row
    BY DEF TypeOK, Handler
  <2>2. [h EXCEPT !.pc = "insert"] \in Handler
    BY <2>1 DEF Handler
  <2>3. late' \subseteq Handler /\ raced' \subseteq Row
    BY <1>2, <2>1, <2>2 DEF LateCheck, NoteRace, TypeOK
  <2> QED
    BY <1>2, <2>3, BoundsTyped DEF LateCheck, TypeOK
<1>3. ASSUME NEW r \in h.rows, LateInsert(h, r)
      PROVE  TypeInv'
  <2>1. r \in Row
    BY DEF TypeOK, Handler
  <2>2. stored' \in [Row -> Nat]
    BY <1>3, <2>1 DEF LateInsert, TypeOK
  <2> QED
    BY <1>3, <2>2, BoundsTyped DEF LateInsert, TypeOK
<1>4. CASE LateFails(h)
  BY <1>4, BoundsTyped DEF LateFails, TypeOK
<1> QED
  BY <1>1, <1>2, <1>3, <1>4 DEF LateStep

\* Every step keeps the types.
LEMMA TypeStep == TypeInv /\ [Next]_vars => TypeInv'
<1> SUFFICES ASSUME TypeInv, [Next]_vars PROVE TypeInv'
  OBVIOUS
<1>1. CASE Change
  <2>1. changes' \in Nat
    BY <1>1 DEF Change, TypeInv, TypeOK
  <2> QED
    BY <1>1, <2>1 DEF Change, TypeInv, TypeOK, AddressOK
<1>2. ASSUME NEW a \in Admin,
             \/ AdminBegins(a) \/ AdminGoesOn(a) \/ AdminFails(a)
             \/ \E s \in 1 .. servers : DeleteBegin(a, s)
      PROVE  TypeInv'
  BY <1>2, AdminTypes
<1>3. CASE PullerStep
  BY <1>3, PullerTypes
<1>4. CASE LoseAnswer \/ RoundCut
  BY <1>4, FaultTypes
<1>5. ASSUME NEW h \in late, LateStep(h) \/ LateFails(h)
      PROVE  TypeInv'
  BY <1>5, LateTypes
<1>6. CASE UNCHANGED vars
  BY <1>6 DEF vars, TypeInv, TypeOK, AddressOK
<1> QED
  BY <1>1, <1>2, <1>3, <1>4, <1>5, <1>6 DEF Next

\* The tables of the inventory, the locals of administrators, puller and
\* handlers, and the history keep their types in every instance.
THEOREM InventoryTypeSafe == Spec => []TypeOK
<1>1. TypeInv => TypeOK
  BY DEF TypeInv
<1> QED
  BY <1>1, TypeInit, TypeStep, PTL DEF Spec

-----------------------------------------------------------------------------
(* What steps do to the puller, the handlers and the rows *)

\* An administrator's step leaves puller, handlers and history alone, and rows
\* go only with the deletion of a server.
LEMMA AdminFrame ==
  ASSUME TypeOK, NEW a \in Admin,
         \/ AdminBegins(a) \/ AdminGoesOn(a) \/ AdminFails(a)
         \/ \E s \in 1 .. servers : DeleteBegin(a, s)
  PROVE  /\ UNCHANGED <<pul, late, noteVars>>
         /\ \A r \in Row : \/ stored'[r] = stored[r]
                           \/ stored'[r] = 0 /\ adm[a].pc = "deleteDbs"
<1>1. CASE DeleteDbs(a)
  BY <1>1, DeleteRowsFacts DEF DeleteDbs
<1>2. CASE ~DeleteDbs(a)
  <2>1. UNCHANGED <<stored, pul, late, noteVars>>
    BY <1>2 DEF AdminBegins, AdminGoesOn, AddBegin, EditBegin, AddServer, EditUpdate,
       EditReplace, InsertInstance, DeleteServer, DeleteInstances, DeleteBegin, AdminFails
  <2> QED
    BY <2>1
<1> QED
  BY <1>1, <1>2

\* Nothing is about to be posted that was not before.
Quiet == pul'.add \subseteq pul.add /\ pul'.pc \notin {"compare", "del", "insert"}

\* Turning to the next server, instance or row prepares no post.
LEMMA QuietSteps ==
  ASSUME TypeInv, PullServers \/ PullInstances \/ DelDbs \/ AddInsert
  PROVE  Quiet
<1> USE DEF TypeInv, AddressOK
<1>1. CASE PullServers
  <2> DEFINE p == [PullerIdle EXCEPT !.servers = ServerRows]
  <2>1. p \in Puller /\ p.todo = {} /\ p.add = {}
    BY DEF PullerIdle, Puller, NoRow, ServerRows, TypeOK
  <2>2. pul' = Onward(p)
    BY <1>1 DEF PullServers
  <2> HIDE DEF p
  <2> QED
    BY <2>1, <2>2, OnwardFacts DEF Quiet
<1>2. CASE PullInstances
  <2>1. PICK s \in pul.servers :
          pul' = Onward([pul EXCEPT !.servers = @ \ {s}, !.ip = s[2], !.todo = InstancesOf(s[1])])
    BY <1>2 DEF PullInstances
  <2> DEFINE p == [pul EXCEPT !.servers = @ \ {s}, !.ip = s[2], !.todo = InstancesOf(s[1])]
  <2>2. s[2] \in Ip /\ InstancesOf(s[1]) \subseteq Instance
    BY DEF TypeOK, Puller, InstancesOf
  <2>3. p \in Puller /\ p.ip \in Ip /\ p.add = pul.add
    BY <2>2 DEF TypeOK, Puller
  <2>4. pul' = Onward(p)
    BY <2>1
  <2> HIDE DEF p
  <2> QED
    BY <2>3, <2>4, OnwardFacts DEF Quiet
<1>3. CASE DelDbs
  <2> DEFINE p == [pul EXCEPT !.del = {}]
  <2>1. p \in Puller /\ p.todo = pul.todo /\ p.ip = pul.ip /\ p.add = pul.add
    BY DEF TypeOK, Puller
  <2>2. pul' = Onward(p)
    BY <1>3 DEF DelDbs
  <2> HIDE DEF p
  <2> QED
    BY <2>1, <2>2, OnwardFacts DEF Quiet
<1>4. CASE AddInsert
  <2> DEFINE p == [pul EXCEPT !.row = NoRow]
  <2>1. p \in Puller /\ p.todo = pul.todo /\ p.ip = pul.ip /\ p.add = pul.add
    BY DEF TypeOK, Puller
  <2>2. pul' = Onward(p)
    BY <1>4 DEF AddInsert
  <2> HIDE DEF p
  <2> QED
    BY <2>1, <2>2, OnwardFacts DEF Quiet
<1> QED
  BY <1>1, <1>2, <1>3, <1>4

\* A detection is noted, and compared only when it found something.
LEMMA DetectFacts ==
  ASSUME TypeInv, Detect
  PROVE  \E i \in pul.todo, names \in SUBSET Db :
           /\ seen' = seen \cup ({i.id} \X names)
           /\ missed' = IF names = {} THEN missed ELSE missed \cup ({i.id} \X (Db \ names))
           /\ pul'.add \subseteq pul.add /\ pul'.pc \notin {"del", "insert"}
           /\ pul'.pc = "compare" => names # {} /\ pul'.ins = i.id /\ pul'.found = names
<1>1. PICK i \in pul.todo :
        \/ DetectionEnds(i, TRUE, actual[<<pul.ip, i.port>>])
        \/ \E names \in IF DetectTables THEN SUBSET actual[<<pul.ip, i.port>>] ELSE {{}} :
             DetectionEnds(i, FALSE, names)
  BY DEF Detect
<1>2. i \in Instance /\ pul.ip \in Ip
  BY DEF TypeInv, TypeOK, AddressOK, Puller
<1>3. actual[<<pul.ip, i.port>>] \in (SUBSET Db) \ {{}}
  BY <1>2 DEF TypeInv, TypeOK, Instance
<1>4. PICK ok \in BOOLEAN, names \in SUBSET Db :
        DetectionEnds(i, ok, names) /\ (ok => names # {})
  BY <1>1, <1>3
<1> DEFINE p == [pul EXCEPT !.todo = @ \ {i}, !.ins = i.id, !.found = Detected(names)]
<1>5. /\ p \in Puller /\ p.ip \in Ip /\ p.add = pul.add
      /\ p.ins = i.id /\ p.found = names
  BY <1>2 DEF TypeInv, TypeOK, Puller, Detected, Instance
<1>6. \/ Comparable(ok, p.found) /\ pul' = [p EXCEPT !.pc = "compare"]
      \/ pul' = Onward(p)
  BY <1>4 DEF DetectionEnds
<1>7. /\ seen' = seen \cup ({i.id} \X names)
      /\ missed' = IF names = {} THEN missed ELSE missed \cup ({i.id} \X (Db \ names))
  BY <1>4 DEF DetectionEnds
<1> HIDE DEF p
<1>8. /\ pul'.add \subseteq pul.add /\ pul'.pc \notin {"del", "insert"}
      /\ pul'.pc = "compare" => names # {} /\ pul'.ins = i.id /\ pul'.found = names
  <2>1. CASE Comparable(ok, p.found) /\ pul' = [p EXCEPT !.pc = "compare"]
    BY <1>4, <1>5, <2>1 DEF Comparable, Puller
  <2>2. CASE pul' = Onward(p)
    BY <1>5, <2>2, OnwardFacts
  <2> QED
    BY <1>6, <2>1, <2>2
<1> QED
  BY <1>7, <1>8

\* The differences are what was found and not stored, and the other way round.
LEMMA CompareFacts ==
  ASSUME TypeInv, Compare
  PROVE  /\ pul.pc = "compare"
         /\ pul'.add \subseteq FoundRows
         /\ pul'.pc \notin {"compare", "insert"}
         /\ pul'.pc = "del" => pul'.del \subseteq {pul.ins} \X (Db \ pul.found)
<1> DEFINE p == [pul EXCEPT !.del = Gone, !.add = FoundRows \ StoredRows]
<1>1. FoundRows \subseteq Row
  BY DEF Compare, FoundRows, TypeInv, TypeOK, Puller, Row
<1>2. Gone \subseteq {pul.ins} \X (Db \ pul.found)
  BY DEF Gone, StoredRows, FoundRows, Row
<1>3. /\ p \in Puller /\ p.todo = pul.todo /\ p.ip = pul.ip
      /\ p.add \subseteq FoundRows /\ p.del = Gone
  BY <1>1 DEF Gone, StoredRows, TypeInv, TypeOK, Puller
<1>4. pul' = Onward(p) \/ pul' = [p EXCEPT !.pc = "del"]
  BY DEF Compare
<1> HIDE DEF p
<1>5. CASE pul' = Onward(p)
  BY <1>3, <1>5, OnwardFacts DEF Compare, TypeInv, AddressOK
<1>6. CASE pul' = [p EXCEPT !.pc = "del"]
  BY <1>2, <1>3, <1>6 DEF Compare, Puller
<1> QED
  BY <1>4, <1>5, <1>6

\* A row that was looked for is passed over or about to be inserted.
LEMMA AddCheckFacts ==
  ASSUME TypeInv, AddCheck
  PROVE  /\ pul.pc = "add" /\ pul'.add \subseteq pul.add
         /\ \E r \in pul.add :
              \/ raced' = raced /\ pul'.pc \notin {"compare", "del", "insert"}
              \/ /\ ~IsExists(r) /\ NoteRace(r)
                 /\ pul'.pc = "insert" /\ pul'.row = r
<1>1. PICK r \in pul.add :
        LET p == [pul EXCEPT !.add = @ \ {r}] IN
        IF IsExists(r)
        THEN pul' = Onward(p) /\ raced' = raced
        ELSE pul' = [p EXCEPT !.pc = "insert", !.row = r] /\ NoteRace(r)
  BY DEF AddCheck
<1> DEFINE p == [pul EXCEPT !.add = @ \ {r}]
<1>2. p \in Puller /\ p.todo = pul.todo /\ p.ip = pul.ip /\ p.add \subseteq pul.add
  BY DEF TypeInv, TypeOK, Puller
<1>3. CASE IsExists(r)
  <2>1. pul' = Onward(p) /\ raced' = raced
    BY <1>1, <1>3
  <2> HIDE DEF p
  <2> QED
    BY <1>2, <2>1, OnwardFacts DEF AddCheck, TypeInv, AddressOK
<1>4. CASE ~IsExists(r)
  <2>1. pul' = [p EXCEPT !.pc = "insert", !.row = r] /\ NoteRace(r)
    BY <1>1, <1>4
  <2> HIDE DEF p
  <2>2. pul'.pc = "insert" /\ pul'.row = r /\ pul'.add \subseteq pul.add
    BY <1>2, <2>1 DEF Puller
  <2> QED
    BY <1>4, <2>1, <2>2 DEF AddCheck
<1> QED
  BY <1>3, <1>4

-----------------------------------------------------------------------------
(* What is stored was detected *)

\* The puller posts only what it detected, and so do handlers it left behind.
LEMMA DetectedStep ==
  ASSUME TypeInv, DetectedInv, StoredWasDetected, [Next]_vars
  PROVE  DetectedInv' /\ StoredWasDetected'
<1> USE DEF DetectedInv, StoredWasDetected
<1>1. CASE Change
  BY <1>1 DEF Change
<1>2. ASSUME NEW a \in Admin,
             \/ AdminBegins(a) \/ AdminGoesOn(a) \/ AdminFails(a)
             \/ \E s \in 1 .. servers : DeleteBegin(a, s)
      PROVE  DetectedInv' /\ StoredWasDetected'
  BY <1>2, AdminFrame DEF TypeInv
<1>3. CASE PullServers \/ PullInstances
  <2>1. UNCHANGED <<stored, late, seen>>
    BY <1>3 DEF PullServers, PullInstances
  <2> QED
    BY <1>3, <2>1, QuietSteps DEF Quiet
<1>4. CASE Detect
  <2>1. UNCHANGED <<stored, late>>
    BY <1>4 DEF Detect
  <2> QED
    BY <1>4, <2>1, DetectFacts
<1>5. CASE Compare
  <2>1. UNCHANGED <<stored, late, seen>>
    BY <1>5 DEF Compare
  <2> QED
    BY <1>5, <2>1, CompareFacts DEF FoundRows
<1>6. CASE DelDbs
  <2>1. UNCHANGED <<late, seen>> /\ DeleteRows(pul.del)
    BY <1>6 DEF DelDbs
  <2> QED
    BY <1>6, <2>1, QuietSteps, DeleteRowsFacts DEF Quiet, TypeInv
<1>7. CASE AddCheck
  <2>1. UNCHANGED <<stored, late, seen>>
    BY <1>7 DEF AddCheck
  <2> QED
    BY <1>7, <2>1, AddCheckFacts
<1>8. CASE AddInsert
  <2>1. UNCHANGED <<late, seen>> /\ pul.pc = "insert" /\ stored' = [stored EXCEPT ![pul.row] = @ + 1]
    BY <1>8 DEF AddInsert
  <2> QED
    BY <1>8, <2>1, QuietSteps DEF Quiet, TypeInv, TypeOK
<1>9. CASE LoseAnswer \/ RoundCut
  <2>1. UNCHANGED <<stored, seen>>
    BY <1>9 DEF LoseAnswer, RoundCut
  <2>2. \A c \in Calls : c.pc # "del" => c.rows \subseteq seen
    BY CallFacts DEF TypeInv, TypeOK, Handler
  <2> QED
    BY <1>9, <2>1, <2>2, PullerAfterFault
<1>10. ASSUME NEW h \in late, LateStep(h) \/ LateFails(h)
       PROVE  DetectedInv' /\ StoredWasDetected'
  <2>1. CASE LateDelete(h)
    BY <2>1, DeleteRowsFacts DEF LateDelete, TypeInv
  <2>2. ASSUME NEW r \in h.rows, LateCheck(h, r)
        PROVE  DetectedInv' /\ StoredWasDetected'
    <3>1. UNCHANGED <<stored, pul, seen>> /\ h.pc = "add"
      BY <2>2 DEF LateCheck
    <3>2. h \in Handler
      BY DEF TypeInv, TypeOK
    <3>3. [h EXCEPT !.pc = "insert"].rows = h.rows
      BY <3>2 DEF Handler
    <3>4. \A g \in late' : g \in late \/ g.rows = h.rows
      BY <2>2, <3>3 DEF LateCheck
    <3> QED
      BY <3>1, <3>4
  <2>3. ASSUME NEW r \in h.rows, LateInsert(h, r)
        PROVE  DetectedInv' /\ StoredWasDetected'
    BY <2>3 DEF LateInsert, TypeInv, TypeOK
  <2>4. CASE LateFails(h)
    BY <2>4 DEF LateFails
  <2> QED
    BY <1>10, <2>1, <2>2, <2>3, <2>4 DEF LateStep
<1>11. CASE UNCHANGED vars
  BY <1>11 DEF vars
<1> QED
  BY <1>1, <1>2, <1>3, <1>4, <1>5, <1>6, <1>7, <1>8, <1>9, <1>10, <1>11 DEF Next, PullerStep

\* In every instance a database is stored for an instance only if a detection of
\* that instance found it.
THEOREM StoredSafe == Spec => []StoredWasDetected
<1>1. Init => DetectedInv /\ StoredWasDetected
  BY DEF Init, DetectedInv, StoredWasDetected, PullerIdle
<1> QED
  BY <1>1, TypeInit, TypeStep, DetectedStep, PTL DEF Spec

-----------------------------------------------------------------------------
(* Nothing is dropped unseen *)

\* What the puller deletes was absent from a detection, and so it is with the
\* handlers it left behind.
LEMMA MissedStep ==
  ASSUME TypeInv, MissedInv, [Next]_vars
  PROVE  MissedInv'
<1> USE DEF MissedInv
<1>1. CASE Change
  BY <1>1 DEF Change
<1>2. ASSUME NEW a \in Admin,
             \/ AdminBegins(a) \/ AdminGoesOn(a) \/ AdminFails(a)
             \/ \E s \in 1 .. servers : DeleteBegin(a, s)
      PROVE  MissedInv'
  BY <1>2, AdminFrame DEF TypeInv
<1>3. CASE PullServers \/ PullInstances \/ DelDbs \/ AddInsert
  <2>1. UNCHANGED <<late, missed>>
    BY <1>3 DEF PullServers, PullInstances, DelDbs, AddInsert
  <2> QED
    BY <1>3, <2>1, QuietSteps DEF Quiet
<1>4. CASE Detect
  <2>1. late' = late
    BY <1>4 DEF Detect
  <2> QED
    BY <1>4, <2>1, DetectFacts
<1>5. CASE Compare
  <2>1. UNCHANGED <<late, missed>>
    BY <1>5 DEF Compare
  <2> QED
    BY <1>5, <2>1, CompareFacts
<1>6. CASE AddCheck
  <2>1. UNCHANGED <<late, missed>>
    BY <1>6 DEF AddCheck
  <2> QED
    BY <1>6, <2>1, AddCheckFacts
<1>7. CASE LoseAnswer \/ RoundCut
  <2>1. missed' = missed
    BY <1>7 DEF LoseAnswer, RoundCut
  <2>2. \A c \in Calls : c.pc = "del" => c.rows \subseteq missed
    BY CallFacts DEF TypeInv
  <2> QED
    BY <1>7, <2>1, <2>2, PullerAfterFault
<1>8. ASSUME NEW h \in late, LateStep(h) \/ LateFails(h)
      PROVE  MissedInv'
  <2>1. UNCHANGED <<pul, missed>>
    BY <1>8 DEF LateStep, LateDelete, LateCheck, LateInsert, LateFails
  <2>2. [h EXCEPT !.pc = "insert"].pc = "insert"
    BY DEF TypeInv, TypeOK, Handler
  <2>3. \A g \in late' : g \in late \/ g.pc = "insert"
    BY <1>8, <2>2 DEF LateStep, LateDelete, LateCheck, LateInsert, LateFails
  <2> QED
    BY <2>1, <2>3
<1>9. CASE UNCHANGED vars
  BY <1>9 DEF vars
<1> QED
  BY <1>1, <1>2, <1>3, <1>4, <1>5, <1>6, <1>7, <1>8, <1>9 DEF Next, PullerStep

\* A row that the puller or a handler it left behind empties was absent from a
\* detection.
LEMMA WorkDropsMissed ==
  ASSUME TypeInv, MissedInv, NEW r \in Row, stored[r] > 0, stored'[r] = 0,
         \/ Change \/ PullerStep \/ LoseAnswer \/ RoundCut \/ UNCHANGED vars
         \/ \E h \in late : LateStep(h) \/ LateFails(h)
  PROVE  r \in missed
<1>1. stored[r] \in Nat
  BY DEF TypeInv, TypeOK
<1>2. ASSUME UNCHANGED stored PROVE FALSE
  BY <1>1, <1>2
<1>3. ASSUME NEW q \in Row, stored' = [stored EXCEPT ![q] = @ + 1] PROVE FALSE
  BY <1>1, <1>3 DEF TypeInv, TypeOK
<1>4. ASSUME NEW S, DeleteRows(S), S \subseteq missed PROVE r \in missed
  BY <1>1, <1>4, DeleteRowsFacts DEF TypeInv
<1>5. CASE DelDbs
  BY <1>4, <1>5 DEF DelDbs, MissedInv
<1>6. CASE AddInsert
  BY <1>3, <1>6 DEF AddInsert, TypeInv, TypeOK
<1>7. CASE LoseAnswer \/ RoundCut \/ Change \/ UNCHANGED vars
  BY <1>2, <1>7 DEF LoseAnswer, RoundCut, Change, tableVars, vars
<1>8. CASE PullServers \/ PullInstances \/ Detect \/ Compare \/ AddCheck
  BY <1>2, <1>8 DEF PullServers, PullInstances, Detect, Compare, AddCheck
<1>9. ASSUME NEW h \in late, LateStep(h) \/ LateFails(h)
      PROVE  r \in missed
  <2>1. CASE LateDelete(h)
    BY <1>4, <2>1 DEF LateDelete, MissedInv
  <2>2. ASSUME NEW q \in h.rows, LateCheck(h, q) \/ LateInsert(h, q)
        PROVE  r \in missed
    <3>1. q \in Row
      BY DEF TypeInv, TypeOK, Handler
    <3> QED
      BY <1>2, <1>3, <2>2, <3>1 DEF LateCheck, LateInsert
  <2>3. CASE LateFails(h)
    BY <1>2, <2>3 DEF LateFails
  <2> QED
    BY <1>9, <2>1, <2>2, <2>3 DEF LateStep
<1> QED
  BY <1>5, <1>6, <1>7, <1>8, <1>9 DEF PullerStep

\* A row that a step empties was absent from a detection, or goes with a server.
LEMMA DropStep ==
  ASSUME TypeInv, MissedInv, [Next]_vars, NEW r \in Row, stored[r] > 0, stored'[r] = 0
  PROVE  r \in missed \/ \E a \in Admin : adm[a].pc = "deleteDbs"
<1>1. stored[r] \in Nat
  BY DEF TypeInv, TypeOK
<1>2. ASSUME NEW a \in Admin,
             \/ AdminBegins(a) \/ AdminGoesOn(a) \/ AdminFails(a)
             \/ \E s \in 1 .. servers : DeleteBegin(a, s)
      PROVE  adm[a].pc = "deleteDbs"
  BY <1>1, <1>2, AdminFrame DEF TypeInv
<1> QED
  BY <1>2, WorkDropsMissed DEF Next

\* In every instance a stored database goes only when a detection that found
\* others did not find it, or with the deletion of a server.
THEOREM DropSafe == Spec => NothingDroppedUnseen
<1>1. Init => MissedInv
  BY DEF Init, MissedInv, PullerIdle
<1>2. TypeInv /\ MissedInv /\ [Next]_vars =>
        [\A r \in Row : stored[r] > 0 /\ stored'[r] = 0 =>
           r \in missed \/ \E a \in Admin : adm[a].pc = "deleteDbs"]_vars
  BY DropStep
<1> QED
  BY <1>1, <1>2, TypeInit, TypeStep, MissedStep, PTL DEF Spec, NothingDroppedUnseen

-----------------------------------------------------------------------------
(* Duplicates need a race *)

\* A row stays single while its count does not grow and nobody new is about to
\* insert it.
LEMMA SingleKept ==
  ASSUME TypeInv, NEW r \in Row, SingleFor(r),
         stored'[r] = stored[r] \/ stored'[r] = 0,
         PullerInserts(r)' => PullerInserts(r),
         \A h \in late' : LateInserts(h, r)' => LateInserts(h, r)
  PROVE  SingleFor(r)'
<1>1. stored[r] \in Nat
  BY DEF TypeInv, TypeOK
<1>2. \A h \in late' : LateInserts(h, r)' => h \in late
  BY DEF LateInserts
<1> QED
  BY <1>1, <1>2 DEF SingleFor

\* A row about to be inserted is noted as a race, or is single afterwards.
LEMMA RaceNoted ==
  ASSUME NEW r \in Row, NEW q, NoteRace(q), r \notin raced'
  PROVE  r \notin raced /\ (q = r => ~AboutToInsert(r))
BY DEF NoteRace

\* The puller's step keeps rows without a race single.
LEMMA PullerRace ==
  ASSUME TypeInv, PullerStep, NEW r \in Row, r \notin raced', RaceInv
  PROVE  SingleFor(r)'
<1> USE DEF PullerInserts, LateInserts
<1>1. CASE PullServers \/ PullInstances
  <2>1. UNCHANGED <<stored, late, raced>>
    BY <1>1 DEF PullServers, PullInstances, tableVars
  <2>2. SingleFor(r)
    BY <2>1 DEF RaceInv
  <2> QED
    BY <1>1, <2>1, <2>2, QuietSteps, SingleKept DEF Quiet
<1>2. CASE Detect
  <2>1. UNCHANGED <<stored, late, raced>>
    BY <1>2 DEF Detect
  <2>2. SingleFor(r)
    BY <2>1 DEF RaceInv
  <2>3. pul'.pc # "insert"
    BY <1>2, DetectFacts
  <2> QED
    BY <2>1, <2>2, <2>3, SingleKept
<1>3. CASE Compare
  <2>1. UNCHANGED <<stored, late, raced>>
    BY <1>3 DEF Compare
  <2>2. SingleFor(r)
    BY <2>1 DEF RaceInv
  <2> QED
    BY <1>3, <2>1, <2>2, CompareFacts, SingleKept
<1>4. CASE DelDbs
  <2>1. UNCHANGED <<late, raced>> /\ DeleteRows(pul.del)
    BY <1>4 DEF DelDbs
  <2>2. SingleFor(r) /\ (stored'[r] = stored[r] \/ stored'[r] = 0)
    BY <2>1, DeleteRowsFacts DEF RaceInv, TypeInv
  <2> QED
    BY <1>4, <2>1, <2>2, QuietSteps, SingleKept DEF Quiet
<1>5. CASE AddCheck
  <2>1. UNCHANGED <<stored, late>> /\ pul.pc = "add"
    BY <1>5 DEF AddCheck
  <2>2. PICK q \in pul.add :
          \/ raced' = raced /\ pul'.pc \notin {"compare", "del", "insert"}
          \/ /\ ~IsExists(q) /\ NoteRace(q)
             /\ pul'.pc = "insert" /\ pul'.row = q
    BY <1>5, AddCheckFacts
  <2>3. r \notin raced
    BY <2>2, RaceNoted
  <2>4. SingleFor(r)
    BY <2>3 DEF RaceInv
  <2>5. CASE ~PullerInserts(r)'
    BY <2>1, <2>4, <2>5, SingleKept
  <2>6. CASE PullerInserts(r)'
    <3>1. q = r /\ ~IsExists(r) /\ ~AboutToInsert(r)
      BY <2>2, <2>6, RaceNoted
    <3>2. stored[r] \in Nat
      BY DEF TypeInv, TypeOK
    <3>3. stored[r] = 0 /\ \A h \in late : ~LateInserts(h, r)
      BY <3>1, <3>2 DEF IsExists, AboutToInsert
    <3> QED
      BY <2>1, <3>3 DEF SingleFor
  <2> QED
    BY <2>5, <2>6
<1>6. CASE AddInsert
  <2>1. /\ UNCHANGED <<late, raced>> /\ pul.pc = "insert" /\ pul.row \in Row
        /\ stored' = [stored EXCEPT ![pul.row] = @ + 1]
    BY <1>6 DEF AddInsert, TypeInv, TypeOK
  <2>2. SingleFor(r)
    BY <2>1 DEF RaceInv
  <2>3. pul'.pc # "insert"
    BY <1>6, QuietSteps DEF Quiet
  <2>4. CASE pul.row = r
    <3>1. stored[r] = 0 /\ \A h \in late : ~LateInserts(h, r)
      BY <2>1, <2>2, <2>4 DEF SingleFor, TypeInv, TypeOK
    <3>2. stored'[r] = 1
      BY <2>1, <2>4, <3>1 DEF TypeInv, TypeOK
    <3> QED
      BY <2>1, <2>3, <3>1, <3>2 DEF SingleFor
  <2>5. CASE pul.row # r
    <3>1. stored'[r] = stored[r]
      BY <2>1, <2>5 DEF TypeInv, TypeOK
    <3> QED
      BY <2>1, <2>2, <2>3, <3>1, SingleKept
  <2> QED
    BY <2>4, <2>5
<1> QED
  BY <1>1, <1>2, <1>3, <1>4, <1>5, <1>6 DEF PullerStep

\* A call without answer hands its insert over to one handler.
LEMMA FaultRace ==
  ASSUME TypeInv, LoseAnswer \/ RoundCut, NEW r \in Row, r \notin raced', RaceInv
  PROVE  SingleFor(r)'
<1> USE DEF PullerInserts, LateInserts
<1>1. UNCHANGED <<stored, raced>> /\ pul'.pc # "insert"
  BY PullerAfterFault DEF LoseAnswer, RoundCut
<1>2. SingleFor(r)
  BY <1>1 DEF RaceInv
<1>3. CASE late' = late
  BY <1>1, <1>2, <1>3, SingleKept
<1>4. ASSUME NEW c \in Calls, late' = late \cup {c}
      PROVE  SingleFor(r)'
  <2>1. c.pc = "insert" /\ c.rows = {r} => PullerInserts(r)
    BY CallFacts DEF TypeInv
  <2>2. CASE PullerInserts(r)
    <3>1. stored[r] <= 1 /\ ~(stored[r] > 0) /\ \A h \in late : ~LateInserts(h, r)
      BY <1>2, <2>2 DEF SingleFor
    <3>2. \A h \in late' : LateInserts(h, r)' => h = c
      BY <1>4, <3>1
    <3> QED
      BY <1>1, <3>1, <3>2 DEF SingleFor
  <2>3. CASE ~PullerInserts(r)
    <3>1. \A h \in late' : LateInserts(h, r)' => LateInserts(h, r)
      BY <1>4, <2>1, <2>3
    <3> QED
      BY <1>1, <1>2, <3>1, SingleKept
  <2> QED
    BY <2>2, <2>3
<1> QED
  BY <1>3, <1>4, PullerAfterFault

\* An abandoned handler keeps rows without a race single.
LEMMA LateRace ==
  ASSUME TypeInv, NEW h \in late, LateStep(h) \/ LateFails(h),
         NEW r \in Row, r \notin raced', RaceInv
  PROVE  SingleFor(r)'
<1> USE DEF PullerInserts, LateInserts
<1>1. CASE LateDelete(h)
  <2>1. UNCHANGED <<pul, raced>> /\ DeleteRows(h.rows) /\ late' \subseteq late
    BY <1>1 DEF LateDelete
  <2>2. SingleFor(r) /\ (stored'[r] = stored[r] \/ stored'[r] = 0)
    BY <2>1, DeleteRowsFacts DEF RaceInv, TypeInv
  <2> QED
    BY <2>1, <2>2, SingleKept
<1>2. ASSUME NEW q \in h.rows, LateCheck(h, q)
      PROVE  SingleFor(r)'
  <2>1. /\ h.rows = {q} /\ UNCHANGED <<stored, pul>>
        /\ \/ IsExists(q) /\ late' = late \ {h} /\ raced' = raced
           \/ /\ ~IsExists(q) /\ NoteRace(q)
              /\ late' = (late \ {h}) \cup {[h EXCEPT !.pc = "insert"]}
    BY <1>2 DEF LateCheck
  <2>2. r \notin raced
    BY <2>1, RaceNoted
  <2>3. SingleFor(r)
    BY <2>2 DEF RaceInv
  <2> DEFINE g == [h EXCEPT !.pc = "insert"]
  <2>4. g.rows = {q} /\ g.pc = "insert"
    BY <2>1 DEF TypeInv, TypeOK, Handler
  <2>5. \/ IsExists(q) /\ late' = late \ {h} /\ raced' = raced
        \/ ~IsExists(q) /\ NoteRace(q) /\ late' = (late \ {h}) \cup {g}
    BY <2>1
  <2> HIDE DEF g
  <2>6. CASE late' \subseteq late \/ q # r
    <3>1. \A f \in late' : LateInserts(f, r)' => LateInserts(f, r)
      BY <2>4, <2>5, <2>6
    <3> QED
      BY <2>1, <2>3, <3>1, SingleKept
  <2>7. CASE ~(late' \subseteq late) /\ q = r
    <3>1. ~IsExists(r) /\ ~AboutToInsert(r) /\ late' = (late \ {h}) \cup {g}
      BY <2>5, <2>7, RaceNoted
    <3>2. stored[r] = 0 /\ ~PullerInserts(r) /\ \A f \in late : ~LateInserts(f, r)
      BY <3>1 DEF IsExists, AboutToInsert, TypeInv, TypeOK
    <3>3. \A f \in late' : LateInserts(f, r)' => f = g
      BY <3>1, <3>2
    <3> QED
      BY <2>1, <3>2, <3>3 DEF SingleFor
  <2> QED
    BY <2>6, <2>7
<1>3. ASSUME NEW q \in h.rows, LateInsert(h, q)
      PROVE  SingleFor(r)'
  <2>1. /\ h.pc = "insert" /\ h.rows = {q} /\ q \in Row
        /\ late' = late \ {h} /\ UNCHANGED <<pul, raced>>
        /\ stored' = [stored EXCEPT ![q] = @ + 1]
    BY <1>3 DEF LateInsert, TypeInv, TypeOK, Handler
  <2>2. SingleFor(r)
    BY <2>1 DEF RaceInv
  <2>3. CASE q = r
    <3>1. /\ stored[r] = 0 /\ ~PullerInserts(r)
          /\ \A f \in late : LateInserts(f, r) => f = h
      BY <2>1, <2>2, <2>3 DEF SingleFor, TypeInv, TypeOK
    <3>2. stored'[r] = 1
      BY <2>1, <2>3, <3>1 DEF TypeInv, TypeOK
    <3>3. \A f \in late' : ~LateInserts(f, r)'
      BY <2>1, <3>1
    <3> QED
      BY <2>1, <3>1, <3>2, <3>3 DEF SingleFor
  <2>4. CASE q # r
    <3>1. stored'[r] = stored[r]
      BY <2>1, <2>4 DEF TypeInv, TypeOK
    <3> QED
      BY <2>1, <2>2, <3>1, SingleKept
  <2> QED
    BY <2>3, <2>4
<1>4. CASE LateFails(h)
  <2>1. UNCHANGED <<stored, pul, raced>> /\ late' \subseteq late
    BY <1>4 DEF LateFails
  <2>2. SingleFor(r)
    BY <2>1 DEF RaceInv
  <2> QED
    BY <2>1, <2>2, SingleKept
<1> QED
  BY <1>1, <1>2, <1>3, <1>4 DEF LateStep

\* Every step keeps rows without a race single.
LEMMA RaceStep == TypeInv /\ RaceInv /\ [Next]_vars => RaceInv'
<1> SUFFICES ASSUME TypeInv, RaceInv, [Next]_vars, NEW r \in Row, r \notin raced'
             PROVE  SingleFor(r)'
  BY DEF RaceInv
<1>1. CASE Change \/ UNCHANGED vars
  <2>1. UNCHANGED <<stored, pul, late, raced>>
    BY <1>1 DEF Change, vars
  <2> QED
    BY <2>1 DEF RaceInv, SingleFor, PullerInserts, LateInserts
<1>2. ASSUME NEW a \in Admin,
             \/ AdminBegins(a) \/ AdminGoesOn(a) \/ AdminFails(a)
             \/ \E s \in 1 .. servers : DeleteBegin(a, s)
      PROVE  SingleFor(r)'
  <2>1. UNCHANGED <<pul, late, raced>> /\ (stored'[r] = stored[r] \/ stored'[r] = 0)
    BY <1>2, AdminFrame DEF TypeInv
  <2>2. SingleFor(r)
    BY <2>1 DEF RaceInv
  <2> QED
    BY <2>1, <2>2, SingleKept DEF PullerInserts, LateInserts
<1>3. CASE PullerStep
  BY <1>3, PullerRace
<1>4. CASE LoseAnswer \/ RoundCut
  BY <1>4, FaultRace
<1>5. ASSUME NEW h \in late, LateStep(h) \/ LateFails(h)
      PROVE  SingleFor(r)'
  BY <1>5, LateRace
<1> QED
  BY <1>1, <1>2, <1>3, <1>4, <1>5 DEF Next

\* In every instance a database is stored twice for an instance only if two
\* handlers were between check and insert at the same time.
THEOREM DuplicateSafe == Spec => []DuplicatesNeedARace
<1>1. Init => RaceInv
  BY DEF Init, RaceInv, SingleFor, PullerInserts, LateInserts, PullerIdle
<1>2. TypeInv /\ RaceInv => DuplicatesNeedARace
  BY DEF TypeInv, TypeOK, RaceInv, SingleFor, DuplicatesNeedARace
<1> QED
  BY <1>1, <1>2, TypeInit, TypeStep, RaceStep, PTL DEF Spec
-----------------------------------------------------------------------------
(* A deletion takes only strays *)

\* Instances are told apart by ids that were handed out.
IdInv ==
  /\ \A i \in instance : i.id <= instances
  /\ \A i, j \in instance : i.id = j.id => i = j

\* delete_mysql_server holds ids of instances that belong to no server, and only
\* add_mysql_server may lose the id of its server.
StrayInv ==
  \A a \in Admin :
    /\ adm[a].ids \subseteq {i.id : i \in InstancesOf(NoServer)}
    /\ adm[a].pc \in {"update", "replace", "delete", "deleteInstances"}
         => adm[a].server # NoServer

\* A row that a step empties was absent from a detection, or is of an instance that
\* belongs to no server: delete_mysql_server never takes the databases of an instance
\* of any server (model/mysql_server_model.py:43-57).
OnlyStraysAreTaken ==
  [][\A r \in Row : stored[r] > 0 /\ stored'[r] = 0 =>
       r \in missed \/ \E i \in InstancesOf(NoServer) : i.id = r[1]]_vars

\* Instances are inserted with the next id, and deleted by server.
LEMMA InstanceChange ==
  ASSUME TypeInv, [Next]_vars
  PROVE  \/ UNCHANGED instanceVars
         \/ \E a \in Admin :
              /\ adm[a].pc \in {"replace", "deleteInstances"}
              /\ instances' = instances
              /\ instance' = instance \ InstancesOf(adm[a].server)
         \/ \E s \in ServerId \cup {NoServer}, p \in Port :
              /\ instances' = instances + 1
              /\ instance' = instance \cup {[id |-> instances', server |-> s, port |-> p]}
<1>1. CASE \E a \in Admin : EditReplace(a) \/ DeleteInstances(a)
  BY <1>1 DEF EditReplace, DeleteInstances
<1>2. ASSUME NEW a \in Admin, InsertInstance(a)
      PROVE  \E s \in ServerId \cup {NoServer}, p \in Port :
               /\ instances' = instances + 1
               /\ instance' = instance \cup {[id |-> instances', server |-> s, port |-> p]}
  <2>1. adm[a].server \in ServerId \cup {NoServer} /\ adm[a].ports \subseteq Port
    BY DEF TypeInv, TypeOK, Request
  <2> QED
    BY <1>2, <2>1 DEF InsertInstance
<1>3. ASSUME NEW a \in Admin,
             \/ AdminBegins(a) \/ AdminFails(a) \/ \E s \in 1 .. servers : DeleteBegin(a, s)
             \/ AddServer(a) \/ EditUpdate(a) \/ DeleteServer(a) \/ DeleteDbs(a)
      PROVE  UNCHANGED instanceVars
  BY <1>3 DEF AdminBegins, AddBegin, EditBegin, AdminFails, DeleteBegin, AddServer, EditUpdate,
     DeleteServer, DeleteDbs
<1>4. CASE Change \/ PullerStep \/ LoseAnswer \/ RoundCut \/ UNCHANGED vars
  BY <1>4 DEF Change, PullerStep, PullServers, PullInstances, Detect, Compare, DelDbs, AddCheck,
     AddInsert, LoseAnswer, RoundCut, vars
<1>5. ASSUME NEW h \in late, LateStep(h) \/ LateFails(h)
      PROVE  UNCHANGED instanceVars
  BY <1>5 DEF LateStep, LateDelete, LateCheck, LateInsert, LateFails
<1> QED
  BY <1>1, <1>2, <1>3, <1>4, <1>5 DEF Next, AdminGoesOn

\* Every step keeps the ids apart.
LEMMA IdStep == TypeInv /\ IdInv /\ [Next]_vars => IdInv'
<1> SUFFICES ASSUME TypeInv, IdInv, [Next]_vars PROVE IdInv'
  OBVIOUS
<1> USE DEF IdInv
<1>1. instances \in Nat /\ \A i \in instance : i.id \in Nat
  BY DEF TypeInv, TypeOK, Instance, InstanceId
<1>2. CASE instances' = instances /\ instance' \subseteq instance
  BY <1>2
<1>3. ASSUME NEW s \in ServerId \cup {NoServer}, NEW p \in Port, instances' = instances + 1,
             instance' = instance \cup {[id |-> instances', server |-> s, port |-> p]}
      PROVE  IdInv'
  <2>1. \A i \in instance : i.id < instances'
    BY <1>1, <1>3
  <2>2. \A i \in instance' : i \in instance \/ i = [id |-> instances', server |-> s, port |-> p]
    BY <1>3
  <2>3. \A i \in instance' : i.id <= instances'
    BY <1>1, <1>3, <2>1, <2>2
  <2>4. ASSUME NEW i \in instance', NEW j \in instance', i.id = j.id PROVE i = j
    <3>1. i \in instance <=> j \in instance
      BY <1>1, <1>3, <2>1, <2>2, <2>4
    <3> QED
      BY <2>2, <2>4, <3>1
  <2> QED
    BY <2>3, <2>4
<1> QED
  BY <1>2, <1>3, InstanceChange

\* What administrators hold is their own, and set when they begin.
LEMMA AdminLocals ==
  ASSUME TypeInv, StrayInv, [Next]_vars, NEW b \in Admin
  PROVE  /\ adm'[b].ids \subseteq {i.id : i \in InstancesOf(NoServer)}
         /\ adm'[b].pc \in {"update", "replace", "delete", "deleteInstances"}
              => adm'[b].server # NoServer
<1> DEFINE Holds(q) == /\ q.ids \subseteq {i.id : i \in InstancesOf(NoServer)}
                       /\ q.pc \in {"update", "replace", "delete", "deleteInstances"}
                            => q.server # NoServer
<1>1. Holds(adm[b]) /\ Holds(AdminIdle) /\ AdminIdle \in Request /\ adm \in [Admin -> Request]
  BY DEF StrayInv, AdminIdle, TypeInv, TypeOK, Request, NoServer
<1>2. CASE adm' = adm
  BY <1>1, <1>2
<1>3. ASSUME NEW a \in Admin,
             \/ AdminBegins(a) \/ AdminGoesOn(a) \/ AdminFails(a)
             \/ \E s \in 1 .. servers : DeleteBegin(a, s)
      PROVE  Holds(adm'[b])
  <2>1. CASE a # b
    <3>1. adm'[b] = adm[b]
      BY <1>1, <1>3, <2>1 DEF AdminBegins, AddBegin, EditBegin, AdminFails, DeleteBegin,
         AdminGoesOn, AddServer, EditUpdate, EditReplace, InsertInstance, DeleteServer,
         DeleteInstances, DeleteDbs
    <3> QED
      BY <1>1, <3>1
  <2>2. CASE a = b /\ (AdminFails(a) \/ DeleteDbs(a))
    <3>1. adm'[b] = AdminIdle
      BY <1>1, <2>2 DEF AdminFails, DeleteDbs
    <3> QED
      BY <1>1, <3>1
  <2>3. CASE a = b /\ AdminBegins(a)
    <3>1. servers \in 0 .. MaxServers
      BY DEF TypeInv, TypeOK
    <3>2. \/ adm'[b].ids = {} /\ adm'[b].pc = "add"
          \/ adm'[b].ids = {} /\ adm'[b].server \in 1 .. servers
      <4>1. ASSUME NEW ports \in SUBSET Port, NEW ip \in Ip, AddBegin(a, ip, ports)
            PROVE  adm'[b].ids = {} /\ adm'[b].pc = "add"
        BY <1>1, <2>3, <4>1 DEF AddBegin, AdminIdle
      <4>2. ASSUME NEW ports \in SUBSET Port, NEW ip \in Ip, NEW s \in 1 .. servers,
                   EditBegin(a, s, ip, ports)
            PROVE  adm'[b].ids = {} /\ adm'[b].server = s
        BY <1>1, <2>3, <4>2 DEF EditBegin, AdminIdle
      <4> QED
        BY <2>3, <4>1, <4>2 DEF AdminBegins
    <3> QED
      BY <3>1, <3>2 DEF NoServer
  <2>4. ASSUME a = b, NEW s \in 1 .. servers, DeleteBegin(a, s) PROVE Holds(adm'[b])
    <3>1. adm'[b].ids = {i.id : i \in InstancesOf(NoServer)} /\ adm'[b].server = s
      BY <1>1, <2>4 DEF DeleteBegin, AdminIdle
    <3> QED
      BY <3>1 DEF NoServer
  <2>5. CASE a = b /\ AddServer(a)
    <3>1. adm'[b].ids = adm[b].ids /\ adm'[b].pc = "insert"
      BY <1>1, <2>5 DEF AddServer, Request
    <3> QED
      BY <1>1, <3>1
  <2>6. CASE a = b /\ (EditUpdate(a) \/ EditReplace(a) \/ DeleteServer(a))
    <3>1. adm'[b].ids = adm[b].ids /\ adm'[b].server = adm[b].server
          /\ adm[b].pc \in {"update", "replace", "delete"}
      BY <1>1, <2>6 DEF EditUpdate, EditReplace, DeleteServer, Request
    <3> QED
      BY <1>1, <3>1
  <2>7. CASE a = b /\ InsertInstance(a)
    <3>1. adm'[b] = AdminIdle \/ (adm'[b].ids = adm[b].ids /\ adm'[b].pc = "insert")
      BY <1>1, <2>7 DEF InsertInstance, Request
    <3> QED
      BY <1>1, <3>1
  <2>8. CASE a = b /\ DeleteInstances(a)
    <3>1. adm'[b] = AdminIdle \/ (adm'[b].ids = adm[b].ids /\ adm'[b].pc = "deleteDbs")
      BY <1>1, <2>8 DEF DeleteInstances, Request
    <3> QED
      BY <1>1, <3>1
  <2> QED
    BY <1>3, <2>1, <2>2, <2>3, <2>4, <2>5, <2>6, <2>7, <2>8 DEF AdminGoesOn
<1>4. CASE Change \/ PullerStep \/ LoseAnswer \/ RoundCut \/ UNCHANGED vars
  BY <1>2, <1>4 DEF Change, PullerStep, PullServers, PullInstances, Detect, Compare, DelDbs,
     AddCheck, AddInsert, LoseAnswer, RoundCut, vars
<1>5. ASSUME NEW h \in late, LateStep(h) \/ LateFails(h)
      PROVE  adm' = adm
  BY <1>5 DEF LateStep, LateDelete, LateCheck, LateInsert, LateFails
<1> QED
  BY <1>2, <1>3, <1>4, <1>5 DEF Next

\* No step removes an instance that belongs to no server.
LEMMA StrayStep == TypeInv /\ StrayInv /\ [Next]_vars => StrayInv'
<1> SUFFICES ASSUME TypeInv, StrayInv, [Next]_vars PROVE StrayInv'
  OBVIOUS
<1>1. InstancesOf(NoServer) \subseteq InstancesOf(NoServer)'
  <2>1. \A a \in Admin : adm[a].pc \in {"replace", "deleteInstances"} => adm[a].server # NoServer
    BY DEF StrayInv
  <2> QED
    BY <2>1, InstanceChange DEF InstancesOf
<1>2. ASSUME NEW b \in Admin
      PROVE  /\ adm'[b].ids \subseteq {i.id : i \in InstancesOf(NoServer)'}
             /\ adm'[b].pc \in {"update", "replace", "delete", "deleteInstances"}
                  => adm'[b].server # NoServer
  BY <1>1, AdminLocals
<1> QED
  BY <1>2 DEF StrayInv

\* In every instance the databases of an instance of a server are never deleted but
\* by the puller, after a detection that found others.
THEOREM DeletionsTakeStrays == Spec => OnlyStraysAreTaken
<1>1. Init => MissedInv /\ StrayInv
  BY DEF Init, MissedInv, PullerIdle, StrayInv, AdminIdle
<1>2. ASSUME TypeInv, MissedInv, StrayInv, [Next]_vars,
             NEW r \in Row, stored[r] > 0, stored'[r] = 0
      PROVE  r \in missed \/ \E i \in InstancesOf(NoServer) : i.id = r[1]
  <2>1. CASE \E a \in Admin : DeleteDbs(a)
    <3>1. PICK a \in Admin : DeleteRows(adm[a].ids \X Db)
      BY <2>1 DEF DeleteDbs
    <3>2. r \in adm[a].ids \X Db
      BY <1>2, <3>1, DeleteRowsFacts DEF TypeInv, TypeOK
    <3> QED
      BY <1>2, <3>2 DEF StrayInv
  <2>2. CASE ~ \E a \in Admin : DeleteDbs(a)
    <3>1. ASSUME NEW a \in Admin, 
                 \/ AdminBegins(a) \/ AdminGoesOn(a) \/ AdminFails(a)
                 \/ \E s \in 1 .. servers : DeleteBegin(a, s)
          PROVE  FALSE
      <4>1. stored' = stored
        BY <2>2, <3>1 DEF AdminBegins, AdminGoesOn, AddBegin, EditBegin, AddServer, EditUpdate,
           EditReplace, InsertInstance, DeleteServer, DeleteInstances, DeleteBegin, AdminFails
      <4> QED
        BY <1>2, <4>1
    <3>2. \/ Change \/ PullerStep \/ LoseAnswer \/ RoundCut \/ UNCHANGED vars
          \/ \E h \in late : LateStep(h) \/ LateFails(h)
      BY <1>2, <3>1 DEF Next
    <3> QED
      BY <1>2, <3>2, WorkDropsMissed
  <2> QED
    BY <2>1, <2>2
<1>3. TypeInv /\ MissedInv /\ StrayInv /\ [Next]_vars =>
        [\A r \in Row : stored[r] > 0 /\ stored'[r] = 0 =>
           r \in missed \/ \E i \in InstancesOf(NoServer) : i.id = r[1]]_vars
  BY <1>2
<1> QED
  BY <1>1, <1>3, TypeInit, TypeStep, MissedStep, StrayStep, PTL DEF Spec, OnlyStraysAreTaken
-----------------------------------------------------------------------------
(* A fresh round repairs what is stored *)

\* What the puller holds at its program point.
PlanInv ==
  /\ pul.pc # "del" => pul.del = {}
  /\ pul.pc # "insert" => pul.row = NoRow
  /\ pul.pc \notin {"add", "del", "insert"} => pul.add = {}
  /\ pul.pc \in {"idle", "servers"} => pul.todo = {}
  /\ pul.pc = "idle" => pul.servers = {}

Addressed(i) == i.server # NoServer /\ server[i.server] # NoIp
There(i)     == actual[<<server[i.server], i.port>>]

Stored      == {r \in Row : stored[r] > 0}
Planned     == {r \in Row : r \in (Stored \ pul.del) \cup pul.add \cup {pul.row}}
Names(i, S) == {d \in Db : <<i.id, d>> \in S}

\* The round will still look at instance i, or has just done so.
Awaits(i) ==
  \/ <<i.server, server[i.server]>> \in pul.servers
  \/ i \in pul.todo
  \/ pul.pc = "compare" /\ pul.ins = i.id

\* What the round took over from the tables and from MySQL is still so.
UpToDate ==
  /\ pul.servers \subseteq ServerRows
  /\ \A i \in pul.todo : i \in instance /\ i.server # NoServer /\ server[i.server] = pul.ip
  /\ pul.pc = "compare" =>
       \E i \in instance : i.id = pul.ins /\ Addressed(i) /\ pul.found = There(i)

\* Every instance is still to be looked at, or will be exact after the posts.
Covered == \A i \in instance : Addressed(i) => Awaits(i) \/ Names(i, Planned) = There(i)

Repairing == UpToDate /\ Covered

\* What is stored is exact and the round has nothing to post.
Settled ==
  /\ UpToDate /\ Accurate
  /\ pul.del = {} /\ pul.add = {} /\ pul.row = NoRow

RoundInv == TypeInv /\ IdInv /\ PlanInv

\* Nobody but the puller is at work, and nothing fails.
OnlyRounds == PullerStep /\ Steady
Calm == [OnlyRounds]_vars

\* The point a puller turns to, and what it carries there.
Turns(q) ==
  /\ q.pc \in {"idle", "servers", "instances", "add"}
  /\ q.pc # "add" => q.add = {}
  /\ q.pc \in {"idle", "servers"} => q.todo = {}
  /\ q.pc = "idle" => q.servers = {}

Carries(q, p) ==
  /\ q.servers = p.servers /\ q.todo = p.todo /\ (q.todo # {} => q.ip = p.ip)
  /\ q.del = {} /\ q.add = p.add /\ q.row = NoRow

\* Onward forgets nothing that is still to be done.
LEMMA OnwardCarries ==
  ASSUME NEW p \in Puller, p.del = {}, p.row = NoRow
  PROVE  Turns(Onward(p)) /\ Carries(Onward(p), p)
<1>1. PullerIdle = [pc |-> "idle", servers |-> {}, ip |-> NoIp, todo |-> {},
                    ins |-> 0, found |-> {}, del |-> {}, add |-> {}, row |-> NoRow]
  BY DEF PullerIdle
<1>2. \A c \in {"add", "instances", "servers"} :
        LET q == [p EXCEPT !.pc = c] IN
        /\ q.pc = c /\ q.servers = p.servers /\ q.todo = p.todo /\ q.ip = p.ip
        /\ q.del = p.del /\ q.add = p.add /\ q.row = p.row
  BY DEF Puller
<1>3. CASE p.add # {}
  BY <1>2, <1>3 DEF Onward, Turns, Carries
<1>4. CASE p.add = {} /\ p.todo # {}
  BY <1>2, <1>4 DEF Onward, Turns, Carries
<1>5. CASE p.add = {} /\ p.todo = {} /\ p.servers # {}
  BY <1>2, <1>5 DEF Onward, Turns, Carries
<1>6. CASE p.add = {} /\ p.todo = {} /\ p.servers = {}
  BY <1>1, <1>6 DEF Onward, Turns, Carries
<1> QED
  BY <1>3, <1>4, <1>5, <1>6

\* No pair of an id and a name is the empty row.
LEMMA RowsArePairs == NoRow \notin Row /\ \A x, y : <<x, y>> # NoRow
<1>1. \A x, y : <<x, y>> # NoRow
  BY DEF NoRow
<1> QED
  BY <1>1 DEF Row

\* A round begins with the servers there are.
LEMMA PullServersEffect ==
  ASSUME RoundInv, PullServers
  PROVE  /\ pul.pc = "idle" /\ Turns(pul')
         /\ pul'.servers = ServerRows /\ pul'.todo = {}
         /\ pul'.del = {} /\ pul'.add = {} /\ pul'.row = NoRow
<1> DEFINE p == [PullerIdle EXCEPT !.servers = ServerRows]
<1>1. ServerRows \subseteq ServerId \X Ip
  BY DEF ServerRows, RoundInv, TypeInv, TypeOK
<1>2. /\ p \in Puller /\ p.servers = ServerRows /\ p.todo = {}
      /\ p.del = {} /\ p.add = {} /\ p.row = NoRow
  BY <1>1 DEF PullerIdle, Puller, NoRow
<1>3. pul.pc = "idle" /\ pul' = Onward(p)
  BY DEF PullServers
<1> HIDE DEF p
<1> QED
  BY <1>2, <1>3, OnwardCarries DEF Carries

\* The instances of a server are taken over with its address.
LEMMA PullInstancesEffect ==
  ASSUME RoundInv, PullInstances
  PROVE  /\ pul.pc = "servers" /\ Turns(pul')
         /\ \E s \in pul.servers :
              /\ pul'.servers = pul.servers \ {s} /\ pul'.todo = InstancesOf(s[1])
              /\ pul'.todo # {} => pul'.ip = s[2]
         /\ pul'.del = {} /\ pul'.add = {} /\ pul'.row = NoRow
<1> USE DEF RoundInv, PlanInv
<1>1. PICK s \in pul.servers :
        pul' = Onward([pul EXCEPT !.servers = @ \ {s}, !.ip = s[2], !.todo = InstancesOf(s[1])])
  BY DEF PullInstances
<1> DEFINE p == [pul EXCEPT !.servers = @ \ {s}, !.ip = s[2], !.todo = InstancesOf(s[1])]
<1>2. s[2] \in Ip /\ InstancesOf(s[1]) \subseteq Instance
  BY DEF TypeInv, TypeOK, Puller, InstancesOf
<1>3. pul.pc = "servers" /\ pul.del = {} /\ pul.add = {} /\ pul.row = NoRow
  BY DEF PullInstances
<1>4. /\ p \in Puller /\ p.servers = pul.servers \ {s} /\ p.ip = s[2]
      /\ p.todo = InstancesOf(s[1]) /\ p.del = {} /\ p.add = {} /\ p.row = NoRow
  BY <1>2, <1>3 DEF TypeInv, TypeOK, Puller
<1>5. pul' = Onward(p)
  BY <1>1
<1> HIDE DEF p
<1> QED
  BY <1>3, <1>4, <1>5, OnwardCarries DEF Carries

\* A detection ends with what it found or with the next thing to do.
LEMMA DetectEffect ==
  ASSUME RoundInv, Detect
  PROVE  /\ pul.pc = "instances"
         /\ pul'.del = {} /\ pul'.add = {} /\ pul'.row = NoRow
         /\ Turns(pul') \/ pul'.pc = "compare"
         /\ Steady => \E i \in pul.todo :
              /\ pul'.servers = pul.servers /\ pul'.todo = pul.todo \ {i}
              /\ pul'.ip = pul.ip /\ pul'.pc = "compare" /\ pul'.ins = i.id
              /\ pul'.found = actual[<<pul.ip, i.port>>]
<1> USE DEF RoundInv, PlanInv
<1>1. PICK i \in pul.todo :
        \/ DetectionEnds(i, TRUE, actual[<<pul.ip, i.port>>]) /\ Steady
        \/ /\ Fault
           /\ \E names \in IF DetectTables THEN SUBSET actual[<<pul.ip, i.port>>] ELSE {{}} :
                DetectionEnds(i, FALSE, names)
  BY DEF Detect
<1>2. i \in Instance /\ pul.ip \in Ip /\ faults \in Nat
  BY DEF TypeInv, TypeOK, AddressOK, Puller
<1>3. actual[<<pul.ip, i.port>>] \in (SUBSET Db) \ {{}}
  BY <1>2 DEF TypeInv, TypeOK, Instance
<1>4. pul.pc = "instances" /\ pul.del = {} /\ pul.add = {} /\ pul.row = NoRow
  BY DEF Detect
<1>5. ASSUME NEW ok \in BOOLEAN, NEW names \in SUBSET Db, DetectionEnds(i, ok, names)
      PROVE  /\ pul'.del = {} /\ pul'.add = {} /\ pul'.row = NoRow
             /\ Turns(pul') \/ pul'.pc = "compare"
             /\ ok => /\ pul'.servers = pul.servers /\ pul'.todo = pul.todo \ {i}
                      /\ pul'.ip = pul.ip /\ pul'.pc = "compare" /\ pul'.ins = i.id
                      /\ pul'.found = names
  <2> DEFINE p == [pul EXCEPT !.todo = @ \ {i}, !.ins = i.id, !.found = Detected(names)]
  <2>1. /\ p \in Puller /\ p.servers = pul.servers /\ p.todo = pul.todo \ {i}
        /\ p.ip = pul.ip /\ p.ins = i.id /\ p.found = names
        /\ p.del = {} /\ p.add = {} /\ p.row = NoRow
    BY <1>2, <1>4 DEF TypeInv, TypeOK, Puller, Detected, Instance
  <2>2. pul' = IF Comparable(ok, p.found) THEN [p EXCEPT !.pc = "compare"] ELSE Onward(p)
    BY <1>5 DEF DetectionEnds
  <2> HIDE DEF p
  <2>3. CASE Comparable(ok, p.found)
    BY <2>1, <2>2, <2>3 DEF Puller
  <2>4. CASE ~Comparable(ok, p.found)
    <3>1. pul' = Onward(p) /\ ~ok
      BY <2>2, <2>4 DEF Comparable
    <3> QED
      BY <2>1, <3>1, OnwardCarries DEF Carries
  <2> QED
    BY <2>3, <2>4
<1>6. CASE DetectionEnds(i, TRUE, actual[<<pul.ip, i.port>>])
  BY <1>3, <1>4, <1>5, <1>6
<1>7. CASE Fault /\ \E names \in IF DetectTables THEN SUBSET actual[<<pul.ip, i.port>>] ELSE {{}} :
                      DetectionEnds(i, FALSE, names)
  <2>1. ~Steady
    BY <1>2, <1>7 DEF Fault, Steady
  <2>2. \E names \in SUBSET Db : DetectionEnds(i, FALSE, names)
    BY <1>3, <1>7
  <2> QED
    BY <1>4, <1>5, <2>1, <2>2
<1> QED
  BY <1>1, <1>6, <1>7

\* The plan for an instance is the difference of what was found and what is stored.
LEMMA CompareEffect ==
  ASSUME RoundInv, Compare
  PROVE  /\ pul.pc = "compare"
         /\ (Turns(pul') /\ pul'.del = {}) \/ pul'.pc = "del"
         /\ pul'.servers = pul.servers /\ pul'.todo = pul.todo
         /\ pul'.todo # {} => pul'.ip = pul.ip
         /\ pul'.del = Gone /\ pul'.add = FoundRows \ StoredRows /\ pul'.row = NoRow
<1> USE DEF RoundInv, PlanInv
<1> DEFINE p == [pul EXCEPT !.del = Gone, !.add = FoundRows \ StoredRows]
<1>1. FoundRows \subseteq Row /\ Gone \subseteq Row
  BY DEF Compare, FoundRows, Gone, StoredRows, TypeInv, TypeOK, Puller, Row
<1>2. pul.pc = "compare" /\ pul.row = NoRow
  BY DEF Compare
<1>3. /\ p \in Puller /\ p.servers = pul.servers /\ p.todo = pul.todo /\ p.ip = pul.ip
      /\ p.del = Gone /\ p.add = FoundRows \ StoredRows /\ p.row = NoRow
  BY <1>1, <1>2 DEF TypeInv, TypeOK, Puller
<1>4. pul' = IF p.del = {} THEN Onward(p) ELSE [p EXCEPT !.pc = "del"]
  BY DEF Compare
<1> HIDE DEF p
<1>5. CASE p.del = {}
  BY <1>2, <1>3, <1>4, <1>5, OnwardCarries DEF Carries
<1>6. CASE p.del # {}
  BY <1>2, <1>3, <1>4, <1>6 DEF Puller
<1> QED
  BY <1>5, <1>6

\* A post carries out a part of the plan, and the plan remains what it was.
LEMMA PostEffect ==
  ASSUME RoundInv, DelDbs \/ AddCheck \/ AddInsert
  PROVE  /\ pul.pc \in {"del", "add", "insert"}
         /\ Turns(pul') \/ pul'.pc = "insert"
         /\ pul'.servers = pul.servers /\ pul'.todo = pul.todo
         /\ pul'.todo # {} => pul'.ip = pul.ip
         /\ pul'.del = {} /\ (pul'.pc # "insert" => pul'.row = NoRow)
         /\ Planned' = Planned
<1> USE DEF RoundInv, PlanInv
<1>1. CASE DelDbs
  <2> DEFINE p == [pul EXCEPT !.del = {}]
  <2>1. pul.pc = "del" /\ pul' = Onward(p) /\ DeleteRows(pul.del)
    BY <1>1 DEF DelDbs
  <2>2. /\ p \in Puller /\ p.servers = pul.servers /\ p.todo = pul.todo /\ p.ip = pul.ip
        /\ p.del = {} /\ p.add = pul.add /\ p.row = NoRow
    BY <2>1 DEF TypeInv, TypeOK, Puller
  <2> HIDE DEF p
  <2>3. Turns(pul') /\ Carries(pul', p)
    BY <2>1, <2>2, OnwardCarries
  <2>4. Stored' = Stored \ pul.del
    BY <2>1 DEF DeleteRows, Stored, TypeInv, TypeOK
  <2>5. Planned' = Planned
    BY <2>1, <2>2, <2>3, <2>4 DEF Carries, Planned
  <2> QED
    BY <2>1, <2>2, <2>3, <2>5 DEF Carries
<1>2. CASE AddCheck
  <2>1. PICK r \in pul.add :
          LET p == [pul EXCEPT !.add = @ \ {r}] IN
          pul' = IF IsExists(r) THEN Onward(p) ELSE [p EXCEPT !.pc = "insert", !.row = r]
    BY <1>2 DEF AddCheck
  <2> DEFINE p == [pul EXCEPT !.add = @ \ {r}]
  <2>2. /\ pul.pc = "add" /\ pul.del = {} /\ pul.row = NoRow /\ stored' = stored
        /\ r \in Row
    BY <1>2 DEF AddCheck, TypeInv, TypeOK, Puller
  <2>3. /\ p \in Puller /\ p.servers = pul.servers /\ p.todo = pul.todo /\ p.ip = pul.ip
        /\ p.del = {} /\ p.add = pul.add \ {r} /\ p.row = NoRow
    BY <2>2 DEF TypeInv, TypeOK, Puller
  <2>4. pul' = IF IsExists(r) THEN Onward(p) ELSE [p EXCEPT !.pc = "insert", !.row = r]
    BY <2>1
  <2> HIDE DEF p
  <2>5. CASE IsExists(r)
    <3>1. Turns(pul') /\ Carries(pul', p)
      BY <2>3, <2>4, <2>5, OnwardCarries
    <3>2. r \in Stored
      BY <2>2, <2>5 DEF IsExists, Stored
    <3>3. Planned' = Planned
      BY <2>2, <2>3, <3>1, <3>2 DEF Carries, Planned, Stored
    <3> QED
      BY <2>2, <2>3, <3>1, <3>3 DEF Carries
  <2>6. CASE ~IsExists(r)
    <3>1. /\ pul'.pc = "insert" /\ pul'.servers = pul.servers /\ pul'.todo = pul.todo
          /\ pul'.ip = pul.ip /\ pul'.del = {} /\ pul'.add = pul.add \ {r} /\ pul'.row = r
      BY <2>3, <2>4, <2>6 DEF Puller
    <3>2. Planned = {q \in Row : q \in Stored \cup pul.add}
      BY <2>2, RowsArePairs DEF Planned
    <3>3. Planned' = {q \in Row : q \in Stored \cup pul.add}
      BY <2>2, <3>1 DEF Planned, Stored
    <3> QED
      BY <2>2, <3>1, <3>2, <3>3
  <2> QED
    BY <2>5, <2>6
<1>3. CASE AddInsert
  <2> DEFINE p == [pul EXCEPT !.row = NoRow]
  <2>1. /\ pul.pc = "insert" /\ pul' = Onward(p) /\ pul.del = {} /\ pul.row \in Row
        /\ stored' = [stored EXCEPT ![pul.row] = @ + 1]
    BY <1>3 DEF AddInsert, TypeInv, TypeOK
  <2>2. /\ p \in Puller /\ p.servers = pul.servers /\ p.todo = pul.todo /\ p.ip = pul.ip
        /\ p.del = {} /\ p.add = pul.add /\ p.row = NoRow
    BY <2>1 DEF TypeInv, TypeOK, Puller
  <2> HIDE DEF p
  <2>3. Turns(pul') /\ Carries(pul', p)
    BY <2>1, <2>2, OnwardCarries
  <2>4. Stored' = Stored \cup {pul.row}
    BY <2>1 DEF Stored, TypeInv, TypeOK
  <2>5. Planned' = Planned
    BY <2>1, <2>2, <2>3, <2>4, RowsArePairs DEF Carries, Planned
  <2> QED
    BY <2>1, <2>2, <2>3, <2>5 DEF Carries
<1> QED
  BY <1>1, <1>2, <1>3

\* Every step, a fault included, keeps what the puller holds at its point.
LEMMA PlanStep == RoundInv /\ [Next]_vars => PlanInv'
<1> SUFFICES ASSUME RoundInv, [Next]_vars PROVE PlanInv'
  OBVIOUS
<1> USE DEF RoundInv, PlanInv
<1>1. CASE pul' = pul
  BY <1>1
<1>2. CASE PullServers
  BY <1>2, PullServersEffect DEF Turns
<1>3. CASE PullInstances
  BY <1>3, PullInstancesEffect DEF Turns
<1>4. CASE Detect
  BY <1>4, DetectEffect DEF Turns
<1>5. CASE Compare
  BY <1>5, CompareEffect DEF Turns
<1>6. CASE DelDbs \/ AddCheck \/ AddInsert
  BY <1>6, PostEffect DEF Turns
<1>7. CASE LoseAnswer
  <2>1. PICK c \in Calls :
          pul' = Onward([pul EXCEPT !.del = {}, !.row = NoRow,
                           !.add = IF c.pc = "add" THEN @ \ c.rows ELSE @])
    BY <1>7 DEF LoseAnswer
  <2> DEFINE p == [pul EXCEPT !.del = {}, !.row = NoRow,
                     !.add = IF c.pc = "add" THEN @ \ c.rows ELSE @]
  <2>2. p \in Puller /\ p.del = {} /\ p.row = NoRow
    BY DEF TypeInv, TypeOK, Puller
  <2>3. pul' = Onward(p)
    BY <2>1
  <2> HIDE DEF p
  <2> QED
    BY <2>2, <2>3, OnwardCarries DEF Turns, Carries
<1>8. CASE RoundCut
  BY <1>8 DEF RoundCut, PullerIdle
<1>9. ASSUME NEW a \in Admin,
             \/ AdminBegins(a) \/ AdminGoesOn(a) \/ AdminFails(a)
             \/ \E s \in 1 .. servers : DeleteBegin(a, s)
      PROVE  pul' = pul
  BY <1>9, AdminFrame DEF TypeInv
<1>10. ASSUME NEW h \in late, LateStep(h) \/ LateFails(h)
       PROVE  pul' = pul
  BY <1>10 DEF LateStep, LateDelete, LateCheck, LateInsert, LateFails
<1>11. CASE Change \/ UNCHANGED vars
  BY <1>1, <1>11 DEF Change, vars
<1> QED
  BY <1>1, <1>2, <1>3, <1>4, <1>5, <1>6, <1>7, <1>8, <1>9, <1>10, <1>11 DEF Next, PullerStep

\* The puller changes no server, no instance and no target.
LEMMA RestStep ==
  ASSUME Calm
  PROVE  /\ UNCHANGED vars \/ (PullerStep /\ Steady)
         /\ UNCHANGED <<serverVars, instanceVars, adm, late, actual>>
<1>1. CASE UNCHANGED vars
  BY <1>1 DEF vars
<1>2. CASE PullerStep /\ Steady
  BY <1>2 DEF PullerStep, PullServers, PullInstances, Detect, Compare, DelDbs, AddCheck,
     AddInsert
<1> QED
  BY <1>1, <1>2 DEF Calm, OnlyRounds

\* A round that begins when only the puller moves will repair everything.
LEMMA RoundBegins ==
  ASSUME RoundInv, pul.pc = "idle", [Next]_vars, Calm
  PROVE  pul'.pc = "idle" \/ Repairing'
<1>1. UNCHANGED <<serverVars, instanceVars, actual>>
  BY RestStep
<1>2. CASE pul' = pul
  BY <1>2
<1>3. CASE pul' # pul
  <2>1. PullServers
    BY <1>3, RestStep DEF RoundInv, vars, PullerStep, PullInstances, Detect, Compare, DelDbs,
       AddCheck, AddInsert
  <2>2. pul'.servers = ServerRows /\ pul'.todo = {} /\ pul'.pc # "compare"
    BY <2>1, PullServersEffect DEF Turns
  <2>3. \A i \in instance : Addressed(i) => <<i.server, server[i.server]>> \in ServerRows
    BY DEF Addressed, ServerRows, RoundInv, TypeInv, TypeOK, Instance, ServerId, NoServer
  <2>4. UpToDate'
    BY <1>1, <2>2 DEF UpToDate, ServerRows
  <2>5. Covered'
    BY <1>1, <2>2, <2>3 DEF Covered, Awaits, Addressed
  <2> QED
    BY <1>1, <2>4, <2>5 DEF Repairing
<1> QED
  BY <1>2, <1>3

\* The round goes on repairing, whatever it is doing.
LEMMA RepairStep ==
  ASSUME RoundInv, Repairing, [Next]_vars, Calm
  PROVE  Repairing'
<1> USE DEF RoundInv, TypeInv, Repairing
<1>1. /\ UNCHANGED vars \/ (PullerStep /\ Steady)
      /\ server' = server /\ instance' = instance /\ actual' = actual
  BY RestStep
<1>2. UNCHANGED ServerRows
  BY <1>1 DEF ServerRows
<1>3. \A i \in instance : i.id \in InstanceId /\ i.server \in ServerId \cup {NoServer}
  BY DEF TypeOK, Instance
<1>4. CASE UNCHANGED vars
  BY <1>1, <1>2, <1>4 DEF vars, UpToDate, Covered, Addressed, There, Awaits, Names, Planned,
     Stored
<1>5. CASE PullServers
  <2>1. pul'.servers = ServerRows /\ pul'.todo = {} /\ pul'.pc # "compare"
    BY <1>5, PullServersEffect DEF Turns
  <2>2. \A i \in instance : Addressed(i) => <<i.server, server[i.server]>> \in ServerRows
    BY <1>3 DEF Addressed, ServerRows
  <2>3. UpToDate'
    BY <1>2, <2>1 DEF UpToDate
  <2>4. Covered'
    BY <1>1, <2>1, <2>2 DEF Covered, Awaits, Addressed
  <2> QED
    BY <1>1, <2>3, <2>4
<1>6. CASE PullInstances
  <2>1. PICK s \in pul.servers :
          /\ pul'.servers = pul.servers \ {s} /\ pul'.todo = InstancesOf(s[1])
          /\ pul'.todo # {} => pul'.ip = s[2]
    BY <1>6, PullInstancesEffect
  <2>2. /\ pul.pc = "servers" /\ pul'.pc # "compare" /\ pul.todo = {}
        /\ pul.del = {} /\ pul.add = {} /\ pul.row = NoRow
        /\ pul'.del = {} /\ pul'.add = {} /\ pul'.row = NoRow /\ stored' = stored
    BY <1>6, PullInstancesEffect DEF Turns, PlanInv, PullInstances
  <2>3. s[1] \in ServerId /\ s = <<s[1], s[2]>> /\ server[s[1]] = s[2]
    BY DEF UpToDate, ServerRows
  <2>4. UpToDate'
    <3>1. \A i \in pul'.todo : i \in instance /\ i.server # NoServer /\ server[i.server] = pul'.ip
      BY <2>1, <2>3 DEF InstancesOf, NoServer, ServerId
    <3> QED
      BY <1>1, <1>2, <2>1, <2>2, <3>1 DEF UpToDate
  <2>5. ASSUME NEW i \in instance, Addressed(i)
        PROVE  Awaits(i)' \/ Names(i, Planned)' = There(i)
    <3>1. CASE <<i.server, server[i.server]>> \in pul.servers
      <4>1. CASE <<i.server, server[i.server]>> = s
        <5>1. i.server = s[1]
          BY <2>3, <4>1
        <5> QED
          BY <2>1, <5>1 DEF Awaits, InstancesOf
      <4>2. CASE <<i.server, server[i.server]>> # s
        BY <1>1, <2>1, <3>1, <4>2 DEF Awaits
      <4> QED
        BY <4>1, <4>2
    <3>2. CASE <<i.server, server[i.server]>> \notin pul.servers
      <4>1. Names(i, Planned) = There(i)
        BY <2>2, <2>5, <3>2 DEF Covered, Awaits
      <4>2. Planned' = Planned
        BY <2>2 DEF Planned, Stored
      <4> QED
        BY <4>1, <4>2 DEF Names
    <3> QED
      BY <3>1, <3>2
  <2> QED
    BY <1>1, <2>4, <2>5 DEF Covered, Addressed, There
<1>7. CASE Detect /\ Steady
  <2>1. PICK j \in pul.todo :
          /\ pul'.servers = pul.servers /\ pul'.todo = pul.todo \ {j}
          /\ pul'.ip = pul.ip /\ pul'.pc = "compare" /\ pul'.ins = j.id
          /\ pul'.found = actual[<<pul.ip, j.port>>]
    BY <1>7, DetectEffect
  <2>2. /\ pul.pc = "instances" /\ pul.del = {} /\ pul.add = {} /\ pul.row = NoRow
        /\ pul'.del = {} /\ pul'.add = {} /\ pul'.row = NoRow /\ stored' = stored
    BY <1>7, DetectEffect DEF PlanInv, Detect
  <2>3. j \in instance /\ j.server # NoServer /\ server[j.server] = pul.ip /\ pul.ip \in Ip
    BY DEF UpToDate, AddressOK
  <2>4. Addressed(j) /\ pul'.found = There(j)
    BY <2>1, <2>3 DEF Addressed, There
  <2>5. UpToDate'
    BY <1>1, <1>2, <2>1, <2>3, <2>4 DEF UpToDate, Addressed, There
  <2>6. ASSUME NEW i \in instance, Addressed(i)
        PROVE  Awaits(i)' \/ Names(i, Planned)' = There(i)
    <3>1. CASE Awaits(i)
      BY <1>1, <2>1, <2>2, <3>1 DEF Awaits
    <3>2. CASE ~Awaits(i)
      <4>1. Names(i, Planned) = There(i)
        BY <2>6, <3>2 DEF Covered
      <4>2. Planned' = Planned
        BY <2>2 DEF Planned, Stored
      <4> QED
        BY <4>1, <4>2 DEF Names
    <3> QED
      BY <3>1, <3>2
  <2> QED
    BY <1>1, <2>5, <2>6 DEF Covered, Addressed, There
<1>8. CASE Compare
  <2>1. /\ pul.pc = "compare" /\ pul'.pc # "compare"
        /\ pul'.servers = pul.servers /\ pul'.todo = pul.todo
        /\ pul'.todo # {} => pul'.ip = pul.ip
        /\ pul'.del = Gone /\ pul'.add = FoundRows \ StoredRows /\ pul'.row = NoRow
        /\ stored' = stored
    BY <1>8, CompareEffect DEF Turns, Compare
  <2>2. PICK j \in instance : j.id = pul.ins /\ Addressed(j) /\ pul.found = There(j)
    BY <2>1 DEF UpToDate
  <2>3. UpToDate'
    BY <1>1, <1>2, <2>1 DEF UpToDate
  <2>4. ASSUME NEW i \in instance, Addressed(i)
        PROVE  Awaits(i)' \/ Names(i, Planned)' = There(i)
    <3>1. CASE i.id = pul.ins
      <4>1. i = j
        BY <2>2, <3>1 DEF IdInv
      <4>2. pul.found \subseteq Db
        BY DEF TypeOK, Puller
      <4>3. \A d \in Db : <<i.id, d>> \in Planned' <=> d \in pul.found
        BY <1>3, <2>1, <3>1, RowsArePairs DEF Planned, Stored, Gone, StoredRows, FoundRows, Row
      <4> QED
        BY <2>2, <4>1, <4>2, <4>3 DEF Names
    <3>2. CASE i.id # pul.ins /\ Awaits(i)
      BY <1>1, <2>1, <3>2 DEF Awaits
    <3>3. CASE i.id # pul.ins /\ ~Awaits(i)
      <4>1. Names(i, Planned) = There(i)
        BY <2>4, <3>3 DEF Covered
      <4>2. \A d \in Db : <<i.id, d>> \in Planned' <=> <<i.id, d>> \in Planned
        BY <2>1, <3>3, RowsArePairs DEF PlanInv, Planned, Stored, Gone, StoredRows, FoundRows, Row
      <4> QED
        BY <4>1, <4>2 DEF Names
    <3> QED
      BY <3>1, <3>2, <3>3
  <2> QED
    BY <1>1, <2>3, <2>4 DEF Covered, Addressed, There
<1>9. CASE DelDbs \/ AddCheck \/ AddInsert
  <2>1. /\ pul.pc # "compare" /\ pul'.pc # "compare"
        /\ pul'.servers = pul.servers /\ pul'.todo = pul.todo
        /\ pul'.todo # {} => pul'.ip = pul.ip
        /\ Planned' = Planned
    BY <1>9, PostEffect DEF Turns
  <2>2. UpToDate'
    BY <1>1, <1>2, <2>1 DEF UpToDate
  <2>3. Covered'
    BY <1>1, <2>1 DEF Covered, Awaits, Addressed, There, Names
  <2> QED
    BY <1>1, <2>2, <2>3
<1> QED
  BY <1>1, <1>4, <1>5, <1>6, <1>7, <1>8, <1>9 DEF PullerStep

\* Accuracy is about the names stored for an instance with an address.
LEMMA AccurateMeans ==
  ASSUME TypeInv
  PROVE  Accurate <=> \A i \in instance : Addressed(i) => Names(i, Stored) = There(i)
<1>1. \A i \in instance : i.id \in InstanceId /\ i.server \in ServerId \cup {NoServer}
  BY DEF TypeInv, TypeOK, Instance
<1>2. \A s \in ServerId : server[s] \in Ip \cup {NoIp}
  BY DEF TypeInv, TypeOK
<1>3. \A i \in instance : Names(i, Stored) = {d \in Db : stored[<<i.id, d>>] > 0}
  BY <1>1 DEF Names, Stored, Row
<1> QED
  BY <1>1, <1>2, <1>3 DEF Accurate, Addressed, There

\* A round that ends after repairing leaves everything exact.
LEMMA RepairedIsSettled ==
  ASSUME RoundInv, Repairing, pul.pc = "idle"
  PROVE  Settled
<1>1. /\ pul.servers = {} /\ pul.todo = {} /\ pul.del = {} /\ pul.add = {} /\ pul.row = NoRow
  BY DEF RoundInv, PlanInv
<1>2. Planned = Stored
  BY <1>1, RowsArePairs DEF Planned, Stored
<1>3. \A i \in instance : Addressed(i) => Names(i, Stored) = There(i)
  BY <1>1, <1>2 DEF Repairing, Covered, Awaits
<1> QED
  BY <1>1, <1>3, AccurateMeans DEF RoundInv, Repairing, Settled

\* Without a server there is nothing to repair.
LEMMA NoServersAreSettled ==
  ASSUME RoundInv, pul.pc = "idle", ServerRows = {}
  PROVE  Settled
<1>1. /\ pul.servers = {} /\ pul.todo = {} /\ pul.del = {} /\ pul.add = {} /\ pul.row = NoRow
  BY DEF RoundInv, PlanInv
<1>2. ASSUME NEW i \in instance, Addressed(i) PROVE FALSE
  <2>1. i.server \in ServerId /\ server[i.server] # NoIp
    BY <1>2 DEF Addressed, RoundInv, TypeInv, TypeOK, Instance
  <2>2. <<i.server, server[i.server]>> \in ServerRows
    BY <2>1 DEF ServerRows
  <2> QED
    BY <2>2
<1>3. UpToDate
  BY <1>1 DEF UpToDate
<1> QED
  BY <1>1, <1>2, <1>3, AccurateMeans DEF RoundInv, Settled

\* What is exact stays so: the rounds find what is stored, and post nothing.
LEMMA SettledStep ==
  ASSUME RoundInv, Settled, [Next]_vars, Calm
  PROVE  Settled'
<1> USE DEF RoundInv, Settled
<1>1. /\ UNCHANGED vars \/ (PullerStep /\ Steady)
      /\ server' = server /\ instance' = instance /\ actual' = actual
  BY RestStep
<1>2. \A i \in instance : Addressed(i) => Names(i, Stored) = There(i)
  BY AccurateMeans
<1>3. Repairing
  <2>1. Planned = Stored
    BY RowsArePairs DEF Planned, Stored
  <2> QED
    BY <1>2, <2>1 DEF Repairing, Covered
<1>4. Repairing'
  BY <1>3, RepairStep
<1>5. ASSUME stored' = stored PROVE Accurate'
  BY <1>1, <1>5 DEF Accurate
<1>6. pul.pc # "insert"
  BY RowsArePairs DEF TypeInv, TypeOK
<1>7. stored' = stored /\ pul'.del = {} /\ pul'.add = {} /\ pul'.row = NoRow
  <2>1. CASE UNCHANGED vars
    BY <2>1 DEF vars
  <2>2. CASE PullServers
    BY <2>2, PullServersEffect DEF PullServers
  <2>3. CASE PullInstances
    BY <2>3, PullInstancesEffect DEF PullInstances
  <2>4. CASE Detect
    BY <2>4, DetectEffect DEF Detect
  <2>5. CASE Compare
    <3>1. /\ pul.pc = "compare" /\ stored' = stored
          /\ pul'.del = Gone /\ pul'.add = FoundRows \ StoredRows /\ pul'.row = NoRow
      BY <2>5, CompareEffect DEF Compare
    <3>2. PICK j \in instance : j.id = pul.ins /\ Addressed(j) /\ pul.found = There(j)
      BY <3>1 DEF UpToDate
    <3>3. Names(j, Stored) = pul.found
      BY <1>2, <3>2
    <3>4. StoredRows = FoundRows
      <4>1. pul.ins \in InstanceId /\ pul.found \subseteq Db
        BY <3>1 DEF TypeInv, TypeOK, Puller
      <4>2. \A d \in Db : stored[<<pul.ins, d>>] > 0 <=> d \in pul.found
        BY <3>2, <3>3, <4>1 DEF Names, Stored, Row
      <4> QED
        BY <4>1, <4>2 DEF StoredRows, FoundRows, Row
    <3> QED
      BY <3>1, <3>4 DEF Gone
  <2>6. CASE DelDbs
    <3>1. pul.pc = "del" /\ DeleteRows({})
      BY <2>6 DEF DelDbs
    <3>2. stored' = stored
      BY <3>1 DEF DeleteRows, TypeInv, TypeOK
    <3> DEFINE p == [pul EXCEPT !.del = {}]
    <3>3. p \in Puller /\ p.del = {} /\ p.add = {} /\ p.row = NoRow
      BY DEF TypeInv, TypeOK, Puller
    <3>4. pul' = Onward(p)
      BY <2>6 DEF DelDbs
    <3> HIDE DEF p
    <3> QED
      BY <3>2, <3>3, <3>4, OnwardCarries DEF Carries
  <2>7. CASE AddCheck \/ AddInsert
    BY <1>6, <2>7 DEF AddCheck, AddInsert
  <2> QED
    BY <1>1, <2>1, <2>2, <2>3, <2>4, <2>5, <2>6, <2>7 DEF PullerStep
<1> QED
  BY <1>4, <1>5, <1>7 DEF Repairing

\* Rounds end, and begin again unless there is no server to ask for.
RoundOver  == pul.pc = "idle"
NoServers  == ServerRows = {}
RoundsGoOn == []<>RoundOver /\ []<>(~RoundOver \/ NoServers)

\* The stored databases become accurate and stay so, in every instance: when nobody but
\* the puller is at work and rounds keep ending and beginning, it takes the first round
\* that begins afterwards, and no later round undoes it.  Fairness is used for nothing
\* but those premises.
THEOREM RoundsConverge ==
  Spec /\ <>[][OnlyRounds]_vars /\ RoundsGoOn => Converges
<1>1. Init => RoundInv
  BY TypeInit DEF Init, RoundInv, IdInv, PlanInv, PullerIdle
<1>2. RoundInv /\ [Next]_vars => RoundInv'
  BY TypeStep, IdStep, PlanStep DEF RoundInv
<1>3. RoundInv /\ RoundOver /\ [Next]_vars /\ [OnlyRounds]_vars
        => RoundOver' \/ Repairing'
  BY RoundBegins DEF Calm, RoundOver
<1>4. RoundInv /\ Repairing /\ [Next]_vars /\ [OnlyRounds]_vars => Repairing'
  BY RepairStep DEF Calm
<1>5. RoundInv /\ Repairing /\ RoundOver => Settled
  BY RepairedIsSettled DEF RoundOver
<1>6. RoundInv /\ RoundOver /\ NoServers => Settled
  BY NoServersAreSettled DEF RoundOver, NoServers
<1>7. RoundInv /\ Settled /\ [Next]_vars /\ [OnlyRounds]_vars => Settled'
  BY SettledStep DEF Calm
<1>8. Settled => Accurate
  BY DEF Settled
<1> QED
  BY <1>1, <1>2, <1>3, <1>4, <1>5, <1>6, <1>7, <1>8, PTL
     DEF Spec, RoundsGoOn, Converges
=============================================================================
