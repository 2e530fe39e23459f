----------------------------- MODULE AccessProofs -----------------------------
(***************************************************************************)
(* Proofs about Access, for any number of collectors, threads, groups,     *)
(* servers and users: types, selections, duplicates, promotions, and what  *)
(* it takes for a group to get its department.                             *)
(***************************************************************************)
EXTENDS AccessProperties, TLAPS

\* What the locals hold: a collector never the name of the company, a commit its
\* department, a login its user.
ColOK == \A c \in Collector : col[c] \subseteq Group \ {Excluded}

ThrOK ==
  \A t \in Thread :
    /\ thr[t].pc \in {"diff", "add", "del"} => thr[t].dept \in DeptId
    /\ thr[t].pc \in {"loadRole", "update", "addUser"} =>
         thr[t].user \in User /\ thr[t].dept = NoDept
    /\ thr[t].pc = "idle" => thr[t] = Idle

TypeInv == TypeOK /\ ColOK /\ ThrOK

-----------------------------------------------------------------------------
(* Types *)

\* The department of an idle thread is none.
LEMMA NoDeptIsNoId == NoDept \notin DeptId
  BY AccessAssumption

\* An idle thread has the type.
LEMMA IdleType == Idle \in ThreadType
  BY DEF Idle, ThreadType, Role

\* A thread gets a state of the type that suits its point.
LEMMA ThreadStep ==
  ASSUME TypeInv, NEW t \in Thread, NEW r \in ThreadType, thr' = [thr EXCEPT ![t] = r],
         r.pc \in {"diff", "add", "del"} => r.dept \in DeptId,
         r.pc \in {"loadRole", "update", "addUser"} => r.user \in User /\ r.dept = NoDept,
         r.pc = "idle" => r = Idle
  PROVE  thr' \in [Thread -> ThreadType] /\ ThrOK'
  <1>1. thr \in [Thread -> ThreadType] /\ ThrOK
    BY DEF TypeInv, TypeOK
  <1>2. thr'[t] = r /\ \A x \in Thread : x # t => thr'[x] = thr[x]
    BY <1>1
  <1>3. thr' \in [Thread -> ThreadType]
    BY <1>1
  <1>4. ASSUME NEW x \in Thread
        PROVE  /\ thr'[x].pc \in {"diff", "add", "del"} => thr'[x].dept \in DeptId
               /\ thr'[x].pc \in {"loadRole", "update", "addUser"} =>
                    thr'[x].user \in User /\ thr'[x].dept = NoDept
               /\ thr'[x].pc = "idle" => thr'[x] = Idle
    <2>1. CASE x = t
      BY <1>2, <2>1
    <2>2. CASE x # t
      <3>1. thr'[x] = thr[x]
        BY <1>2, <2>2
      <3>2. QED
        BY <1>1, <3>1 DEF ThrOK
    <2>3. QED
      BY <2>1, <2>2
  <1>5. QED
    BY <1>3, <1>4 DEF ThrOK

\* A thread that returns is idle.
LEMMA ThreadEnds ==
  ASSUME TypeInv, NEW t \in Thread, thr' = [thr EXCEPT ![t] = Idle]
  PROVE  thr' \in [Thread -> ThreadType] /\ ThrOK'
  <1>1. Idle.pc = "idle"
    BY DEF Idle
  <1>2. QED
    BY <1>1, IdleType, ThreadStep

\* Steps that leave the threads alone.
LEMMA ThreadsRest ==
  ASSUME TypeInv, thr' = thr
  PROVE  thr' \in [Thread -> ThreadType] /\ ThrOK'
  BY DEF TypeInv, TypeOK, ThrOK

\* Events are counted.
LEMMA Counted == TypeInv /\ Event => events' \in Nat
  <1>1. TypeInv => events \in Nat
    BY DEF TypeInv, TypeOK
  <1>2. ASSUME events \in Nat, Event PROVE events' \in Nat
    BY <1>2 DEF Event
  <1>3. QED
    BY <1>1, <1>2

\* Every step keeps the types.
LEMMA TypeStep == TypeInv /\ [Next]_vars => TypeInv'
  <1> SUFFICES ASSUME TypeInv, [Next]_vars PROVE TypeInv'
    OBVIOUS
  <1>0. /\ thr \in [Thread -> ThreadType] /\ col \in [Collector -> SUBSET Group]
        /\ deptRows \in [Group -> Nat] /\ deptRows[Excluded] = 0
        /\ selected \in [DeptId \X Server -> Nat]
        /\ batch \in [DeptId -> SUBSET SUBSET Server] /\ torn \subseteq DeptId
        /\ ldap \subseteq Group /\ double \subseteq Group
        /\ servers \subseteq Server
        /\ ColOK /\ ThrOK
    BY DEF TypeInv, TypeOK
  <1>1. ASSUME NEW c \in Collector, CollectRead(c) PROVE TypeInv'
    <2>1. ToAdd(ldap) \subseteq Group \ {Excluded}
      BY <1>0 DEF ToAdd
    <2>2. col' = [col EXCEPT ![c] = ToAdd(ldap)]
      BY <1>1 DEF CollectRead
    <2>3. col' \in [Collector -> SUBSET Group] /\ ColOK'
      BY <1>0, <2>1, <2>2 DEF ColOK
    <2>4. double' = double \cup UNION {ToAdd(ldap) \cap col[b] : b \in Collector \ {c}}
      BY <1>1 DEF CollectRead
    <2>5. double' \subseteq Group
      BY <1>0, <2>1, <2>4
    <2>6. thr' = thr
      BY <1>1 DEF CollectRead
    <2>7. QED
      BY <1>1, <2>3, <2>5, <2>6, ThreadsRest
      DEF CollectRead, TypeInv, TypeOK, accessVars, userVars
  <1>2. ASSUME NEW c \in Collector, NEW g \in Group, CollectInsert(c, g) PROVE TypeInv'
    <2>1. /\ g \in Group \ {Excluded} /\ col' = [col EXCEPT ![c] = @ \ {g}] /\ thr' = thr
          /\ deptRows' = [deptRows EXCEPT ![g] = @ + 1]
      BY <1>0, <1>2 DEF CollectInsert, ColOK
    <2>2. deptRows' \in [Group -> Nat] /\ deptRows'[Excluded] = 0
      BY <1>0, <2>1, AccessAssumption
    <2>3. col' \in [Collector -> SUBSET Group] /\ ColOK'
      BY <1>0, <2>1 DEF ColOK
    <2>4. QED
      BY <1>2, <2>1, <2>2, <2>3, ThreadsRest
      DEF CollectInsert, TypeInv, TypeOK, accessVars, userVars
  <1>3. ASSUME NEW c \in Collector, CollectAbort(c) PROVE TypeInv'
    <2>1. col' = [col EXCEPT ![c] = {}] /\ thr' = thr
      BY <1>3 DEF CollectAbort
    <2>2. col' \in [Collector -> SUBSET Group] /\ ColOK'
      BY <1>0, <2>1 DEF ColOK
    <2>3. events' \in Nat
      BY <1>3, Counted DEF CollectAbort
    <2>4. QED
      BY <2>3, <1>3, <2>1, <2>2, ThreadsRest
      DEF CollectAbort, TypeInv, TypeOK, accessVars, userVars
  <1>4. ASSUME NEW g \in Group, LdapChanges(g) PROVE TypeInv'
    <2>1. thr' = thr /\ col' = col
      BY <1>4 DEF LdapChanges, collectVars
    <2>2. events' \in Nat
      BY <1>4, Counted DEF LdapChanges
    <2>3. QED
      BY <1>0, <1>4, <2>1, <2>2, ThreadsRest
      DEF LdapChanges, TypeInv, TypeOK, ColOK, accessVars, userVars, collectVars
  <1>5. ASSUME NEW s \in Server, ServerDeleted(s) PROVE TypeInv'
    <2>1. thr' = thr /\ col' = col
      BY <1>5 DEF ServerDeleted, collectVars
    <2>2. events' \in Nat
      BY <1>5, Counted DEF ServerDeleted
    <2>3. QED
      BY <1>0, <1>5, <2>1, <2>2, ThreadsRest
      DEF ServerDeleted, TypeInv, TypeOK, ColOK, accessVars, userVars, collectVars
  <1>6. ASSUME NEW u \in User, Promote(u) PROVE TypeInv'
    <2>1. thr' = thr /\ col' = col
      BY <1>6 DEF Promote, collectVars
    <2>2. events' \in Nat
      BY <1>6, Counted DEF Promote
    <2>3. roles' \in [User -> SUBSET Role]
      BY <1>6 DEF Promote, TypeInv, TypeOK, Role
    <2>4. QED
      BY <1>0, <1>6, <2>1, <2>2, <2>3, ThreadsRest
      DEF Promote, TypeInv, TypeOK, ColOK, accessVars, userVars, collectVars
  <1>7. ASSUME NEW t \in Thread, Abort(t) PROVE TypeInv'
    <2>1. thr' \in [Thread -> ThreadType] /\ ThrOK' /\ col' = col
      BY <1>7, ThreadEnds DEF Abort, collectVars
    <2>2. thr[t].dept \in DeptId \cup {NoDept}
      BY <1>0 DEF ThreadType
    <2>3. torn' \subseteq DeptId
      BY <1>0, <1>7, <2>2 DEF Abort
    <2>4. events' \in Nat
      BY <1>7, Counted DEF Abort
    <2>5. QED
      BY <1>0, <1>7, <2>1, <2>3, <2>4 DEF Abort, TypeInv, TypeOK, ColOK, userVars, collectVars
  <1>8. ASSUME NEW t \in Thread, NEW d \in DeptId, NEW sel \in SUBSET Server,
               CommitBegin(t, d, sel)
        PROVE  TypeInv'
    <2> DEFINE r == [Idle EXCEPT !.pc = "diff", !.dept = d, !.sel = sel \cap servers]
    <2>1. r \in ThreadType /\ r.pc = "diff" /\ r.dept = d
      BY DEF Idle, ThreadType, Role
    <2>2. thr' = [thr EXCEPT ![t] = r]
      BY <1>8 DEF CommitBegin
    <2>3. thr' \in [Thread -> ThreadType] /\ ThrOK'
      <3> HIDE DEF r
      <3>1. QED
        BY <2>1, <2>2, ThreadStep
    <2>4. /\ batch' = [batch EXCEPT ![d] = IF Busy(d) = {} THEN {sel \cap servers}
                                           ELSE @ \cup {sel \cap servers}]
          /\ torn' \subseteq torn /\ col' = col
      BY <1>8 DEF CommitBegin, collectVars
    <2>5. batch' \in [DeptId -> SUBSET SUBSET Server] /\ torn' \subseteq DeptId
      BY <1>0, <2>4
    <2>6. events' \in Nat
      BY <1>8, Counted DEF CommitBegin
    <2>7. QED
      BY <1>0, <1>8, <2>3, <2>4, <2>5, <2>6
      DEF CommitBegin, TypeInv, TypeOK, ColOK, userVars, collectVars
  <1>9. ASSUME NEW t \in Thread, CommitDiff(t) PROVE TypeInv'
    <2> DEFINE diff == diffServerIdList(Allowed(thr[t].dept) \cap servers, thr[t].sel)
               r == [thr[t] EXCEPT !.pc = "add", !.add = diff.add, !.del = diff.del]
    <2>1. thr[t] \in ThreadType /\ thr[t].dept \in DeptId
      BY <1>0, <1>9 DEF CommitDiff, At, ThrOK
    <2>2. thr[t].sel \subseteq Server
      BY <2>1 DEF ThreadType
    <2>3. diff.add \subseteq Server /\ diff.del \subseteq Server
      BY <1>0, <2>2 DEF diffServerIdList
    <2>4. thr' = [thr EXCEPT ![t].pc = "add", ![t].add = diff.add, ![t].del = diff.del]
      BY <1>9 DEF CommitDiff
    <2>5. r \in ThreadType /\ r.pc = "add" /\ r.dept = thr[t].dept
      <3> HIDE DEF diff
      <3>1. QED
        BY <2>1, <2>3 DEF ThreadType
    <2>6. thr' = [thr EXCEPT ![t] = r]
      <3> HIDE DEF diff
      <3>1. QED
        BY <1>0, <2>4 DEF ThreadType
    <2>7. thr' \in [Thread -> ThreadType] /\ ThrOK'
      <3> HIDE DEF r
      <3>1. QED
        BY <2>1, <2>5, <2>6, ThreadStep
    <2>8. raced' = raced \cup {<<thr[t].dept, s>> : s \in diff.add \cap
                     UNION {thr[u].add : u \in {x \in Busy(thr[t].dept) \ {t} : At(x, "add")}}}
      BY <1>9 DEF CommitDiff
    <2>9. raced' \subseteq (DeptId \X Server) \cup User
      <3> HIDE DEF diff
      <3>1. raced \subseteq (DeptId \X Server) \cup User
        BY DEF TypeInv, TypeOK
      <3>2. \A s \in diff.add : <<thr[t].dept, s>> \in DeptId \X Server
        BY <2>1, <2>3
      <3>3. QED
        BY <2>8, <3>1, <3>2
    <2>10. QED
      BY <1>0, <1>9, <2>7, <2>9 DEF CommitDiff, TypeInv, TypeOK, ColOK, userVars, collectVars
  <1>10. ASSUME NEW t \in Thread, CommitAdd(t) PROVE TypeInv'
    <2> DEFINE r == [thr[t] EXCEPT !.pc = "del", !.add = {}]
    <2>1. thr[t] \in ThreadType /\ thr[t].dept \in DeptId
      BY <1>0, <1>10 DEF CommitAdd, At, ThrOK
    <2>2. r \in ThreadType /\ r.pc = "del" /\ r.dept = thr[t].dept
      BY <2>1 DEF ThreadType
    <2>3. thr' = [thr EXCEPT ![t].pc = "del", ![t].add = {}]
      BY <1>10 DEF CommitAdd
    <2>4. thr' = [thr EXCEPT ![t] = r]
      BY <1>0, <2>3 DEF ThreadType
    <2>5. thr' \in [Thread -> ThreadType] /\ ThrOK'
      <3> HIDE DEF r
      <3>1. QED
        BY <2>1, <2>2, <2>4, ThreadStep
    <2>6. selected' \in [DeptId \X Server -> Nat]
      <3>1. \A x \in DeptId \X Server :
              selected[x] + (IF x[1] = thr[t].dept /\ x[2] \in thr[t].add THEN 1 ELSE 0) \in Nat
        BY <1>0
      <3>2. QED
        BY <1>10, <3>1 DEF CommitAdd
    <2>7. QED
      BY <1>0, <1>10, <2>5, <2>6 DEF CommitAdd, TypeInv, TypeOK, ColOK, userVars, collectVars
  <1>11. ASSUME NEW t \in Thread, CommitDel(t) PROVE TypeInv'
    <2>1. thr' \in [Thread -> ThreadType] /\ ThrOK'
      BY <1>11, ThreadEnds DEF CommitDel
    <2>2. selected' \in [DeptId \X Server -> Nat]
      BY <1>0, <1>11 DEF CommitDel
    <2>3. QED
      BY <1>0, <1>11, <2>1, <2>2 DEF CommitDel, TypeInv, TypeOK, ColOK, userVars, collectVars
  <1>12. ASSUME NEW t \in Thread, NEW u \in User, LoginCheck(t, u) PROVE TypeInv'
    <2> DEFINE r == [Idle EXCEPT !.user = u,
                       !.pc = IF userRows[u] > 0 THEN "loadRole" ELSE "addUser"]
    <2>1. r \in ThreadType /\ r.pc \in {"loadRole", "addUser"} /\ r.user = u /\ r.dept = NoDept
      BY DEF Idle, ThreadType, Role
    <2>2. thr' = [thr EXCEPT ![t] = r]
      BY <1>12 DEF LoginCheck
    <2>3. thr' \in [Thread -> ThreadType] /\ ThrOK'
      <3> HIDE DEF r
      <3>1. QED
        BY <2>1, <2>2, ThreadStep
    <2>4. events' \in Nat
      BY <1>12, Counted DEF LoginCheck
    <2>5. QED
      BY <1>0, <1>12, <2>3, <2>4 DEF LoginCheck, TypeInv, TypeOK, ColOK, userVars, collectVars
  <1>13. ASSUME NEW t \in Thread, LoginLoadRole(t) PROVE TypeInv'
    <2>1. PICK x \in roles[thr[t].user] : thr' = [thr EXCEPT ![t].pc = "update", ![t].role = x]
      BY <1>13 DEF LoginLoadRole
    <2>2. thr[t] \in ThreadType /\ thr[t].user \in User /\ thr[t].dept = NoDept
      BY <1>0, <1>13 DEF LoginLoadRole, At, ThrOK
    <2>3. x \in Role
      BY <2>1, <2>2 DEF TypeInv, TypeOK
    <2> DEFINE r == [thr[t] EXCEPT !.pc = "update", !.role = x]
    <2>4. r \in ThreadType /\ r.pc = "update" /\ r.user \in User /\ r.dept = NoDept
      BY <2>2, <2>3 DEF ThreadType
    <2>5. thr' = [thr EXCEPT ![t] = r]
      BY <1>0, <2>1 DEF ThreadType
    <2>6. thr' \in [Thread -> ThreadType] /\ ThrOK'
      <3> HIDE DEF r
      <3>1. QED
        BY <2>4, <2>5, ThreadStep
    <2>7. QED
      BY <1>0, <1>13, <2>6
      DEF LoginLoadRole, TypeInv, TypeOK, ColOK, accessVars, userVars, collectVars
  <1>14. ASSUME NEW t \in Thread, LoginUpdate(t) PROVE TypeInv'
    <2>1. thr' \in [Thread -> ThreadType] /\ ThrOK'
      BY <1>14, ThreadEnds DEF LoginUpdate
    <2>2. thr[t].role \in Role
      BY <1>0 DEF ThreadType
    <2>3. roles' \in [User -> SUBSET Role]
      BY <1>14, <2>2 DEF LoginUpdate, RoleOf, TypeInv, TypeOK
    <2>4. QED
      BY <1>0, <1>14, <2>1, <2>3 DEF LoginUpdate, TypeInv, TypeOK, ColOK, accessVars, collectVars
  <1>15. ASSUME NEW t \in Thread, LoginAdd(t) PROVE TypeInv'
    <2>1. thr' \in [Thread -> ThreadType] /\ ThrOK'
      BY <1>15, ThreadEnds DEF LoginAdd
    <2>2. userRows' \in [User -> Nat] /\ roles' \in [User -> SUBSET Role]
      <3>1. userRows \in [User -> Nat] /\ roles \in [User -> SUBSET Role]
        BY DEF TypeInv, TypeOK
      <3>2. /\ userRows' = [userRows EXCEPT ![thr[t].user] = @ + 1]
            /\ roles' = [roles EXCEPT ![thr[t].user] = @ \cup {NoRole}]
        BY <1>15 DEF LoginAdd
      <3>3. \A u \in User : userRows[u] + 1 \in Nat /\ roles[u] \cup {NoRole} \in SUBSET Role
        BY <3>1 DEF Role
      <3>4. userRows' \in [User -> Nat]
        BY <3>1, <3>2, <3>3
      <3>5. roles' \in [User -> SUBSET Role]
        BY <3>1, <3>2, <3>3
      <3>6. QED
        BY <3>4, <3>5
    <2>3. QED
      BY <1>0, <1>15, <2>1, <2>2 DEF LoginAdd, TypeInv, TypeOK, ColOK, accessVars, collectVars
  <1>16. CASE UNCHANGED vars
    <2>1. thr' = thr /\ col' = col
      BY <1>16 DEF vars, collectVars
    <2>2. QED
      BY <1>0, <1>16, <2>1, ThreadsRest
      DEF TypeInv, TypeOK, ColOK, vars, accessVars, userVars, collectVars
  <1>17. QED
    BY <1>1, <1>2, <1>3, <1>4, <1>5, <1>6, <1>7, <1>8, <1>9, <1>10, <1>11, <1>12, <1>13,
       <1>14, <1>15, <1>16
    DEF Next, CollectorStep, Requests, CommitStep, LoginStep, Events

-----------------------------------------------------------------------------
(* What the steps of a request do to its thread *)

\* What a thread is about to insert.
Adds(t, d, s) == At(t, "add") /\ thr[t].dept = d /\ s \in thr[t].add
NewUser(t, u) == At(t, "addUser") /\ thr[t].user = u

\* permission.commit begins.
LEMMA BeginEffect ==
  ASSUME TypeInv, NEW t \in Thread, NEW e \in DeptId, NEW sel \in SUBSET Server,
         CommitBegin(t, e, sel)
  PROVE  /\ \A x \in Thread \ {t} : thr'[x] = thr[x]
         /\ thr[t].dept = NoDept
         /\ thr'[t].pc = "diff" /\ thr'[t].dept = e /\ thr'[t].sel = sel \cap servers
  <1>1. thr \in [Thread -> ThreadType] /\ ThrOK /\ thr[t].pc = "idle"
    BY DEF TypeInv, TypeOK, CommitBegin, At
  <1>2. thr[t].dept = NoDept
    <2>1. thr[t] = Idle /\ Idle.dept = NoDept
      BY <1>1 DEF ThrOK, Idle
    <2>2. QED
      BY <2>1
  <1>3. thr' = [thr EXCEPT ![t] = [Idle EXCEPT !.pc = "diff", !.dept = e, !.sel = sel \cap servers]]
    BY DEF CommitBegin
  <1>4. QED
    BY <1>1, <1>2, <1>3 DEF Idle

\* The comparison.
LEMMA DiffEffect ==
  ASSUME TypeInv, NEW t \in Thread, CommitDiff(t)
  PROVE  /\ \A x \in Thread \ {t} : thr'[x] = thr[x]
         /\ thr[t].pc = "diff" /\ thr[t].dept \in DeptId
         /\ thr'[t].pc = "add" /\ thr'[t].dept = thr[t].dept /\ thr'[t].sel = thr[t].sel
         /\ thr'[t].add = thr[t].sel \ (Allowed(thr[t].dept) \cap servers)
         /\ thr'[t].del = (Allowed(thr[t].dept) \cap servers) \ thr[t].sel
  <1> DEFINE add == thr[t].sel \ (Allowed(thr[t].dept) \cap servers)
             del == (Allowed(thr[t].dept) \cap servers) \ thr[t].sel
  <1>1. thr \in [Thread -> ThreadType] /\ ThrOK /\ thr[t].pc = "diff"
    BY DEF TypeInv, TypeOK, CommitDiff, At
  <1>2. thr' = [thr EXCEPT ![t].pc = "add", ![t].add = add, ![t].del = del]
    BY DEF CommitDiff, diffServerIdList
  <1>3. thr[t].dept \in DeptId
    BY <1>1 DEF ThrOK
  <1>4. QED
    <2> HIDE DEF add, del
    <2>1. /\ \A x \in Thread \ {t} : thr'[x] = thr[x]
          /\ thr'[t].pc = "add" /\ thr'[t].dept = thr[t].dept /\ thr'[t].sel = thr[t].sel
          /\ thr'[t].add = add /\ thr'[t].del = del
      BY <1>1, <1>2 DEF ThreadType
    <2>2. QED
      BY <1>1, <1>3, <2>1 DEF add, del

\* The INSERT.
LEMMA AddEffect ==
  ASSUME TypeInv, NEW t \in Thread, CommitAdd(t)
  PROVE  /\ \A x \in Thread \ {t} : thr'[x] = thr[x]
         /\ thr[t].pc = "add" /\ thr[t].dept \in DeptId
         /\ thr'[t].pc = "del" /\ thr'[t].dept = thr[t].dept /\ thr'[t].sel = thr[t].sel
         /\ thr'[t].add = {} /\ thr'[t].del = thr[t].del
         /\ \A d \in DeptId, s \in Server :
              selected'[<<d, s>>] = selected[<<d, s>>] + (IF Adds(t, d, s) THEN 1 ELSE 0)
  <1>1. thr \in [Thread -> ThreadType] /\ ThrOK /\ thr[t].pc = "add"
    BY DEF TypeInv, TypeOK, CommitAdd, At
  <1>2. thr' = [thr EXCEPT ![t].pc = "del", ![t].add = {}]
    BY DEF CommitAdd
  <1>3. thr[t].dept \in DeptId
    BY <1>1 DEF ThrOK
  <1>4. /\ \A x \in Thread \ {t} : thr'[x] = thr[x]
        /\ thr'[t].pc = "del" /\ thr'[t].dept = thr[t].dept /\ thr'[t].sel = thr[t].sel
        /\ thr'[t].add = {} /\ thr'[t].del = thr[t].del
    BY <1>1, <1>2 DEF ThreadType
  <1>5. ASSUME NEW d \in DeptId, NEW s \in Server
        PROVE  selected'[<<d, s>>] = selected[<<d, s>>] + (IF Adds(t, d, s) THEN 1 ELSE 0)
    <2>1. selected' = [x \in DeptId \X Server |->
            selected[x] + (IF x[1] = thr[t].dept /\ x[2] \in thr[t].add THEN 1 ELSE 0)]
      BY DEF CommitAdd
    <2>2. Adds(t, d, s) <=> d = thr[t].dept /\ s \in thr[t].add
      BY <1>1 DEF Adds, At
    <2>3. QED
      BY <2>1, <2>2
  <1>6. QED
    BY <1>1, <1>3, <1>4, <1>5

\* The DELETE, with which the request ends.
LEMMA DelEffect ==
  ASSUME TypeInv, NEW t \in Thread, CommitDel(t)
  PROVE  /\ \A x \in Thread \ {t} : thr'[x] = thr[x]
         /\ thr[t].pc = "del" /\ thr[t].dept \in DeptId
         /\ thr'[t].pc = "idle" /\ thr'[t].dept = NoDept
         /\ \A d \in DeptId, s \in Server :
              selected'[<<d, s>>] = IF d = thr[t].dept /\ s \in thr[t].del THEN 0
                                    ELSE selected[<<d, s>>]
  <1>1. thr \in [Thread -> ThreadType] /\ ThrOK /\ thr[t].pc = "del"
    BY DEF TypeInv, TypeOK, CommitDel, At
  <1>2. thr' = [thr EXCEPT ![t] = Idle]
    BY DEF CommitDel
  <1>3. thr[t].dept \in DeptId
    BY <1>1 DEF ThrOK
  <1>4. \A d \in DeptId, s \in Server :
          selected'[<<d, s>>] = IF d = thr[t].dept /\ s \in thr[t].del THEN 0
                                ELSE selected[<<d, s>>]
    BY DEF CommitDel
  <1>5. QED
    BY <1>1, <1>2, <1>3, <1>4 DEF Idle

\* A request cut short.
LEMMA AbortEffect ==
  ASSUME TypeInv, NEW t \in Thread, Abort(t)
  PROVE  /\ \A x \in Thread \ {t} : thr'[x] = thr[x]
         /\ thr'[t].pc = "idle" /\ thr'[t].dept = NoDept
  <1>1. thr \in [Thread -> ThreadType] /\ thr' = [thr EXCEPT ![t] = Idle]
    BY DEF TypeInv, TypeOK, Abort
  <1>2. QED
    BY <1>1 DEF Idle

\* user.auth looks for the user.
LEMMA CheckEffect ==
  ASSUME TypeInv, NEW t \in Thread, NEW u \in User, LoginCheck(t, u)
  PROVE  /\ \A x \in Thread \ {t} : thr'[x] = thr[x]
         /\ thr[t].dept = NoDept /\ thr'[t].dept = NoDept /\ thr'[t].user = u
         /\ thr'[t].pc = IF userRows[u] > 0 THEN "loadRole" ELSE "addUser"
  <1>1. thr \in [Thread -> ThreadType] /\ ThrOK /\ thr[t].pc = "idle"
    BY DEF TypeInv, TypeOK, LoginCheck, At
  <1>2. thr[t].dept = NoDept
    <2>1. thr[t] = Idle /\ Idle.dept = NoDept
      BY <1>1 DEF ThrOK, Idle
    <2>2. QED
      BY <2>1
  <1>3. thr' = [thr EXCEPT ![t] = [Idle EXCEPT !.user = u,
                  !.pc = IF userRows[u] > 0 THEN "loadRole" ELSE "addUser"]]
    BY DEF LoginCheck
  <1>4. QED
    BY <1>1, <1>2, <1>3 DEF Idle

\* A role is read.
LEMMA LoadEffect ==
  ASSUME TypeInv, NEW t \in Thread, LoginLoadRole(t)
  PROVE  /\ \A x \in Thread \ {t} : thr'[x] = thr[x]
         /\ thr[t].user \in User /\ thr[t].dept = NoDept /\ thr'[t].dept = NoDept
         /\ thr'[t].user = thr[t].user /\ thr'[t].pc = "update"
         /\ thr'[t].role \in roles[thr[t].user]
  <1>1. thr \in [Thread -> ThreadType] /\ ThrOK /\ thr[t].pc = "loadRole"
    BY DEF TypeInv, TypeOK, LoginLoadRole, At
  <1>2. PICK r \in roles[thr[t].user] : thr' = [thr EXCEPT ![t].pc = "update", ![t].role = r]
    BY DEF LoginLoadRole
  <1>3. thr[t].user \in User /\ thr[t].dept = NoDept
    BY <1>1 DEF ThrOK
  <1>4. QED
    BY <1>1, <1>2, <1>3 DEF ThreadType

\* The role is written, or the user is added, and the request ends.
LEMMA LoginEnds ==
  ASSUME TypeInv, NEW t \in Thread, LoginUpdate(t) \/ LoginAdd(t)
  PROVE  /\ \A x \in Thread \ {t} : thr'[x] = thr[x]
         /\ thr[t].user \in User /\ thr[t].dept = NoDept
         /\ thr'[t].pc = "idle" /\ thr'[t].dept = NoDept
  <1>1. /\ thr \in [Thread -> ThreadType] /\ ThrOK
        /\ thr[t].pc \in {"update", "addUser"}
    BY DEF TypeInv, TypeOK, LoginUpdate, LoginAdd, At
  <1>2. thr' = [thr EXCEPT ![t] = Idle]
    BY DEF LoginUpdate, LoginAdd
  <1>3. thr[t].user \in User /\ thr[t].dept = NoDept
    BY <1>1 DEF ThrOK
  <1>4. QED
    BY <1>1, <1>2, <1>3 DEF Idle

-----------------------------------------------------------------------------
(* Duplicates *)

\* What a collector is about to insert: the rows that the others know of are at most
\* those that run leaves out of its list, and nobody else is about to insert it.
Alone(c, g) ==
  deptRows[g] <= Removed(g) /\ \A b \in Collector \ {c} : g \notin col[b]

DeptInv ==
  \A g \in Group \ double :
    /\ deptRows[g] <= 1 + Removed(g)
    /\ \A c \in Collector : g \in col[c] => Alone(c, g)

\* Over every step, a name has a row too many only if it was raced for.
LEMMA DeptStep == TypeInv /\ DeptInv /\ [Next]_vars => DeptInv'
  <1> SUFFICES ASSUME TypeInv, DeptInv, [Next]_vars PROVE DeptInv'
    OBVIOUS
  <1>0. /\ deptRows \in [Group -> Nat] /\ col \in [Collector -> SUBSET Group]
        /\ \A g \in Group : Removed(g) \in Nat
    BY DEF TypeInv, TypeOK, Removed
  <1>1. ASSUME NEW c \in Collector, CollectRead(c) PROVE DeptInv'
    <2> DEFINE new == ToAdd(ldap)
    <2>1. /\ deptRows' = deptRows /\ double \subseteq double'
          /\ col'[c] = new /\ \A b \in Collector \ {c} : col'[b] = col[b]
          /\ \A b \in Collector \ {c} : new \cap col[b] \subseteq double'
      BY <1>0, <1>1 DEF CollectRead
    <2>2. \A g \in Group : g \in new => ~(deptRows[g] > Removed(g))
      BY DEF ToAdd, ListedNames
    <2>3. ASSUME NEW g \in Group \ double'
          PROVE  /\ deptRows'[g] <= 1 + Removed(g)
                 /\ \A x \in Collector : g \in col'[x] => Alone(x, g)'
      <3> HIDE DEF new
      <3>1. /\ deptRows[g] <= 1 + Removed(g)
            /\ \A x \in Collector : g \in col[x] => Alone(x, g)
        BY <2>1, <2>3 DEF DeptInv
      <3>2. ASSUME NEW x \in Collector, g \in col'[x] PROVE Alone(x, g)'
        <4>1. deptRows[g] <= Removed(g)
          <5>1. CASE x = c
            BY <1>0, <2>1, <2>2, <3>2, <5>1
          <5>2. CASE x # c
            BY <2>1, <3>1, <3>2, <5>2 DEF Alone
          <5>3. QED
            BY <5>1, <5>2
        <4>2. \A b \in Collector \ {x} : g \notin col'[b]
          BY <2>1, <2>3, <3>1, <3>2 DEF Alone
        <4>3. QED
          BY <2>1, <4>1, <4>2 DEF Alone
      <3>3. QED
        BY <2>1, <3>1, <3>2
    <2>4. QED
      BY <2>3 DEF DeptInv
  <1>2. ASSUME NEW c \in Collector, NEW h \in Group, CollectInsert(c, h) PROVE DeptInv'
    <2>1. /\ deptRows' = [deptRows EXCEPT ![h] = @ + 1] /\ double' = double
          /\ col'[c] = col[c] \ {h} /\ \A b \in Collector \ {c} : col'[b] = col[b]
          /\ h \in col[c]
      BY <1>0, <1>2 DEF CollectInsert
    <2>2. ASSUME NEW g \in Group \ double'
          PROVE  /\ deptRows'[g] <= 1 + Removed(g)
                 /\ \A x \in Collector : g \in col'[x] => Alone(x, g)'
      <3>1. /\ deptRows[g] <= 1 + Removed(g)
            /\ \A x \in Collector : g \in col[x] => Alone(x, g)
        BY <2>1, <2>2 DEF DeptInv
      <3>2. CASE g # h
        <4>1. deptRows'[g] = deptRows[g] /\ \A x \in Collector : g \in col'[x] <=> g \in col[x]
          BY <1>0, <2>1, <3>2
        <4>2. QED
          BY <3>1, <4>1 DEF Alone
      <3>3. CASE g = h
        <4>1. Alone(c, g)
          BY <2>1, <3>1, <3>3
        <4>2. deptRows'[g] = deptRows[g] + 1 /\ deptRows[g] \in Nat /\ Removed(g) \in Nat
          BY <1>0, <2>1, <3>3
        <4>3. \A x \in Collector : g \notin col'[x]
          BY <2>1, <3>3, <4>1 DEF Alone
        <4>4. QED
          BY <4>1, <4>2, <4>3 DEF Alone
      <3>4. QED
        BY <3>2, <3>3
    <2>3. QED
      BY <2>2 DEF DeptInv
  <1>3. ASSUME NEW c \in Collector, CollectAbort(c) PROVE DeptInv'
    <2>1. /\ UNCHANGED <<deptRows, double>> /\ \A b \in Collector : col'[b] \subseteq col[b]
      BY <1>0, <1>3 DEF CollectAbort
    <2>2. QED
      BY <2>1 DEF DeptInv, Alone
  <1>4. CASE UNCHANGED collectVars
    BY <1>4 DEF DeptInv, Alone, collectVars
  <1>5. QED
    BY <1>1, <1>2, <1>3, <1>4
    DEF Next, CollectorStep, Requests, CommitStep, LoginStep, Events, vars, LdapChanges,
        CommitBegin, CommitDiff, CommitAdd, CommitDel, ServerDeleted, LoginCheck,
        LoginLoadRole, LoginUpdate, LoginAdd, Promote, Abort

\* Steps of a thread leave the other threads alone; other steps leave all alone.
LEMMA ThreadFrame ==
  ASSUME TypeInv, [Next]_vars
  PROVE  \/ thr' = thr
         \/ \E t \in Thread :
              /\ Requests(t) \/ CommitStep(t) \/ LoginStep(t) \/ Abort(t)
              /\ \A x \in Thread \ {t} : thr'[x] = thr[x]
  <1>1. ASSUME NEW t \in Thread, Requests(t) \/ CommitStep(t) \/ LoginStep(t) \/ Abort(t)
        PROVE  \A x \in Thread \ {t} : thr'[x] = thr[x]
    <2>1. CASE Requests(t)
      BY <2>1, BeginEffect, CheckEffect DEF Requests
    <2>2. CASE CommitStep(t)
      BY <2>2, DiffEffect, AddEffect, DelEffect DEF CommitStep
    <2>3. CASE LoginStep(t)
      BY <2>3, LoadEffect, LoginEnds DEF LoginStep
    <2>4. CASE Abort(t)
      BY <2>4, AbortEffect
    <2>5. QED
      BY <1>1, <2>1, <2>2, <2>3, <2>4
  <1>2. CASE \E t \in Thread : Requests(t) \/ CommitStep(t) \/ LoginStep(t) \/ Abort(t)
    BY <1>1, <1>2
  <1>3. CASE ~\E t \in Thread : Requests(t) \/ CommitStep(t) \/ LoginStep(t) \/ Abort(t)
    BY <1>3 DEF Next, CollectorStep, Events, CollectRead, CollectInsert, CollectAbort,
       LdapChanges, ServerDeleted, Promote, vars
  <1>4. QED
    BY <1>2, <1>3

\* A row that no two commits raced for is about to be inserted by one at most, and
\* only while there is none.
PermOf(d, s) ==
  /\ selected[<<d, s>>] <= 1
  /\ \A t \in Thread : Adds(t, d, s) =>
       selected[<<d, s>>] = 0 /\ \A x \in Thread \ {t} : ~Adds(x, d, s)

PermInv == \A d \in DeptId, s \in servers : <<d, s>> \in raced \/ PermOf(d, s)

\* Likewise for a user.
UserOf(u) ==
  /\ userRows[u] <= 1
  /\ \A t \in Thread : NewUser(t, u) =>
       userRows[u] = 0 /\ \A x \in Thread \ {t} : ~NewUser(x, u)

UserInv == \A u \in User : u \in raced \/ UserOf(u)

\* Over every step, a permission stands twice only if it was raced for.
LEMMA PermStep == TypeInv /\ PermInv /\ [Next]_vars => PermInv'
  <1> SUFFICES ASSUME TypeInv, PermInv, [Next]_vars,
                      NEW d \in DeptId, NEW s \in servers', <<d, s>> \notin raced'
               PROVE  PermOf(d, s)'
    BY DEF PermInv
  <1>0. /\ servers' \subseteq servers /\ raced \subseteq raced'
    BY DEF Next, CollectorStep, Requests, CommitStep, LoginStep, Events, vars, LdapChanges,
        CommitBegin, CommitDiff, CommitAdd, CommitDel, ServerDeleted, LoginCheck,
        LoginLoadRole, LoginUpdate, LoginAdd, Promote, Abort, CollectRead, CollectInsert,
        CollectAbort, accessVars
  <1>1. PermOf(d, s) /\ s \in servers /\ s \in Server
    BY <1>0 DEF PermInv, TypeInv, TypeOK
  <1>2. CASE thr' = thr
    <2>1. selected' = selected
      <3>1. ASSUME NEW t \in Thread, CommitStep(t) PROVE FALSE
        <4>1. thr'[t].pc # thr[t].pc
          BY <3>1, DiffEffect, AddEffect, DelEffect DEF CommitStep
        <4>2. QED
          BY <1>2, <4>1
      <3>2. QED
        BY <3>1 DEF Next, CollectorStep, Requests, LoginStep, Events, vars, LdapChanges,
          CommitBegin, ServerDeleted, LoginCheck, LoginLoadRole, LoginUpdate, LoginAdd,
          Promote, Abort, CollectRead, CollectInsert, CollectAbort, accessVars
    <2>2. QED
      BY <1>1, <1>2, <2>1 DEF PermOf, Adds, At
  <1>3. ASSUME NEW t \in Thread, \A x \in Thread \ {t} : thr'[x] = thr[x],
               Requests(t) \/ CommitStep(t) \/ LoginStep(t) \/ Abort(t)
        PROVE  PermOf(d, s)'
    <2>1. CASE CommitDiff(t)
      <3>1. /\ selected' = selected
            /\ thr'[t].dept = thr[t].dept /\ thr[t].dept \in DeptId
            /\ thr'[t].pc = "add"
            /\ thr'[t].add = thr[t].sel \ (Allowed(thr[t].dept) \cap servers)
        BY <2>1, DiffEffect DEF CommitDiff
      <3>2. CASE Adds(t, d, s)'
        <4>1. s \notin Allowed(d) /\ thr[t].dept = d
          BY <1>1, <3>1, <3>2 DEF Adds
        <4>2. selected[<<d, s>>] = 0
          <5>1. selected[<<d, s>>] \in Nat /\ ~(selected[<<d, s>>] > 0)
            BY <1>1, <4>1 DEF Allowed, TypeInv, TypeOK
          <5>2. QED
            BY <5>1
        <4>3. ASSUME NEW x \in Thread \ {t}, Adds(x, d, s) PROVE FALSE
          <5>1. x \in Busy(d) \ {t} /\ At(x, "add") /\ s \in thr[x].add
            BY <4>3 DEF Busy, Adds
          <5>2. <<d, s>> \in raced'
            BY <2>1, <3>1, <3>2, <4>1, <5>1 DEF CommitDiff, diffServerIdList, Adds
          <5>3. QED
            BY <5>2
        <4>4. \A x \in Thread : Adds(x, d, s)' => x = t
          BY <1>3, <4>3 DEF Adds, At
        <4>5. QED
          BY <3>1, <4>2, <4>4 DEF PermOf
      <3>3. CASE ~Adds(t, d, s)'
        BY <1>1, <1>3, <3>1, <3>3 DEF PermOf, Adds, At
      <3>4. QED
        BY <3>2, <3>3
    <2>2. CASE CommitAdd(t)
      <3>1. ~Adds(t, d, s)'
        BY <2>2, AddEffect DEF Adds
      <3>2. CASE Adds(t, d, s)
        <4>1. selected'[<<d, s>>] = 1
          BY <1>1, <2>2, <3>2, AddEffect DEF PermOf
        <4>2. \A x \in Thread : ~Adds(x, d, s)'
          BY <1>1, <1>3, <3>1, <3>2 DEF PermOf, Adds, At
        <4>3. QED
          BY <4>1, <4>2 DEF PermOf
      <3>3. CASE ~Adds(t, d, s)
        <4>1. selected'[<<d, s>>] = selected[<<d, s>>]
          <5>1. selected[<<d, s>>] \in Nat
            BY <1>1 DEF TypeInv, TypeOK
          <5>2. QED
            BY <1>1, <2>2, <3>3, <5>1, AddEffect
        <4>2. \A x \in Thread : Adds(x, d, s)' => Adds(x, d, s)
          BY <1>3, <3>1 DEF Adds, At
        <4>3. QED
          BY <1>1, <4>1, <4>2 DEF PermOf
      <3>4. QED
        BY <3>2, <3>3
    <2>3. CASE CommitDel(t)
      <3>1. selected'[<<d, s>>] \in {0, selected[<<d, s>>]}
        BY <1>1, <2>3, DelEffect
      <3>2. ~Adds(t, d, s)'
        BY <2>3, DelEffect DEF Adds, At
      <3>3. \A x \in Thread : Adds(x, d, s)' => Adds(x, d, s)
        BY <1>3, <3>2 DEF Adds, At
      <3>4. QED
        BY <1>1, <3>1, <3>3 DEF PermOf
    <2>4. CASE Requests(t) \/ LoginStep(t) \/ Abort(t)
      <3>1. selected' = selected
        BY <2>4 DEF Requests, CommitBegin, LoginCheck, LoginStep, LoginLoadRole, LoginUpdate,
           LoginAdd, Abort, accessVars
      <3>2. ~Adds(t, d, s)'
        <4>1. CASE Requests(t)
          BY <4>1, BeginEffect, CheckEffect DEF Requests, Adds, At
        <4>2. CASE LoginLoadRole(t)
          BY <4>2, LoadEffect DEF Adds, At
        <4>3. CASE LoginUpdate(t) \/ LoginAdd(t) \/ Abort(t)
          BY <4>3, LoginEnds, AbortEffect DEF Adds, At
        <4>4. QED
          BY <2>4, <4>1, <4>2, <4>3 DEF LoginStep
      <3>3. \A x \in Thread : Adds(x, d, s)' => Adds(x, d, s)
        BY <1>3, <3>2 DEF Adds, At
      <3>4. QED
        BY <1>1, <3>1, <3>3 DEF PermOf
    <2>5. QED
      BY <1>3, <2>1, <2>2, <2>3, <2>4 DEF CommitStep
  <1>4. QED
    BY <1>2, <1>3, ThreadFrame

-----------------------------------------------------------------------------
(* Users *)

\* A promoted user has a row; unless raced for or held back by a login, every copy
\* of the role is the new one.
PromInv ==
  /\ \A u \in promoted : userRows[u] > 0
  /\ \A u \in promoted \ (stale \cup raced) :
       /\ roles[u] = {"admin"}
       /\ \A t \in Thread : At(t, "update") /\ thr[t].user = u => thr[t].role = "admin"

\* Over every step, a user has two rows only if logins raced, and a role sticks.
LEMMA UserStep == TypeInv /\ UserInv /\ PromInv /\ [Next]_vars => UserInv' /\ PromInv'
  <1> SUFFICES ASSUME TypeInv, UserInv, PromInv, [Next]_vars PROVE UserInv' /\ PromInv'
    OBVIOUS
  <1>0. /\ userRows \in [User -> Nat] /\ roles \in [User -> SUBSET Role]
        /\ promoted \subseteq User
        /\ thr \in [Thread -> ThreadType]
    BY DEF TypeInv, TypeOK, ThreadType
  <1>1. ASSUME NEW t \in Thread, NEW u \in User, LoginCheck(t, u) PROVE UserInv' /\ PromInv'
    <2>1. /\ UNCHANGED <<userRows, roles, promoted, stale>> /\ raced \subseteq raced'
          /\ \A x \in Thread \ {t} : thr'[x] = thr[x]
          /\ thr'[t].user = u
          /\ thr'[t].pc = IF userRows[u] > 0 THEN "loadRole" ELSE "addUser"
      BY <1>1, CheckEffect DEF LoginCheck, userVars
    <2>2. ASSUME NEW v \in User, v \notin raced' PROVE UserOf(v)'
      <3>1. UserOf(v)
        BY <2>1, <2>2 DEF UserInv
      <3>2. CASE v = u /\ userRows[u] = 0
        <4>1. \A x \in Thread : ~NewUser(x, u)
          BY <1>1, <2>2, <3>2 DEF LoginCheck, NewUser
        <4>2. \A x \in Thread \ {t} : ~NewUser(x, u)'
          BY <2>1, <4>1 DEF NewUser, At
        <4>3. QED
          BY <2>1, <3>2, <4>2 DEF UserOf
      <3>3. CASE ~(v = u /\ userRows[u] = 0)
        <4>1. ~NewUser(t, v)'
          <5>1. CASE v # u
            BY <2>1, <5>1 DEF NewUser, At
          <5>2. CASE v = u
            <6>1. userRows[u] > 0
              BY <1>0, <3>3, <5>2
            <6>2. thr'[t].pc = "loadRole"
              BY <2>1, <6>1
            <6>3. QED
              BY <6>2 DEF NewUser, At
          <5>3. QED
            BY <5>1, <5>2
        <4>2. \A x \in Thread : NewUser(x, v)' => NewUser(x, v)
          BY <2>1, <4>1 DEF NewUser, At
        <4>3. QED
          BY <2>1, <3>1, <4>2 DEF UserOf
      <3>4. QED
        BY <3>2, <3>3
    <2>3. PromInv'
      BY <1>0, <2>1 DEF PromInv, At
    <2>4. QED
      BY <2>2, <2>3 DEF UserInv
  <1>2. ASSUME NEW t \in Thread, LoginLoadRole(t) PROVE UserInv' /\ PromInv'
    <2>1. thr'[t].role \in roles[thr[t].user]
      BY <1>2, LoadEffect
    <2>2. /\ UNCHANGED <<userRows, roles, promoted, stale, raced>>
          /\ \A x \in Thread \ {t} : thr'[x] = thr[x]
          /\ thr'[t].user = thr[t].user /\ thr'[t].pc = "update"
      BY <1>2, LoadEffect DEF LoginLoadRole, userVars, accessVars
    <2>3. \A x \in Thread, u \in User : NewUser(x, u)' => NewUser(x, u)
      BY <2>2 DEF NewUser, At
    <2>4. UserInv'
      BY <2>2, <2>3 DEF UserInv, UserOf
    <2>5. PromInv'
      BY <1>0, <2>1, <2>2 DEF PromInv, At
    <2>6. QED
      BY <2>4, <2>5
  <1>3. ASSUME NEW t \in Thread, LoginUpdate(t) PROVE UserInv' /\ PromInv'
    <2>1. /\ UNCHANGED <<userRows, promoted, stale, raced>>
          /\ roles' = [roles EXCEPT ![thr[t].user] = {thr[t].role}]
          /\ \A x \in Thread \ {t} : thr'[x] = thr[x]
          /\ thr'[t].pc = "idle" /\ At(t, "update")
      BY <1>0, <1>3 DEF LoginUpdate, RoleOf, accessVars, Idle
    <2>2. \A x \in Thread, u \in User : NewUser(x, u)' => NewUser(x, u)
      BY <2>1 DEF NewUser, At
    <2>3. UserInv'
      BY <2>1, <2>2 DEF UserInv, UserOf
    <2>4. ASSUME NEW u \in promoted \ (stale \cup raced) PROVE roles'[u] = {"admin"}
      BY <1>0, <2>1, <2>4 DEF PromInv
    <2>5. PromInv'
      BY <2>1, <2>4 DEF PromInv, At
    <2>6. QED
      BY <2>3, <2>5
  <1>4. ASSUME NEW t \in Thread, LoginAdd(t) PROVE UserInv' /\ PromInv'
    <2> DEFINE v == thr[t].user
    <2>1. /\ UNCHANGED <<promoted, stale, raced>>
          /\ userRows' = [userRows EXCEPT ![v] = @ + 1]
          /\ roles' = [roles EXCEPT ![v] = @ \cup {NoRole}]
          /\ \A x \in Thread \ {t} : thr'[x] = thr[x]
          /\ thr'[t].pc = "idle" /\ NewUser(t, v) /\ v \in User
      BY <1>0, <1>4 DEF LoginAdd, accessVars, Idle, NewUser, TypeInv, ThrOK, At
    <2>2. \A x \in Thread, u \in User : NewUser(x, u)' => NewUser(x, u) /\ x # t
      BY <2>1 DEF NewUser, At
    <2>3. ASSUME NEW u \in User, u \notin raced' PROVE UserOf(u)'
      <3>1. UserOf(u)
        BY <2>1, <2>3 DEF UserInv
      <3>2. CASE u = v
        BY <1>0, <2>1, <2>2, <3>1, <3>2 DEF UserOf
      <3>3. CASE u # v
        BY <1>0, <2>1, <2>2, <3>1, <3>3 DEF UserOf
      <3>4. QED
        BY <3>2, <3>3
    <2>4. \A u \in promoted \ (stale \cup raced) : u # v
      BY <1>0, <2>1 DEF PromInv, UserInv, UserOf
    <2>5. \A u \in promoted : userRows'[u] > 0
      BY <1>0, <2>1 DEF PromInv
    <2>6. PromInv'
      BY <1>0, <2>1, <2>4, <2>5 DEF PromInv, At
    <2>7. QED
      BY <2>3, <2>6 DEF UserInv
  <1>5. ASSUME NEW v \in User, Promote(v) PROVE UserInv' /\ PromInv'
    <2>1. /\ UNCHANGED <<userRows, raced, thr>> /\ userRows[v] > 0
          /\ roles' = [roles EXCEPT ![v] = {"admin"}]
          /\ promoted' = promoted \cup {v} /\ stale \subseteq stale'
          /\ (\E t \in Thread : At(t, "update") /\ thr[t].user = v) => v \in stale'
      BY <1>5 DEF Promote, accessVars
    <2>2. UserInv'
      BY <2>1 DEF UserInv, UserOf, NewUser, At
    <2>3. \A u \in promoted' : userRows'[u] > 0
      BY <2>1 DEF PromInv
    <2>4. ASSUME NEW u \in promoted' \ (stale' \cup raced')
          PROVE  /\ roles'[u] = {"admin"}
                 /\ \A t \in Thread : At(t, "update")' /\ thr'[t].user = u => thr'[t].role = "admin"
      <3>1. CASE u = v
        BY <1>0, <2>1, <2>4, <3>1 DEF At
      <3>2. CASE u # v
        BY <1>0, <2>1, <2>4, <3>2 DEF PromInv, At
      <3>3. QED
        BY <3>1, <3>2
    <2>5. QED
      BY <2>2, <2>3, <2>4 DEF PromInv
  <1>6. ASSUME NEW t \in Thread, Abort(t) \/ CommitStep(t)
                                 \/ \E d \in DeptId, sel \in SUBSET Server : CommitBegin(t, d, sel)
        PROVE  UserInv' /\ PromInv'
    <2>1. /\ UNCHANGED userVars /\ raced \subseteq raced'
      BY <1>6 DEF Abort, CommitStep, CommitBegin, CommitDiff, CommitAdd, CommitDel
    <2>2. /\ \A x \in Thread \ {t} : thr'[x] = thr[x]
          /\ thr'[t].pc \in {"idle", "diff", "add", "del"}
      <3>1. CASE Abort(t)
        BY <1>0, <3>1 DEF Abort, Idle
      <3>2. CASE CommitDiff(t)
        BY <1>0, <3>2 DEF CommitDiff, ThreadType
      <3>3. CASE CommitAdd(t)
        BY <1>0, <3>3 DEF CommitAdd, ThreadType
      <3>4. CASE CommitDel(t)
        BY <1>0, <3>4 DEF CommitDel, Idle
      <3>5. CASE \E d \in DeptId, sel \in SUBSET Server : CommitBegin(t, d, sel)
        BY <1>0, <3>5 DEF CommitBegin, Idle
      <3>6. QED
        BY <1>6, <3>1, <3>2, <3>3, <3>4, <3>5 DEF CommitStep
    <2>3. \A x \in Thread, u \in User : NewUser(x, u)' => NewUser(x, u)
      BY <2>2 DEF NewUser, At
    <2>4. UserInv'
      BY <2>1, <2>3 DEF UserInv, UserOf, userVars
    <2>5. PromInv'
      BY <2>1, <2>2 DEF PromInv, At, userVars
    <2>6. QED
      BY <2>4, <2>5
  <1>7. CASE UNCHANGED <<userVars, raced, thr>>
    BY <1>7 DEF UserInv, UserOf, NewUser, PromInv, At, userVars
  <1>8. QED
    BY <1>1, <1>2, <1>3, <1>4, <1>5, <1>6, <1>7
    DEF Next, CollectorStep, Requests, LoginStep, Events, vars, accessVars, LdapChanges,
        ServerDeleted, CollectRead, CollectInsert, CollectAbort

-----------------------------------------------------------------------------
(* Selections *)

\* A server that all of the commits selected is there or will be, and nobody is
\* about to delete it.
Wanted(d, s) ==
  batch[d] # {} /\ (\A sel \in batch[d] : s \in sel) =>
    /\ s \in Allowed(d) \/ \E t \in Busy(d) : At(t, "diff") \/ Adds(t, d, s)
    /\ \A t \in Busy(d) : At(t, "add") \/ At(t, "del") => s \notin thr[t].del

\* A server that none of them selected is gone or will be, and nobody is about to
\* insert it.
Unwanted(d, s) ==
  batch[d] # {} /\ (\A sel \in batch[d] : s \notin sel) =>
    /\ \/ s \notin Allowed(d)
       \/ \E t \in Busy(d) : \/ At(t, "diff")
                             \/ (At(t, "add") \/ At(t, "del")) /\ s \in thr[t].del
    /\ \A t \in Busy(d) : ~Adds(t, d, s)

\* The selection of a commit under way belongs to the last batch.
BatchInv ==
  \A t \in Thread : thr[t].dept \in DeptId => thr[t].sel \in batch[thr[t].dept]

SelInv ==
  /\ BatchInv
  /\ \A d \in DeptId \ torn, s \in servers : Wanted(d, s) /\ Unwanted(d, s)

\* Steps that leave the commits for a department and their rows alone.
LEMMA SelFrame ==
  ASSUME NEW d \in DeptId, NEW s \in Server, Wanted(d, s), Unwanted(d, s),
         batch'[d] = batch[d],
         selected' = selected,
         \A x \in Thread : thr[x].dept = d \/ thr'[x].dept = d => thr'[x] = thr[x]
  PROVE  Wanted(d, s)' /\ Unwanted(d, s)'
  <1>1. Busy(d)' = Busy(d) /\ \A x \in Busy(d) : thr'[x] = thr[x]
    BY DEF Busy
  <1>2. Allowed(d)' = Allowed(d)
    BY DEF Allowed
  <1>3. \A x \in Busy(d) : Adds(x, d, s)' = Adds(x, d, s)
    BY <1>1 DEF Adds, At
  <1>4. Wanted(d, s)'
    BY <1>1, <1>2, <1>3 DEF Wanted, At
  <1>5. Unwanted(d, s)'
    BY <1>1, <1>2, <1>3 DEF Unwanted, At
  <1>6. QED
    BY <1>4, <1>5

\* Over every step, commits keep what they selected.
LEMMA SelStep == TypeInv /\ SelInv /\ [Next]_vars => SelInv'
  <1> SUFFICES ASSUME TypeInv, SelInv, [Next]_vars PROVE SelInv'
    OBVIOUS
  <1>0. /\ thr \in [Thread -> ThreadType] /\ batch \in [DeptId -> SUBSET SUBSET Server]
        /\ selected \in [DeptId \X Server -> Nat] /\ servers \subseteq Server
        /\ NoDept \notin DeptId
    BY NoDeptIsNoId DEF TypeInv, TypeOK
  <1>1. ASSUME NEW t \in Thread, NEW e \in DeptId, NEW sel \in SUBSET Server,
               CommitBegin(t, e, sel)
        PROVE  SelInv'
    <2> DEFINE dst == sel \cap servers
    <2>1. /\ UNCHANGED <<selected, servers>>
          /\ \A x \in Thread \ {t} : thr'[x] = thr[x]
          /\ thr[t].dept = NoDept
          /\ thr'[t].pc = "diff" /\ thr'[t].dept = e /\ thr'[t].sel = dst
          /\ batch' = [batch EXCEPT ![e] = IF Busy(e) = {} THEN {dst} ELSE @ \cup {dst}]
          /\ torn' \cup {e} = torn \cup {e}
          /\ e \in torn => e \in torn' \/ Busy(e) = {}
      BY <1>0, <1>1, BeginEffect DEF CommitBegin
    <2>2. BatchInv'
      <3> SUFFICES ASSUME NEW x \in Thread, thr'[x].dept \in DeptId
                   PROVE  thr'[x].sel \in batch'[thr'[x].dept]
        BY DEF BatchInv
      <3>1. CASE x = t
        BY <1>0, <2>1, <3>1
      <3>2. CASE x # t /\ thr[x].dept # e
        BY <1>0, <2>1, <3>2 DEF SelInv, BatchInv
      <3>3. CASE x # t /\ thr[x].dept = e
        <4>1. x \in Busy(e)
          BY <3>3 DEF Busy
        <4>2. QED
          BY <1>0, <2>1, <3>3, <4>1 DEF SelInv, BatchInv
      <3>4. QED
        BY <3>1, <3>2, <3>3
    <2>3. ASSUME NEW d \in DeptId \ torn', NEW s \in servers'
          PROVE  Wanted(d, s)' /\ Unwanted(d, s)'
      <3>1. s \in servers /\ s \in Server
        BY <1>0, <2>1
      <3>2. CASE d # e
        <4>1. Wanted(d, s) /\ Unwanted(d, s)
          BY <2>1, <2>3, <3>1, <3>2 DEF SelInv
        <4>2. batch'[d] = batch[d]
          BY <1>0, <2>1, <3>2
        <4>3. \A x \in Thread : thr[x].dept = d \/ thr'[x].dept = d => thr'[x] = thr[x]
          BY <1>0, <2>1, <3>2
        <4>4. QED
          BY <2>1, <3>1, <4>1, <4>2, <4>3, SelFrame
      <3>3. CASE d = e
        <4>1. t \in Busy(d)' /\ At(t, "diff")'
          BY <2>1, <3>3 DEF Busy, At
        <4>2. \A x \in Busy(d)' : x = t \/ x \in Busy(d)
          BY <2>1, <3>3 DEF Busy
        <4>3. ASSUME NEW x \in Busy(d)', x # t
              PROVE  /\ thr'[x] = thr[x] /\ batch[d] # {}
                     /\ batch[d] \subseteq batch'[d]
                     /\ Wanted(d, s) /\ Unwanted(d, s)
          <5>1. x \in Busy(d) /\ x \in Thread
            BY <4>2, <4>3 DEF Busy
          <5>2. Busy(d) # {} /\ thr[x].sel \in batch[d]
            BY <5>1 DEF Busy, SelInv, BatchInv
          <5>3. d \notin torn
            BY <2>1, <2>3, <3>3, <5>2
          <5>4. QED
            BY <1>0, <2>1, <3>1, <3>3, <4>3, <5>1, <5>2, <5>3 DEF SelInv
        <4>4. Wanted(d, s)'
          <5>1. ASSUME NEW x \in Busy(d)', (At(x, "add") \/ At(x, "del"))',
                       \A z \in batch'[d] : s \in z
                PROVE  s \notin thr'[x].del
            BY <2>1, <4>2, <4>3, <5>1 DEF Wanted, At
          <5>2. QED
            BY <4>1, <5>1 DEF Wanted
        <4>5. Unwanted(d, s)'
          <5>1. ASSUME NEW x \in Busy(d)', \A z \in batch'[d] : s \notin z
                PROVE  ~Adds(x, d, s)'
            BY <2>1, <4>2, <4>3, <5>1 DEF Unwanted, Adds, At
          <5>2. QED
            BY <4>1, <5>1 DEF Unwanted
        <4>6. QED
          BY <4>4, <4>5
      <3>4. QED
        BY <3>2, <3>3
    <2>4. QED
      BY <2>2, <2>3 DEF SelInv
  <1>2. ASSUME NEW t \in Thread, CommitDiff(t) PROVE SelInv'
    <2> DEFINE e == thr[t].dept
    <2>1. /\ UNCHANGED <<selected, servers, batch, torn>>
          /\ \A x \in Thread \ {t} : thr'[x] = thr[x]
          /\ e \in DeptId /\ At(t, "diff")
          /\ thr'[t].pc = "add" /\ thr'[t].dept = e /\ thr'[t].sel = thr[t].sel
          /\ thr'[t].add = thr[t].sel \ (Allowed(e) \cap servers)
          /\ thr'[t].del = (Allowed(e) \cap servers) \ thr[t].sel
      BY <1>2, DiffEffect DEF CommitDiff, At
    <2>2. BatchInv'
      BY <2>1 DEF SelInv, BatchInv
    <2>3. ASSUME NEW d \in DeptId \ torn', NEW s \in servers'
          PROVE  Wanted(d, s)' /\ Unwanted(d, s)'
      <3>1. s \in servers /\ s \in Server /\ Wanted(d, s) /\ Unwanted(d, s)
        BY <1>0, <2>1, <2>3 DEF SelInv
      <3>2. CASE d # e
        <4>1. \A x \in Thread : thr[x].dept = d \/ thr'[x].dept = d => thr'[x] = thr[x]
          BY <2>1, <3>2
        <4>2. QED
          BY <2>1, <3>1, <4>1, SelFrame
      <3>3. CASE d = e
        <4>1. /\ Busy(d)' = Busy(d) /\ t \in Busy(d) /\ Allowed(d)' = Allowed(d)
              /\ \A x \in Busy(d) : x # t => thr'[x] = thr[x]
          BY <2>1, <3>3 DEF Busy, Allowed
        <4>2. thr[t].sel \in batch[d]
          BY <2>1, <3>3 DEF SelInv, BatchInv
        <4>3. Wanted(d, s)'
          <5> SUFFICES ASSUME \A z \in batch[d] : s \in z
                       PROVE  /\ s \in Allowed(d) \/ \E x \in Busy(d) : Adds(x, d, s)'
                              /\ \A x \in Busy(d) : (At(x, "add") \/ At(x, "del"))' =>
                                   s \notin thr'[x].del
            BY <2>1, <4>1 DEF Wanted
          <5>1. s \in Allowed(d) \/ Adds(t, d, s)'
            BY <2>1, <3>3, <4>2 DEF Adds, At
          <5>2. s \notin thr'[t].del
            BY <2>1, <4>2
          <5>3. ASSUME NEW x \in Busy(d), x # t, (At(x, "add") \/ At(x, "del"))'
                PROVE  s \notin thr'[x].del
            BY <3>1, <4>1, <4>2, <5>3 DEF Wanted, At
          <5>4. QED
            BY <4>1, <5>1, <5>2, <5>3
        <4>4. Unwanted(d, s)'
          <5> SUFFICES ASSUME \A z \in batch[d] : s \notin z
                       PROVE  /\ \/ s \notin Allowed(d)
                                 \/ \E x \in Busy(d) : At(x, "add")' /\ s \in thr'[x].del
                              /\ \A x \in Busy(d) : ~Adds(x, d, s)'
            BY <2>1, <4>1 DEF Unwanted
          <5>1. s \notin Allowed(d) \/ (At(t, "add")' /\ s \in thr'[t].del)
            BY <2>1, <3>1, <3>3, <4>2 DEF At
          <5>2. ~Adds(t, d, s)'
            BY <2>1, <4>2 DEF Adds
          <5>3. ASSUME NEW x \in Busy(d), x # t PROVE ~Adds(x, d, s)'
            BY <3>1, <4>1, <4>2, <5>3 DEF Unwanted, Adds, At
          <5>4. QED
            BY <4>1, <5>1, <5>2, <5>3
        <4>5. QED
          BY <4>3, <4>4
      <3>4. QED
        BY <3>2, <3>3
    <2>4. QED
      BY <2>2, <2>3 DEF SelInv
  <1>3. ASSUME NEW t \in Thread, CommitAdd(t) PROVE SelInv'
    <2> DEFINE e == thr[t].dept
    <2>1. /\ UNCHANGED <<servers, batch, torn>>
          /\ \A x \in Thread \ {t} : thr'[x] = thr[x]
          /\ e \in DeptId /\ At(t, "add")
          /\ thr'[t].pc = "del" /\ thr'[t].dept = e /\ thr'[t].sel = thr[t].sel
          /\ thr'[t].add = {} /\ thr'[t].del = thr[t].del
      BY <1>3, AddEffect DEF CommitAdd, At
    <2>2. BatchInv'
      BY <2>1 DEF SelInv, BatchInv
    <2>3. \A d \in DeptId, s \in Server :
            s \in Allowed(d)' <=> s \in Allowed(d) \/ Adds(t, d, s)
      BY <1>0, <1>3, <2>1 DEF CommitAdd, Allowed, Adds
    <2>4. ASSUME NEW d \in DeptId \ torn', NEW s \in servers'
          PROVE  Wanted(d, s)' /\ Unwanted(d, s)'
      <3>1. s \in Server /\ Wanted(d, s) /\ Unwanted(d, s)
        BY <1>0, <2>1, <2>4 DEF SelInv
      <3>2. /\ Busy(d)' = Busy(d)
            /\ \A x \in Busy(d) : /\ At(x, "diff") => At(x, "diff")'
                                  /\ At(x, "add")' \/ At(x, "del")' <=> At(x, "add") \/ At(x, "del")
                                  /\ thr'[x].del = thr[x].del
                                  /\ Adds(x, d, s) => x = t \/ Adds(x, d, s)'
                                  /\ Adds(x, d, s)' => Adds(x, d, s)
        BY <2>1 DEF Busy, At, Adds
      <3>3. s \in Allowed(d)' <=> s \in Allowed(d) \/ Adds(t, d, s)
        BY <2>3, <3>1
      <3>4. Adds(t, d, s) => t \in Busy(d)
        BY DEF Adds, Busy
      <3>5. Wanted(d, s)'
        BY <2>1, <3>1, <3>2, <3>3 DEF Wanted
      <3>6. Unwanted(d, s)'
        BY <2>1, <3>1, <3>2, <3>3, <3>4 DEF Unwanted
      <3>7. QED
        BY <3>5, <3>6
    <2>5. QED
      BY <2>2, <2>4 DEF SelInv
  <1>4. ASSUME NEW t \in Thread, CommitDel(t) PROVE SelInv'
    <2> DEFINE e == thr[t].dept
    <2>1. /\ UNCHANGED <<servers, batch, torn>>
          /\ \A x \in Thread \ {t} : thr'[x] = thr[x]
          /\ e \in DeptId /\ At(t, "del")
          /\ thr'[t].pc = "idle" /\ thr'[t].dept = NoDept
      BY <1>4, DelEffect DEF CommitDel, At
    <2>2. BatchInv'
      BY <1>0, <2>1 DEF SelInv, BatchInv
    <2>3. \A d \in DeptId, s \in Server :
            s \in Allowed(d)' <=> s \in Allowed(d) /\ ~(d = e /\ s \in thr[t].del)
      BY <1>0, <1>4, <2>1 DEF CommitDel, Allowed
    <2>4. ASSUME NEW d \in DeptId \ torn', NEW s \in servers'
          PROVE  Wanted(d, s)' /\ Unwanted(d, s)'
      <3>1. s \in Server /\ Wanted(d, s) /\ Unwanted(d, s)
        BY <1>0, <2>1, <2>4 DEF SelInv
      <3>2. /\ Busy(d)' = Busy(d) \ {t}
            /\ \A x \in Busy(d) : x # t => thr'[x] = thr[x]
            /\ d = e <=> t \in Busy(d)
        BY <1>0, <2>1 DEF Busy
      <3>3. \A x \in Busy(d) : x # t => Adds(x, d, s)' = Adds(x, d, s)
        BY <3>2 DEF Adds, At
      <3>4. ~At(t, "diff") /\ ~Adds(t, d, s)
        BY <2>1 DEF At, Adds
      <3>5. s \in Allowed(d)' <=> s \in Allowed(d) /\ ~(d = e /\ s \in thr[t].del)
        BY <2>3, <3>1
      <3>6. Wanted(d, s)'
        BY <2>1, <3>1, <3>2, <3>3, <3>4, <3>5 DEF Wanted, At
      <3>7. Unwanted(d, s)'
        BY <2>1, <3>1, <3>2, <3>3, <3>4, <3>5 DEF Unwanted, At
      <3>8. QED
        BY <3>6, <3>7
    <2>5. QED
      BY <2>2, <2>4 DEF SelInv
  <1>5. ASSUME NEW t \in Thread, Abort(t) PROVE SelInv'
    <2>1. /\ UNCHANGED <<servers, batch, selected>>
          /\ \A x \in Thread \ {t} : thr'[x] = thr[x]
          /\ thr'[t].dept = NoDept
          /\ torn \subseteq torn' /\ (thr[t].dept \in DeptId => thr[t].dept \in torn')
      BY <1>0, <1>5 DEF Abort, Idle
    <2>2. BatchInv'
      BY <1>0, <2>1 DEF SelInv, BatchInv
    <2>3. ASSUME NEW d \in DeptId \ torn', NEW s \in servers'
          PROVE  Wanted(d, s)' /\ Unwanted(d, s)'
      <3>1. s \in Server /\ Wanted(d, s) /\ Unwanted(d, s)
        BY <1>0, <2>1, <2>3 DEF SelInv
      <3>2. \A x \in Thread : thr[x].dept = d \/ thr'[x].dept = d => thr'[x] = thr[x]
        BY <1>0, <2>1, <2>3
      <3>3. QED
        BY <2>1, <3>1, <3>2, SelFrame
    <2>4. QED
      BY <2>2, <2>3 DEF SelInv
  <1>6. ASSUME NEW t \in Thread, LoginStep(t) \/ \E u \in User : LoginCheck(t, u) PROVE SelInv'
    <2>1. /\ UNCHANGED <<servers, batch, selected, torn>>
          /\ \A x \in Thread \ {t} : thr'[x] = thr[x]
      BY <1>0, <1>6 DEF LoginStep, LoginCheck, LoginLoadRole, LoginUpdate, LoginAdd, accessVars
    <2>2. thr[t].dept = NoDept /\ thr'[t].dept = NoDept
      <3>1. CASE \E u \in User : LoginCheck(t, u)
        BY <3>1, CheckEffect
      <3>2. CASE LoginLoadRole(t)
        BY <3>2, LoadEffect
      <3>3. CASE LoginUpdate(t) \/ LoginAdd(t)
        BY <3>3, LoginEnds
      <3>4. QED
        BY <1>6, <3>1, <3>2, <3>3 DEF LoginStep
    <2>3. BatchInv'
      BY <1>0, <2>1, <2>2 DEF SelInv, BatchInv
    <2>4. ASSUME NEW d \in DeptId \ torn', NEW s \in servers'
          PROVE  Wanted(d, s)' /\ Unwanted(d, s)'
      <3>1. s \in Server /\ Wanted(d, s) /\ Unwanted(d, s)
        BY <1>0, <2>1, <2>4 DEF SelInv
      <3>2. \A x \in Thread : thr[x].dept = d \/ thr'[x].dept = d => thr'[x] = thr[x]
        BY <1>0, <2>1, <2>2
      <3>3. QED
        BY <2>1, <3>1, <3>2, SelFrame
    <2>5. QED
      BY <2>3, <2>4 DEF SelInv
  <1>7. CASE UNCHANGED <<thr, selected, batch, torn>> /\ servers' \subseteq servers
    <2>1. BatchInv'
      BY <1>7 DEF SelInv, BatchInv
    <2>2. ASSUME NEW d \in DeptId \ torn', NEW s \in servers'
          PROVE  Wanted(d, s)' /\ Unwanted(d, s)'
      <3>1. s \in Server /\ Wanted(d, s) /\ Unwanted(d, s)
        BY <1>0, <1>7, <2>2 DEF SelInv
      <3>2. QED
        BY <1>7, <3>1, SelFrame
    <2>3. QED
      BY <2>1, <2>2 DEF SelInv
  <1>8. QED
    BY <1>1, <1>2, <1>3, <1>4, <1>5, <1>6, <1>7
    DEF Next, CollectorStep, Requests, CommitStep, Events, vars, accessVars, LdapChanges,
        ServerDeleted, Promote, CollectRead, CollectInsert, CollectAbort

-----------------------------------------------------------------------------
(* The theorems *)

Inv == TypeInv /\ DeptInv /\ PermInv /\ UserInv /\ PromInv /\ SelInv

\* Nothing is there, nobody has begun.
LEMMA InitInv == Init => Inv
  <1> SUFFICES ASSUME Init PROVE Inv
    OBVIOUS
  <1>1. TypeInv
    <2>1. deptRows \in [Group -> Nat] /\ deptRows[Excluded] = 0
      BY AccessAssumption DEF Init
    <2>2. /\ selected \in [DeptId \X Server -> Nat] /\ userRows \in [User -> Nat]
          /\ roles \in [User -> SUBSET Role] /\ batch \in [DeptId -> SUBSET SUBSET Server]
          /\ col \in [Collector -> SUBSET Group] /\ events \in Nat /\ ColOK
      BY DEF Init, ColOK
    <2>3. thr \in [Thread -> ThreadType] /\ ThrOK
      <3>1. Idle.pc = "idle"
        BY DEF Idle
      <3>2. QED
        BY <3>1, IdleType DEF Init, ThrOK
    <2>4. QED
      BY <2>1, <2>2, <2>3 DEF Init, TypeInv, TypeOK
  <1>2. DeptInv
    BY DEF Init, DeptInv, Removed
  <1>3. PermInv /\ UserInv /\ PromInv
    BY DEF Init, PermInv, PermOf, Adds, UserInv, UserOf, NewUser, PromInv, At, Idle
  <1>4. BatchInv
    <2>1. \A t \in Thread : thr[t].dept = NoDept
      BY DEF Init, Idle
    <2>2. QED
      BY <2>1, NoDeptIsNoId DEF BatchInv
  <1>5. SelInv
    BY <1>4 DEF Init, SelInv, Wanted, Unwanted
  <1>6. QED
    BY <1>1, <1>2, <1>3, <1>5 DEF Inv

\* Inv, of which every safety property is a part or a consequence.
THEOREM InvCorrect == Spec => []Inv
  <1>1. Inv /\ [Next]_vars => Inv'
    BY TypeStep, DeptStep, PermStep, UserStep, SelStep DEF Inv
  <1>2. QED
    BY InitInv, <1>1, PTL DEF Spec

\* Tables, locals and history keep their types.
THEOREM AccessTypeSafe == Spec => []TypeOK
  <1>1. Inv => TypeOK
    BY DEF Inv, TypeInv
  <1>2. QED
    BY InvCorrect, <1>1, PTL

\* When the commits that overlapped are done, what all selected may be seen and what
\* none selected may not.
THEOREM SelectionsSafe == Spec => []SelectionsAreKept
  <1>1. Inv => SelectionsAreKept
    BY DEF Inv, SelInv, Wanted, Unwanted, SelectionsAreKept
  <1>2. QED
    BY InvCorrect, <1>1, PTL

\* Names, permissions and users stand twice, and 'all-user' three times, only after a
\* race for them.
THEOREM DuplicatesSafe == Spec => []DuplicatesNeedARace
  <1>1. Inv => DuplicatesNeedARace
    BY DEF Inv, DeptInv, PermInv, PermOf, UserInv, UserOf, TypeInv, TypeOK, DuplicatesNeedARace
  <1>2. QED
    BY InvCorrect, <1>1, PTL

\* A role given by hand stays.
THEOREM PromotionSafe == Spec => []PromotionSticks
  <1>1. Inv => PromotionSticks
    BY DEF Inv, PromInv, PromotionSticks
  <1>2. QED
    BY InvCorrect, <1>1, PTL

-----------------------------------------------------------------------------
(* A group gets its department: for every instance, from what a run reads  *)
(* and writes; that runs begin and end is a premise.                       *)

Missing(g) == g \in ldap /\ g \notin KnownNames
RunOver(c) == col[c] = {}
Takes(c, g) == g \in col[c]
NothingToAdd == ToAdd(ldap) = {}

\* The runs of a collector end, and one begins again while there is something to add.
RunsGoOn(c) == []<>RunOver(c) /\ []<>(~RunOver(c) \/ NothingToAdd)

\* Only a collector's own steps change what it has still to insert.
LEMMA CollectorFrame ==
  ASSUME TypeInv, NEW c \in Collector, [Next]_vars
  PROVE  \/ CollectRead(c) \/ CollectAbort(c) \/ \E g \in Group : CollectInsert(c, g)
         \/ col'[c] = col[c]
  <1>0. col \in [Collector -> SUBSET Group]
    BY DEF TypeInv, TypeOK
  <1>1. ASSUME NEW b \in Collector, CollectorStep(b) \/ CollectAbort(b), b # c
        PROVE  col'[c] = col[c]
    BY <1>0, <1>1 DEF CollectorStep, CollectRead, CollectInsert, CollectAbort
  <1>2. CASE UNCHANGED collectVars
    BY <1>2 DEF collectVars
  <1>3. CASE \E b \in Collector : CollectorStep(b) \/ CollectAbort(b)
    BY <1>1, <1>3 DEF CollectorStep
  <1>4. QED
    BY <1>2, <1>3
    DEF Next, Requests, CommitStep, LoginStep, Events, vars, LdapChanges,
        CommitBegin, CommitDiff, CommitAdd, CommitDel, ServerDeleted, LoginCheck,
        LoginLoadRole, LoginUpdate, LoginAdd, Promote, Abort

\* A group without a row is new to the next run, 'all-user' like the others.
LEMMA MissingIsNew ==
  ASSUME TypeInv, NEW g \in Group \ {Excluded}, Missing(g)
  PROVE  g \in ToAdd(ldap)
  <1>1. deptRows[g] \in Nat /\ ~(deptRows[g] > 0)
    BY DEF TypeInv, TypeOK, Missing, KnownNames
  <1>2. ~(deptRows[g] > Removed(g))
    BY <1>1 DEF Removed
  <1>3. QED
    BY <1>2 DEF Missing, ToAdd, ListedNames

\* A run that begins takes every group that has no department.
LEMMA RunTakes ==
  ASSUME TypeInv, NEW c \in Collector, NEW g \in Group \ {Excluded},
         RunOver(c), Missing(g), [Next]_vars
  PROVE  RunOver(c)' \/ Takes(c, g)'
  <1>0. col \in [Collector -> SUBSET Group]
    BY DEF TypeInv, TypeOK
  <1>1. CASE CollectRead(c)
    <2>1. g \in ToAdd(ldap)
      BY MissingIsNew
    <2>2. col'[c] = ToAdd(ldap)
      BY <1>0, <1>1 DEF CollectRead
    <2>3. QED
      BY <2>1, <2>2 DEF Takes
  <1>2. ASSUME NEW h \in Group PROVE ~CollectInsert(c, h)
    BY DEF CollectInsert, RunOver
  <1>3. ~CollectAbort(c)
    BY DEF CollectAbort, RunOver
  <1>4. CASE col'[c] = col[c]
    BY <1>4 DEF RunOver
  <1>5. QED
    BY <1>1, <1>2, <1>3, <1>4, CollectorFrame

\* What a run has taken stays with it until it stands in the table.
LEMMA RunKeeps ==
  ASSUME TypeInv, NEW c \in Collector, NEW g \in Group \ {Excluded},
         Takes(c, g), [Next]_vars, [~CollectAbort(c)]_vars
  PROVE  Takes(c, g)' \/ ~Missing(g)'
  <1>0. col \in [Collector -> SUBSET Group] /\ deptRows \in [Group -> Nat]
    BY DEF TypeInv, TypeOK
  <1>1. ASSUME NEW h \in Group, CollectInsert(c, h) PROVE Takes(c, g)' \/ ~Missing(g)'
    <2>1. col'[c] = col[c] \ {h} /\ deptRows' = [deptRows EXCEPT ![h] = @ + 1] /\ h \in col[c]
      BY <1>0, <1>1 DEF CollectInsert
    <2>2. CASE h # g
      BY <2>1, <2>2 DEF Takes
    <2>3. CASE h = g
      <3>1. deptRows'[g] = deptRows[g] + 1 /\ deptRows[g] \in Nat
        BY <1>0, <2>1, <2>3
      <3>2. g \in KnownNames'
        BY <3>1 DEF KnownNames
      <3>3. QED
        BY <3>2 DEF Missing
    <2>4. QED
      BY <2>2, <2>3
  <1>2. CASE CollectRead(c)
    BY <1>2 DEF CollectRead, Takes
  <1>3. CASE col'[c] = col[c]
    BY <1>3 DEF Takes
  <1>4. CASE CollectAbort(c)
    <2>1. UNCHANGED vars
      BY <1>4
    <2>2. col'[c] = col[c]
      BY <2>1 DEF vars, collectVars
    <2>3. QED
      BY <2>2 DEF Takes
  <1>5. QED
    BY <1>1, <1>2, <1>3, <1>4, CollectorFrame

\* A group that stays in LDAP gets its department, in every instance with a collector
\* whose runs keep ending and beginning and are at some time no longer cut short: the
\* first run that begins afterwards takes the group, whatever the others do.
THEOREM GroupsGetDepartments ==
  ASSUME NEW c \in Collector
  PROVE  Spec /\ <>[][~CollectAbort(c)]_vars /\ RunsGoOn(c) => GroupGetsDepartment
  <1>1. Inv => TypeInv
    BY DEF Inv
  <1>2. ASSUME NEW g \in Group \ {Excluded}
        PROVE  Spec /\ <>[][~CollectAbort(c)]_vars /\ RunsGoOn(c) =>
                 (g \in ldap ~> g \notin ldap \/ g \in KnownNames)
    <2>1. TypeInv /\ RunOver(c) /\ Missing(g) /\ [Next]_vars => RunOver(c)' \/ Takes(c, g)'
      BY RunTakes
    <2>2. TypeInv /\ Takes(c, g) /\ [Next]_vars /\ [~CollectAbort(c)]_vars
            => Takes(c, g)' \/ ~Missing(g)'
      BY RunKeeps
    <2>3. Takes(c, g) => ~RunOver(c)
      BY DEF Takes, RunOver
    <2>4. TypeInv /\ Missing(g) => ~NothingToAdd
      BY MissingIsNew DEF NothingToAdd
    <2>5. ~Missing(g) => g \notin ldap \/ g \in KnownNames
      BY DEF Missing
    <2>6. QED
      BY <1>1, <2>1, <2>2, <2>3, <2>4, <2>5, InvCorrect, PTL DEF Spec, RunsGoOn
  <1>3. QED
    BY <1>2 DEF GroupGetsDepartment
=============================================================================
