----------------------------- MODULE GrantProofs -----------------------------
(***************************************************************************)
(* Proofs about Grant, for any number of threads, orders and addresses:    *)
(* types, what status and shown account say about the target, and that     *)
(* the target holds nothing that nobody applied for.                       *)
(***************************************************************************)
EXTENDS GrantProperties, TLAPS

USE GrantAssumption

\* A row that was never inserted has its defaults, one that was has a request.
Fresh ==
  \A o \in OrderId :
    /\ o \in used => request[o] \in Request
    /\ o \notin used => status[o] = STATUS_TO_GRANT

\* What a thread knows of the order it grants.
Work(t) ==
  LET o == thr[t].order IN
  /\ At(t, "idle") => o = NoOrder
  /\ ~At(t, "idle") => o \in used
  /\ At(t, "granting") =>
       /\ thr[t].left \subseteq request[o].ips
       /\ \A ip \in request[o].ips \ thr[t].left : <<o, ip>> \in granted
  /\ At(t, "account") \/ At(t, "succeeding") =>
       \A ip \in request[o].ips : <<o, ip>> \in granted
  /\ At(t, "succeeding") /\ o \in rows => account[o] = AccountOf(o)

\* The password of a granted account at an address is the one of an order that was
\* granted it there.
Opens(o, ip) ==
  \E p \in used : /\ <<p, ip>> \in granted
                  /\ AccountOf(p).user = AccountOf(o).user
                  /\ passwd[<<AccountOf(o).user, ip>>] = AccountOf(p).pass

Passwords == \A o \in used, ip \in Ip : <<o, ip>> \in granted => Opens(o, ip)

\* An order that succeeded shows its own account.
Shown == \A o \in rows : status[o] = STATUS_SUCCED => account[o] = AccountOf(o)

TypeInv == TypeOK /\ Fresh
KnownInv == \A t \in Thread : Work(t)
Inv == /\ TypeInv /\ KnownInv
       /\ SuccessIsComplete /\ Shown /\ Passwords /\ WaitingGaveNothing

-----------------------------------------------------------------------------
(* Operators *)

\* The account of an order that was applied for is an account.
LEMMA AccountType ==
  ASSUME NEW o \in OrderId, request[o] \in Request
  PROVE  AccountOf(o) \in Account
  <1>1. request[o].db \in Db /\ request[o].spec \in SpecAccount \cup {AutoGen}
    BY DEF Request
  <1>2. CASE request[o].spec = AutoGen
    BY <1>1, <1>2 DEF AccountOf, Account
  <1>3. CASE request[o].spec # AutoGen
    BY <1>1, <1>3 DEF AccountOf
  <1>4. QED
    BY <1>2, <1>3

\* What the handlers of a grant leave alone, and how the rest can change.
LEMMA GrantFrame ==
  ASSUME TypeInv, KnownInv, NEW t \in Thread, GoesOn(t) \/ Abort(t)
  PROVE  /\ UNCHANGED <<rows, used, request, listed>>
         /\ granted \subseteq granted'
         /\ thr' = [thr EXCEPT ![t] = thr'[t]]
         /\ thr'[t] \in [pc: Points, order: OrderId \cup {NoOrder}, left: SUBSET Ip]
         /\ thr'[t].order # thr[t].order => thr'[t] = Idle
  <1> USE DEF TypeInv, TypeOK, vars, tableVars, targetVars, Goto, Points
  <1>1. CASE \E ip \in Ip : GrantOne(t, ip) \/ GrantOneFails(t, ip)
    BY <1>1 DEF GrantOne, GrantOneFails, Granted, AfterBadGrant, NoEvent
  <1>2. CASE FlushPrivileges(t) \/ SetAccountInfo(t)
    BY <1>2 DEF FlushPrivileges, SetAccountInfo, AfterFlush, NoEvent
  <1>3. CASE SetSucced(t) \/ SetFailed(t)
    <2>1. thr' = [thr EXCEPT ![t] = Idle] /\ UNCHANGED <<rows, used, request, listed, granted>>
      BY <1>3 DEF SetSucced, SetFailed, SetStatus
    <2>2. Idle \in [pc: Points, order: OrderId \cup {NoOrder}, left: SUBSET Ip]
      BY DEF Idle
    <2>3. thr'[t] = Idle
      BY <2>1
    <2>4. QED
      BY <2>1, <2>2, <2>3
  <1>4. CASE Abort(t)
    <2>1. thr' = [thr EXCEPT ![t] = Idle] /\ UNCHANGED <<rows, used, request, listed, granted>>
      BY <1>4 DEF Abort
    <2>2. Idle \in [pc: Points, order: OrderId \cup {NoOrder}, left: SUBSET Ip]
      BY DEF Idle
    <2>3. thr'[t] = Idle
      BY <2>1
    <2>4. QED
      BY <2>1, <2>2, <2>3
  <1>5. QED
    BY <1>1, <1>2, <1>3, <1>4 DEF GoesOn

\* Applications, deletions and databases that go leave the threads alone.
LEMMA TypeStep == TypeInv /\ KnownInv /\ [Next]_vars => TypeInv'
  <1> SUFFICES ASSUME TypeInv, KnownInv, [Next]_vars PROVE TypeInv'
    OBVIOUS
  <1> USE DEF TypeInv, TypeOK, Fresh, vars, tableVars, targetVars, Asked, Fault, NoEvent
  <1>1. ASSUME NEW o \in OrderId, NEW lines \in SUBSET (Ip \cup {NoIp}), NEW db \in Db,
               NEW spec \in SpecAccount \cup {AutoGen}, Apply(o, lines, db, spec)
        PROVE  TypeInv'
    <2>1. [db |-> db, ips |-> Entered(lines), spec |-> spec] \in Request
      BY <1>1 DEF Apply, Entered, Request
    <2>2. request' \in [OrderId -> Request \cup {NoRequest}]
      BY <1>1, <2>1 DEF Apply
    <2>3. Fresh'
      BY <1>1, <2>1 DEF Apply
    <2>4. QED
      BY <1>1, <2>2, <2>3 DEF Apply
  <1>2. ASSUME NEW o \in used, DelOrder(o) PROVE TypeInv'
    BY <1>2 DEF DelOrder
  <1>3. ASSUME NEW o \in used, NEW t \in Thread, GrantBegin(t, o) PROVE TypeInv'
    <2>1. request[o].ips \subseteq Ip
      BY DEF Request
    <2>2. PICK r \in [pc: Points, order: OrderId \cup {NoOrder}, left: SUBSET Ip] :
            thr' = [thr EXCEPT ![t] = r]
      <3>1. [pc |-> "granting", order |-> o, left |-> request[o].ips]
              \in [pc: Points, order: OrderId \cup {NoOrder}, left: SUBSET Ip]
        BY <2>1 DEF Points
      <3>2. [pc |-> "failing", order |-> o, left |-> {}]
              \in [pc: Points, order: OrderId \cup {NoOrder}, left: SUBSET Ip]
        BY DEF Points
      <3>3. QED
        BY <1>3, <3>1, <3>2 DEF GrantBegin
    <2>3. thr' \in [Thread -> [pc: Points, order: OrderId \cup {NoOrder}, left: SUBSET Ip]]
      BY <2>2
    <2>4. QED
      BY <1>3, <2>3 DEF GrantBegin
  <1>4. ASSUME NEW t \in Thread, GoesOn(t) PROVE TypeInv'
    <2>1. /\ UNCHANGED <<rows, used, request, listed>>
          /\ thr' \in [Thread -> [pc: Points, order: OrderId \cup {NoOrder}, left: SUBSET Ip]]
      BY <1>4, GrantFrame
    <2>2. CASE \E ip \in Ip : GrantOne(t, ip) \/ GrantOneFails(t, ip)
      <3>1. PICK ip \in Ip : GrantOne(t, ip) \/ GrantOneFails(t, ip)
        BY <2>2
      <3>2. thr[t].order \in used
        BY <3>1 DEF KnownInv, Work, GrantOne, GrantOneFails, At
      <3>3. AccountOf(thr[t].order) \in Account
        BY <3>2, AccountType
      <3>4. CASE Granted(thr[t].order, ip)
        <4>1. granted' \subseteq used \X Ip
          BY <3>2, <3>4 DEF Granted
        <4>2. passwd' \in [User \X Ip -> Password \cup {NoPass}]
          BY <3>3, <3>4 DEF Granted, Account
        <4>3. QED
          BY <2>1, <3>1, <4>1, <4>2 DEF GrantOne, GrantOneFails
      <3>5. CASE UNCHANGED targetVars
        BY <2>1, <3>1, <3>5 DEF GrantOne, GrantOneFails
      <3>6. QED
        BY <3>1, <3>4, <3>5 DEF GrantOne, GrantOneFails
    <2>3. CASE FlushPrivileges(t)
      BY <2>1, <2>3 DEF FlushPrivileges
    <2>4. CASE SetAccountInfo(t)
      <3>1. thr[t].order \in used
        BY <2>4 DEF KnownInv, Work, SetAccountInfo, At
      <3>2. AccountOf(thr[t].order) \in Account
        BY <3>1, AccountType
      <3>3. account' \in [OrderId -> Account \cup {NoAccount}]
        BY <2>4, <3>2 DEF SetAccountInfo, Put
      <3>4. QED
        BY <2>1, <2>4, <3>3 DEF SetAccountInfo
    <2>5. CASE SetSucced(t) \/ SetFailed(t)
      <3>1. status' \in [OrderId -> {STATUS_TO_GRANT, STATUS_SUCCED, STATUS_FAILED}]
        BY <2>5 DEF SetSucced, SetFailed, SetStatus, Put, FailedStatus
      <3>2. \A o \in OrderId : o \notin used => status'[o] = status[o]
        BY <2>5 DEF SetSucced, SetFailed, SetStatus, Put
      <3>3. QED
        BY <2>1, <2>5, <3>1, <3>2 DEF SetSucced, SetFailed, SetStatus
    <2>6. QED
      BY <1>4, <2>2, <2>3, <2>4, <2>5 DEF GoesOn
  <1>5. ASSUME NEW t \in Thread, Abort(t) PROVE TypeInv'
    <2>1. thr[t].order \in used
      BY <1>5 DEF KnownInv, Work, Abort
    <2>2. thr' \in [Thread -> [pc: Points, order: OrderId \cup {NoOrder}, left: SUBSET Ip]]
      BY <1>5, GrantFrame
    <2>3. QED
      BY <1>5, <2>1, <2>2 DEF Abort
  <1>6. ASSUME NEW db \in Db, DbGone(db) PROVE TypeInv'
    BY <1>6 DEF DbGone
  <1>7. CASE UNCHANGED vars
    BY <1>7
  <1>8. QED
    BY <1>1, <1>2, <1>3, <1>4, <1>5, <1>6, <1>7 DEF Next, Requests

-----------------------------------------------------------------------------
(* What the threads know *)

\* What a thread that does not move knows stays true: privileges are not taken back,
\* requests do not change, and rows only go.
LEMMA OthersKnow ==
  ASSUME NEW t \in Thread, Work(t), Fresh,
         thr'[t] = thr[t], granted \subseteq granted', used \subseteq used',
         \A o \in used : request'[o] = request[o],
         \A o \in used : o \in rows' =>
            o \in rows /\ (account'[o] = account[o] \/ account'[o] = AccountOf(o))
  PROVE  Work(t)'
  <1>1. \A o \in used : AccountOf(o)' = AccountOf(o)
    BY DEF AccountOf
  <1>2. CASE At(t, "idle")
    BY <1>2 DEF Work, At
  <1>3. CASE ~At(t, "idle")
    BY <1>1, <1>3 DEF Work, At
  <1>4. QED
    BY <1>2, <1>3

LEMMA KnownStep == TypeInv /\ KnownInv /\ [Next]_vars => KnownInv'
  <1> SUFFICES ASSUME TypeInv, KnownInv, [Next]_vars, NEW u \in Thread PROVE Work(u)'
    BY DEF KnownInv
  <1> USE DEF TypeInv, TypeOK, vars, tableVars, targetVars
  <1>0. Work(u)
    BY DEF KnownInv
  <1>1. ASSUME NEW o \in OrderId, NEW lines \in SUBSET (Ip \cup {NoIp}), NEW db \in Db,
               NEW spec \in SpecAccount \cup {AutoGen}, Apply(o, lines, db, spec)
        PROVE  Work(u)'
    BY <1>0, <1>1, OthersKnow DEF Apply
  <1>2. ASSUME NEW o \in used, DelOrder(o) PROVE Work(u)'
    BY <1>0, <1>2, OthersKnow DEF DelOrder
  <1>3. ASSUME NEW o \in used, NEW t \in Thread, GrantBegin(t, o) PROVE Work(u)'
    <2>1. CASE u = t
      BY <1>3, <2>1 DEF GrantBegin, Work, At
    <2>2. CASE u # t
      BY <1>0, <1>3, <2>2, OthersKnow DEF GrantBegin
    <2>3. QED
      BY <2>1, <2>2
  <1>4. ASSUME NEW t \in Thread, GoesOn(t) \/ Abort(t) PROVE Work(u)'
    <2>1. /\ UNCHANGED <<rows, used, request>> /\ granted \subseteq granted'
          /\ thr' = [thr EXCEPT ![t] = thr'[t]]
      BY <1>4, GrantFrame
    <2>2. \A o \in used : AccountOf(o)' = AccountOf(o)
      BY <2>1 DEF AccountOf
    <2>3. \A o \in used : account'[o] = account[o] \/ account'[o] = AccountOf(o)
      BY <1>4 DEF GoesOn, GrantOne, GrantOneFails, FlushPrivileges, SetAccountInfo, Put,
         SetSucced, SetFailed, SetStatus, Abort
    <2>4. CASE u # t
      <3>1. thr'[u] = thr[u]
        BY <2>1, <2>4
      <3>2. QED
        BY <1>0, <2>1, <2>3, <3>1, OthersKnow
    <2>5. CASE u = t
      <3>1. ASSUME NEW ip \in Ip, GrantOne(t, ip) PROVE Work(t)'
        BY <1>0, <2>5, <2>1, <3>1 DEF GrantOne, Granted, Work, At
      <3>2. ASSUME NEW ip \in Ip, GrantOneFails(t, ip) PROVE Work(t)'
        BY <1>0, <2>5, <2>1, <3>2 DEF GrantOneFails, AfterBadGrant, Work, At
      <3>3. CASE FlushPrivileges(t)
        BY <1>0, <2>5, <2>1, <3>3 DEF FlushPrivileges, AfterFlush, Goto, Work, At
      <3>4. CASE SetAccountInfo(t)
        BY <1>0, <2>5, <2>1, <2>2, <3>4 DEF SetAccountInfo, Put, Goto, Work, At
      <3>5. CASE SetSucced(t) \/ SetFailed(t) \/ Abort(t)
        BY <2>5, <2>1, <3>5 DEF SetSucced, SetFailed, SetStatus, Abort, Idle, Work, At
      <3>6. QED
        BY <1>4, <2>5, <3>1, <3>2, <3>3, <3>4, <3>5 DEF GoesOn
    <2>6. QED
      BY <2>4, <2>5
  <1>5. ASSUME NEW db \in Db, DbGone(db) PROVE Work(u)'
    BY <1>0, <1>5, OthersKnow DEF DbGone
  <1>6. CASE UNCHANGED vars
    BY <1>0, <1>6, OthersKnow
  <1>7. QED
    BY <1>1, <1>2, <1>3, <1>4, <1>5, <1>6 DEF Next, Requests

-----------------------------------------------------------------------------
(* Status and account against the target *)

\* Only SetSucced makes an order a success, and it knows that all is granted.
LEMMA SuccessStep ==
  TypeInv /\ KnownInv /\ SuccessIsComplete /\ Shown /\ [Next]_vars
    => SuccessIsComplete' /\ Shown'
  <1> SUFFICES ASSUME TypeInv, KnownInv, SuccessIsComplete, Shown, [Next]_vars
               PROVE  SuccessIsComplete' /\ Shown'
    OBVIOUS
  <1> USE DEF TypeInv, TypeOK, vars, tableVars, targetVars
  <1>1. ASSUME NEW o \in OrderId, NEW lines \in SUBSET (Ip \cup {NoIp}), NEW db \in Db,
               NEW spec \in SpecAccount \cup {AutoGen}, Apply(o, lines, db, spec)
        PROVE  SuccessIsComplete' /\ Shown'
    <2>1. \A p \in rows' : p = o \/ (p \in rows /\ request'[p] = request[p])
      BY <1>1 DEF Apply
    <2>2. status'[o] = STATUS_TO_GRANT /\ UNCHANGED <<status, granted, account>>
      BY <1>1 DEF Apply, Fresh
    <2>3. QED
      BY <2>1, <2>2 DEF SuccessIsComplete, Shown, AccountOf, STATUS_TO_GRANT, STATUS_SUCCED
  <1>2. ASSUME NEW o \in used, DelOrder(o) PROVE SuccessIsComplete' /\ Shown'
    BY <1>2 DEF DelOrder, SuccessIsComplete, Shown, AccountOf
  <1>3. ASSUME NEW t \in Thread, GoesOn(t) \/ Abort(t) PROVE SuccessIsComplete' /\ Shown'
    <2>1. UNCHANGED <<rows, used, request>> /\ granted \subseteq granted'
      BY <1>3, GrantFrame
    <2>2. \A o \in used : AccountOf(o)' = AccountOf(o)
      BY <2>1 DEF AccountOf
    <2>3. CASE SetSucced(t)
      <3>1. Work(t) /\ At(t, "succeeding")
        BY <2>3 DEF KnownInv, SetSucced, SetStatus
      <3>2. /\ UNCHANGED <<granted, account>>
            /\ \A o \in rows : o # thr[t].order => status'[o] = status[o]
        BY <2>3 DEF SetSucced, SetStatus, Put
      <3>3. QED
        BY <2>1, <2>2, <3>1, <3>2 DEF SuccessIsComplete, Shown, Work
    <2>4. CASE SetFailed(t)
      <3>1. /\ UNCHANGED <<granted, account>>
            /\ \A o \in rows : status'[o] = status[o] \/ status'[o] = STATUS_FAILED
        BY <2>4 DEF SetFailed, SetStatus, Put, FailedStatus
      <3>2. QED
        BY <2>1, <2>2, <3>1 DEF SuccessIsComplete, Shown, STATUS_FAILED, STATUS_SUCCED
    <2>5. CASE SetAccountInfo(t)
      <3>1. /\ UNCHANGED <<granted, status>>
            /\ \A o \in rows : account'[o] = account[o] \/ account'[o] = AccountOf(o)
        BY <2>5 DEF SetAccountInfo, Put
      <3>2. QED
        BY <2>1, <2>2, <3>1 DEF SuccessIsComplete, Shown
    <2>6. CASE ~(SetSucced(t) \/ SetFailed(t) \/ SetAccountInfo(t))
      <3>1. UNCHANGED <<status, account>>
        BY <1>3, <2>6 DEF GoesOn, GrantOne, GrantOneFails, FlushPrivileges, Abort
      <3>2. QED
        BY <2>1, <2>2, <3>1 DEF SuccessIsComplete, Shown
    <2>7. QED
      BY <2>3, <2>4, <2>5, <2>6
  <1>4. ASSUME NEW o \in used, NEW t \in Thread, GrantBegin(t, o)
        PROVE  SuccessIsComplete' /\ Shown'
    BY <1>4 DEF GrantBegin, SuccessIsComplete, Shown, AccountOf
  <1>5. ASSUME NEW db \in Db, DbGone(db) PROVE SuccessIsComplete' /\ Shown'
    BY <1>5 DEF DbGone, SuccessIsComplete, Shown, AccountOf
  <1>6. CASE UNCHANGED vars
    BY <1>6 DEF SuccessIsComplete, Shown, AccountOf
  <1>7. QED
    BY <1>1, <1>2, <1>3, <1>4, <1>5, <1>6 DEF Next, Requests

\* A statement sets the password of its own order; elsewhere the password stays.
LEMMA PasswordsStep ==
  TypeInv /\ KnownInv /\ Passwords /\ [Next]_vars => Passwords'
  <1> SUFFICES ASSUME TypeInv, KnownInv, Passwords, [Next]_vars,
                      NEW p \in used', NEW i \in Ip, <<p, i>> \in granted'
               PROVE  Opens(p, i)'
    BY DEF Passwords
  <1> USE DEF TypeInv, TypeOK, vars, tableVars, targetVars
  <1>1. CASE UNCHANGED <<granted, passwd>>
    <2>1. p \in used /\ <<p, i>> \in granted
      BY <1>1
    <2>2. \A o \in used : request'[o] = request[o] /\ o \in used'
      BY DEF Next, Requests, Apply, DelOrder, GrantBegin, GoesOn, GrantOne, GrantOneFails,
         FlushPrivileges, SetAccountInfo, SetSucced, SetFailed, SetStatus, Abort, DbGone
    <2>3. \A o \in used : AccountOf(o)' = AccountOf(o)
      BY <2>2 DEF AccountOf
    <2>4. PICK q \in used : /\ <<q, i>> \in granted
                            /\ AccountOf(q).user = AccountOf(p).user
                            /\ passwd[<<AccountOf(p).user, i>>] = AccountOf(q).pass
      BY <2>1 DEF Passwords, Opens
    <2>5. AccountOf(p)' = AccountOf(p) /\ AccountOf(q)' = AccountOf(q)
      BY <2>1, <2>3
    <2>6. /\ q \in used' /\ <<q, i>> \in granted'
          /\ (AccountOf(q)').user = (AccountOf(p)').user
          /\ passwd'[<<(AccountOf(p)').user, i>>] = (AccountOf(q)').pass
      BY <1>1, <2>2, <2>4, <2>5
    <2>7. QED
      BY <2>6 DEF Opens
  <1>2. ASSUME NEW t \in Thread, NEW ip \in Ip, Granted(thr[t].order, ip),
               GrantOne(t, ip) \/ GrantOneFails(t, ip)
        PROVE  Opens(p, i)'
    <2> DEFINE o == thr[t].order
    <2>1. o \in used /\ UNCHANGED <<used, request>>
      BY <1>2 DEF KnownInv, Work, GrantOne, GrantOneFails, At
    <2>2. AccountOf(o) \in Account /\ AccountOf(p) \in Account
      BY <2>1, AccountType DEF Fresh
    <2>3. \A q \in used : AccountOf(q)' = AccountOf(q)
      BY <2>1 DEF AccountOf
    <2>4. <<o, ip>> \in granted' /\ granted \subseteq granted'
      BY <1>2 DEF Granted
    <2>5. CASE i = ip /\ AccountOf(p).user = AccountOf(o).user
      <3>1. passwd'[<<AccountOf(p).user, i>>] = AccountOf(o).pass
        BY <1>2, <2>2, <2>5 DEF Granted, Account
      <3>2. QED
        BY <2>1, <2>3, <2>4, <2>5, <3>1 DEF Opens
    <2>6. CASE ~(i = ip /\ AccountOf(p).user = AccountOf(o).user)
      <3>1. passwd'[<<AccountOf(p).user, i>>] = passwd[<<AccountOf(p).user, i>>]
        BY <1>2, <2>2, <2>6 DEF Granted, Account
      <3>2. p \in used /\ <<p, i>> \in granted
        BY <1>2, <2>1, <2>6 DEF Granted
      <3>3. PICK q \in used : /\ <<q, i>> \in granted
                              /\ AccountOf(q).user = AccountOf(p).user
                              /\ passwd[<<AccountOf(p).user, i>>] = AccountOf(q).pass
        BY <3>2 DEF Passwords, Opens
      <3>4. AccountOf(p)' = AccountOf(p) /\ AccountOf(q)' = AccountOf(q)
        BY <2>3, <3>2
      <3>5. /\ q \in used' /\ <<q, i>> \in granted'
            /\ (AccountOf(q)').user = (AccountOf(p)').user
            /\ passwd'[<<(AccountOf(p)').user, i>>] = (AccountOf(q)').pass
        BY <2>1, <2>4, <3>1, <3>3, <3>4
      <3>6. QED
        BY <3>5 DEF Opens
    <2>7. QED
      BY <2>5, <2>6
  <1>3. QED
    BY <1>1, <1>2 DEF Next, Requests, Apply, DelOrder, GrantBegin, GoesOn, GrantOne,
       GrantOneFails, FlushPrivileges, SetAccountInfo, SetSucced, SetFailed, SetStatus,
       Abort, DbGone

\* Whoever grants is seen: by its thread, by the status it leaves, or by a restart.
LEMMA WaitingStep ==
  TypeInv /\ KnownInv /\ WaitingGaveNothing /\ [Next]_vars => WaitingGaveNothing'
  <1> SUFFICES ASSUME TypeInv, KnownInv, WaitingGaveNothing, [Next]_vars,
                      NEW o \in rows', NEW ip \in Ip,
                      status'[o] = STATUS_TO_GRANT, <<o, ip>> \in granted'
               PROVE  o \in cut' \/ \E t \in Thread : thr'[t].order = o
    BY DEF WaitingGaveNothing
  <1> USE DEF TypeInv, TypeOK, vars, tableVars, targetVars
  <1>1. ASSUME NEW t \in Thread, GoesOn(t)
        PROVE  o \in cut' \/ \E x \in Thread : thr'[x].order = o
    <2>1. /\ UNCHANGED <<rows, used, request, cut>>
          /\ thr' = [thr EXCEPT ![t] = thr'[t]]
          /\ thr'[t].order # thr[t].order => thr'[t] = Idle
      BY <1>1, GrantFrame DEF GoesOn, GrantOne, GrantOneFails, FlushPrivileges,
         SetAccountInfo, SetSucced, SetFailed, SetStatus
    <2>2. CASE SetSucced(t) \/ SetFailed(t)
      <3>1. thr[t].order # o
        BY <2>1, <2>2 DEF SetSucced, SetFailed, SetStatus, Put, FailedStatus,
           STATUS_TO_GRANT, STATUS_SUCCED, STATUS_FAILED
      <3>2. status[o] = STATUS_TO_GRANT /\ <<o, ip>> \in granted
        BY <2>2, <3>1 DEF SetSucced, SetFailed, SetStatus, Put
      <3>3. QED
        BY <2>1, <3>1, <3>2 DEF WaitingGaveNothing
    <2>3. CASE ~(SetSucced(t) \/ SetFailed(t))
      <3>1. status' = status /\ thr'[t].order = thr[t].order
        BY <1>1, <2>3 DEF GoesOn, GrantOne, GrantOneFails, AfterBadGrant, FlushPrivileges,
           SetAccountInfo, Goto
      <3>2. <<o, ip>> \in granted \/ thr[t].order = o
        <4>1. \A x \in Ip : GrantOne(t, x) \/ GrantOneFails(t, x) =>
                granted' = granted \/ granted' = granted \cup {<<thr[t].order, x>>}
          BY DEF GrantOne, GrantOneFails, Granted
        <4>2. FlushPrivileges(t) \/ SetAccountInfo(t) => granted' = granted
          BY DEF FlushPrivileges, SetAccountInfo
        <4>3. QED
          BY <1>1, <2>3, <4>1, <4>2 DEF GoesOn
      <3>3. QED
        BY <2>1, <3>1, <3>2 DEF WaitingGaveNothing
    <2>4. QED
      BY <2>2, <2>3
  <1>2. ASSUME NEW t \in Thread, Abort(t)
        PROVE  o \in cut' \/ \E x \in Thread : thr'[x].order = o
    BY <1>2 DEF Abort, WaitingGaveNothing
  <1>3. ASSUME NEW q \in used, NEW t \in Thread, GrantBegin(t, q)
        PROVE  o \in cut' \/ \E x \in Thread : thr'[x].order = o
    <2>1. thr[t].order = NoOrder
      BY <1>3 DEF GrantBegin, KnownInv, Work
    <2>2. PICK r : thr' = [thr EXCEPT ![t] = r]
      BY <1>3 DEF GrantBegin
    <2>3. \A x \in Thread : thr[x].order = o => x # t /\ thr'[x] = thr[x]
      BY <1>3, <2>1, <2>2 DEF GrantBegin
    <2>4. QED
      BY <1>3, <2>3 DEF GrantBegin, WaitingGaveNothing
  <1>4. ASSUME NEW q \in OrderId, NEW lines \in SUBSET (Ip \cup {NoIp}), NEW db \in Db,
               NEW spec \in SpecAccount \cup {AutoGen}, Apply(q, lines, db, spec)
        PROVE  o \in cut' \/ \E x \in Thread : thr'[x].order = o
    BY <1>4 DEF Apply, WaitingGaveNothing
  <1>5. CASE (\E q \in used : DelOrder(q)) \/ (\E db \in Db : DbGone(db)) \/ UNCHANGED vars
    BY <1>5 DEF DelOrder, DbGone, WaitingGaveNothing
  <1>6. QED
    BY <1>1, <1>2, <1>3, <1>4, <1>5 DEF Next, Requests

-----------------------------------------------------------------------------
(* The theorems *)

LEMMA InitInv == Init => Inv
  <1> SUFFICES ASSUME Init PROVE Inv
    OBVIOUS
  <1>1. TypeInv
    BY DEF Init, TypeInv, TypeOK, Fresh, Idle, Points
  <1>2. KnownInv
    BY DEF Init, KnownInv, Work, Idle, At
  <1>3. QED
    BY <1>1, <1>2 DEF Init, Inv, SuccessIsComplete, Shown, Passwords, WaitingGaveNothing

\* Inv, of which every safety property is a part or a consequence.
THEOREM InvCorrect == Spec => []Inv
  <1>1. Inv /\ [Next]_vars => Inv'
    BY TypeStep, KnownStep, SuccessStep, PasswordsStep, WaitingStep DEF Inv
  <1>2. QED
    BY InitInv, <1>1, PTL DEF Spec

\* Table, target, locals and history keep their types.
THEOREM GrantTypeSafe == Spec => []TypeOK
  <1>1. Inv => TypeOK
    BY DEF Inv, TypeInv
  <1>2. QED
    BY InvCorrect, <1>1, PTL

\* An order shown as granted was granted for every address.
THEOREM CompleteSafe == Spec => []SuccessIsComplete
  <1>1. Inv => SuccessIsComplete
    BY DEF Inv
  <1>2. QED
    BY InvCorrect, <1>1, PTL

\* The account shown opens the target until another order's grant for the same user
\* name and address.
THEOREM ShownSafe == Spec => []ShownAccountOpens
  <1>1. Inv => ShownAccountOpens
    <2> SUFFICES ASSUME Inv, NEW o \in rows, status[o] = STATUS_SUCCED
                 PROVE  /\ account[o] = AccountOf(o)
                        /\ \A ip \in request[o].ips :
                             \/ passwd[<<account[o].user, ip>>] = account[o].pass
                             \/ \E p \in used \ {o} :
                                  /\ <<p, ip>> \in granted
                                  /\ AccountOf(p).user = account[o].user
      BY DEF ShownAccountOpens
    <2>1. account[o] = AccountOf(o) /\ o \in used
      BY DEF Inv, Shown, TypeInv, TypeOK
    <2>2. ASSUME NEW ip \in request[o].ips PROVE <<o, ip>> \in granted /\ ip \in Ip
      BY <2>1, <2>2 DEF Inv, SuccessIsComplete, TypeInv, TypeOK, Fresh, Request
    <2>3. ASSUME NEW ip \in request[o].ips PROVE Opens(o, ip)
      BY <2>1, <2>2 DEF Inv, Passwords
    <2>4. QED
      BY <2>1, <2>3 DEF Opens
  <1>2. QED
    BY InvCorrect, <1>1, PTL

\* What an order that waits was granted is being granted or was cut short.
THEOREM WaitingSafe == Spec => []WaitingGaveNothing
  <1>1. Inv => WaitingGaveNothing
    BY DEF Inv
  <1>2. QED
    BY InvCorrect, <1>1, PTL

-----------------------------------------------------------------------------
(* Nothing on the target that nobody applied for *)

\* What an order was granted is in its application, however many grants of it ran,
\* and every password on the target is that of an order that was granted there, even
\* of one whose row is gone: grant() identifies an account with the password of the
\* order it is at, for the addresses it was entered with (model/grant.py:347-389).
AskedFor ==
  \A o \in OrderId, ip \in Ip : <<o, ip>> \in granted => o \in used /\ ip \in request[o].ips

HasAnOrder ==
  \A u \in User, ip \in Ip : passwd[<<u, ip>>] # NoPass =>
    \E o \in used : /\ <<o, ip>> \in granted /\ AccountOf(o).user = u
                    /\ AccountOf(o).pass = passwd[<<u, ip>>]

TargetIsTraced == AskedFor /\ HasAnOrder

\* The statements of a grant are the only ones that reach the target.
LEMMA TargetFrame ==
  ASSUME TypeInv, KnownInv, [Next]_vars
  PROVE  \/ UNCHANGED <<granted, passwd>>
         \/ \E t \in Thread, ip \in Ip :
              /\ At(t, "granting") /\ ip \in thr[t].left
              /\ Granted(thr[t].order, ip) /\ UNCHANGED <<used, request>>
  BY DEF Next, Requests, Apply, DelOrder, GrantBegin, GoesOn, GrantOne, GrantOneFails,
     FlushPrivileges, SetAccountInfo, SetSucced, SetFailed, SetStatus, Abort, DbGone,
     vars, tableVars, targetVars

\* Applications stay as they were entered.
LEMMA RequestsStay ==
  ASSUME TypeInv, [Next]_vars
  PROVE  used \subseteq used' /\ \A o \in used : request'[o] = request[o]
  BY DEF Next, Requests, Apply, DelOrder, GrantBegin, GoesOn, GrantOne, GrantOneFails,
     FlushPrivileges, SetAccountInfo, SetSucced, SetFailed, SetStatus, Abort, DbGone,
     vars, tableVars, targetVars, TypeInv, TypeOK

\* Over every step, what is on the target can be traced to an application.
LEMMA TraceStep == TypeInv /\ KnownInv /\ TargetIsTraced /\ [Next]_vars => TargetIsTraced'
  <1> SUFFICES ASSUME TypeInv, KnownInv, TargetIsTraced, [Next]_vars PROVE TargetIsTraced'
    OBVIOUS
  <1>1. used \subseteq used' /\ \A o \in used : request'[o] = request[o]
    BY RequestsStay
  <1>2. \A o \in used : AccountOf(o)' = AccountOf(o)
    BY <1>1 DEF AccountOf
  <1>3. CASE UNCHANGED <<granted, passwd>>
    <2>1. AskedFor'
      BY <1>1, <1>3 DEF TargetIsTraced, AskedFor
    <2>2. ASSUME NEW u \in User, NEW ip \in Ip, passwd'[<<u, ip>>] # NoPass
          PROVE  \E o \in used' : /\ <<o, ip>> \in granted' /\ (AccountOf(o)').user = u
                                  /\ (AccountOf(o)').pass = passwd'[<<u, ip>>]
      <3>1. PICK o \in used : /\ <<o, ip>> \in granted /\ AccountOf(o).user = u
                              /\ AccountOf(o).pass = passwd[<<u, ip>>]
        BY <1>3, <2>2 DEF TargetIsTraced, HasAnOrder
      <3>2. AccountOf(o)' = AccountOf(o)
        BY <1>2
      <3>3. o \in used'
        BY <1>1
      <3>4. QED
        BY <1>3, <3>1, <3>2, <3>3
    <2>3. QED
      BY <2>1, <2>2 DEF TargetIsTraced, HasAnOrder
  <1>4. ASSUME NEW t \in Thread, NEW a \in Ip, At(t, "granting"), a \in thr[t].left,
               Granted(thr[t].order, a), UNCHANGED <<used, request>>
        PROVE  TargetIsTraced'
    <2>0. thr[t].order \in used
      BY <1>4 DEF KnownInv, Work, At
    <2>1. PICK p \in used : p = thr[t].order /\ a \in request[p].ips
      BY <1>4, <2>0 DEF KnownInv, Work, At
    <2>2. AccountOf(p) \in Account
      BY <2>1, AccountType DEF TypeInv, TypeOK, Fresh
    <2>3. /\ granted' = granted \cup {<<p, a>>}
          /\ passwd' = [passwd EXCEPT ![<<AccountOf(p).user, a>>] = AccountOf(p).pass]
          /\ passwd \in [User \X Ip -> Password \cup {NoPass}]
      BY <1>4, <2>1 DEF Granted, TypeInv, TypeOK
    <2>4. AskedFor'
      BY <1>4, <2>1, <2>3 DEF TargetIsTraced, AskedFor
    <2>5. ASSUME NEW u \in User, NEW ip \in Ip, passwd'[<<u, ip>>] # NoPass
          PROVE  \E o \in used' : /\ <<o, ip>> \in granted' /\ (AccountOf(o)').user = u
                                  /\ (AccountOf(o)').pass = passwd'[<<u, ip>>]
      <3>1. CASE u = AccountOf(p).user /\ ip = a
        <4>1. passwd'[<<u, ip>>] = AccountOf(p).pass
          BY <2>3, <3>1
        <4>2. AccountOf(p)' = AccountOf(p) /\ p \in used'
          BY <1>1, <1>2, <2>1
        <4>3. QED
          BY <2>3, <3>1, <4>1, <4>2
      <3>2. CASE ~(u = AccountOf(p).user /\ ip = a)
        <4>1. passwd'[<<u, ip>>] = passwd[<<u, ip>>]
          BY <2>3, <3>2
        <4>2. PICK o \in used : /\ <<o, ip>> \in granted /\ AccountOf(o).user = u
                                /\ AccountOf(o).pass = passwd[<<u, ip>>]
          BY <2>5, <4>1 DEF TargetIsTraced, HasAnOrder
        <4>3. AccountOf(o)' = AccountOf(o) /\ o \in used'
          BY <1>1, <1>2
        <4>4. QED
          BY <2>3, <4>1, <4>2, <4>3
      <3>3. QED
        BY <3>1, <3>2
    <2>6. QED
      BY <2>4, <2>5 DEF TargetIsTraced, HasAnOrder
  <1>5. QED
    BY <1>3, <1>4, TargetFrame

\* The target holds no privilege and no password but those of applications, whatever
\* grants overlap, fail half way, or outlive the row of their order.
THEOREM TargetTraced == Spec => []TargetIsTraced
  <1>1. Init => TargetIsTraced
    BY DEF Init, TargetIsTraced, AskedFor, HasAnOrder
  <1>2. Inv /\ TargetIsTraced /\ [Next]_vars => TargetIsTraced'
    BY TraceStep DEF Inv
  <1>3. QED
    BY <1>1, <1>2, InvCorrect, PTL DEF Spec
=============================================================================
