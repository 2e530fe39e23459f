-------------------------- MODULE ArchiveRunProofs --------------------------
(***************************************************************************)
(* Proofs about the runs of an archive task, for any number of overlapping *)
(* runs, tables, rows and faults.                                          *)
(***************************************************************************)
EXTENDS ArchiveRunProperties, TLAPS

Copied(r) == \E n \in exist : <<n, r>> \in copied

Whole(r) == Copied(r) /\ (task.purge => r \notin src)

\* A dump of the run saw the row, and its file has it unless it was created anew.
Backed(p, r) ==
  \E n \in Name : <<n, r>> \in dumped[p] /\ (r \in file[n] \/ n \in overwritten)

\* What the program point of a run says about its dumps.
DumpInv(p) ==
  /\ run[p].pc = "idle" => purged[p] = {} /\ log[p] = "none"
  /\ task.backup /\ run[p].pc = "dump" =>
       \A r \in atStart[p] \cap src : TableOf[r] \notin run[p].todo => Backed(p, r)
  /\ task.backup /\ run[p].pc \in {"ensure", "archive"} =>
       \A r \in atStart[p] \cap src : Backed(p, r)

\* What it says about the tables it has moved.
MoveInv(p) ==
  /\ run[p].pc = "archive" =>
       \A r \in atStart[p] : TableOf[r] \notin run[p].todo => Whole(r)
  /\ run[p].ok => run[p].pc \in {"log", "exit"} /\ \A r \in atStart[p] : Whole(r)
  /\ log[p] = "success" => \A r \in atStart[p] : Whole(r)

\* What is kept of one run.
Own(p) ==
  /\ DumpInv(p) /\ MoveInv(p)
  /\ atStart[p] \subseteq arrived
  /\ task.backup => \A r \in purged[p] \cap atStart[p] : Backed(p, r)

Inv == TypeOK /\ NothingLost /\ \A p \in Run : Own(p)

-----------------------------------------------------------------------------
(* Types *)

LEMMA StartName ==
  Table \X {0} \subseteq Name
BY RunAssumption DEF Name

LEMMA DstNameType ==
  ASSUME TypeOK, NEW t \in Table
  PROVE  DstName(t) \in Name /\ FileName(t) \in Name
BY RunAssumption, SMT DEF TypeOK, DstName, FileName, Name

LEMMA RowsType ==
  ASSUME TypeOK, NEW t
  PROVE  RowsOf(t) \subseteq src /\ RowsOf(t) \subseteq Row
BY DEF TypeOK, RowsOf

LEMMA WriteType ==
  ASSUME TypeOK, NEW t \in Table, NEW content \in SUBSET Row, Write(t, content)
  PROVE  file' \in [Name -> SUBSET Row] /\ overwritten' \subseteq Name
BY DstNameType DEF Write, TypeOK

\* Whatever is written, a row that was in a file still is or the file was created anew.
LEMMA WriteKeeps ==
  ASSUME TypeOK, NEW t, NEW content, Write(t, content),
         NEW q \in Run, dumped[q] \subseteq dumped'[q],
         NEW r, Backed(q, r)
  PROVE  Backed(q, r)'
<1>1. PICK n \in Name : <<n, r>> \in dumped[q] /\ (r \in file[n] \/ n \in overwritten)
  BY DEF Backed
<1>2. r \in file'[n] \/ n \in overwritten'
  <2>1. CASE n = FileName(t)
    BY <1>1, <2>1 DEF Write
  <2>2. CASE n # FileName(t)
    <3>1. file'[n] = file[n]
      BY <2>2 DEF Write, TypeOK
    <3> QED
      BY <1>1, <3>1 DEF Write
  <2> QED
    BY <2>1, <2>2
<1> QED
  BY <1>1, <1>2 DEF Backed

\* The run's record after Goto and Done.
Stage == {"idle", "dump", "ensure", "archive", "log", "exit"}

LEMMA GotoType ==
  ASSUME TypeOK, NEW p \in Run, NEW pc \in Stage, NEW ok \in BOOLEAN, Goto(p, pc, ok)
  PROVE  /\ run' \in [Run -> [pc: Stage, todo: SUBSET Table, ok: BOOLEAN]]
         /\ run'[p] = [pc |-> pc, todo |-> Table, ok |-> ok]
         /\ \A q \in Run \ {p} : run'[q] = run[q]
BY DEF TypeOK, Goto, Stage

LEMMA DoneType ==
  ASSUME TypeOK, NEW p \in Run, NEW t \in run[p].todo, NEW next \in Stage, Done(p, t, next)
  PROVE  /\ run' \in [Run -> [pc: Stage, todo: SUBSET Table, ok: BOOLEAN]]
         /\ \/ /\ run[p].todo = {t}
               /\ run'[p] = [pc |-> next, todo |-> Table, ok |-> (next = "log")]
            \/ run'[p] = [pc |-> run[p].pc, todo |-> run[p].todo \ {t}, ok |-> run[p].ok]
         /\ \A q \in Run \ {p} : run'[q] = run[q]
<1>1. CASE run[p].todo = {t}
  <2>1. Goto(p, next, next = "log")
    BY <1>1 DEF Done
  <2>2. (next = "log") \in BOOLEAN
    OBVIOUS
  <2> QED
    BY <1>1, <2>1, <2>2, GotoType
<1>2. CASE run[p].todo # {t}
  <2>1. run' = [run EXCEPT ![p].todo = @ \ {t}]
    BY <1>2 DEF Done
  <2> QED
    BY <2>1 DEF TypeOK, Stage
<1> QED
  BY <1>1, <1>2

LEMMA FaultType ==
  ASSUME TypeOK, Fault \/ Steady
  PROVE  faults' \in Nat
BY DEF TypeOK, Fault, Steady

-----------------------------------------------------------------------------
(* Types of each step *)

\* The steps of a run that change no store of rows or tables.
LEMMA LocalStepType ==
  ASSUME TypeOK, NEW p \in Run, Load(p) \/ Log(p) \/ Die(p)
  PROVE  TypeOK'
<1>1. CASE Load(p)
  <2>1. AfterLoad \in Stage
    BY DEF AfterLoad, AfterDumps, Stage
  <2>2. run' \in [Run -> [pc: Stage, todo: SUBSET Table, ok: BOOLEAN]]
    BY <1>1, <2>1, GotoType DEF Load, GiveUp, Stage
  <2>3. atStart' \in [Run -> SUBSET Row]
    BY <1>1 DEF Load, TypeOK
  <2> QED
    BY <1>1, <2>2, <2>3, FaultType DEF TypeOK, Load, Stage, dstVars, fileVars
<1>2. CASE Log(p)
  <2>1. run' \in [Run -> [pc: Stage, todo: SUBSET Table, ok: BOOLEAN]]
    BY <1>2 DEF Log, TypeOK, Stage
  <2>2. log' \in [Run -> {"none", "success", "failure"}]
    BY <1>2 DEF Log, TypeOK
  <2> QED
    BY <1>2, <2>1, <2>2, FaultType DEF TypeOK, Log, Stage, dstVars, noteVars, fileVars
<1>3. CASE Die(p)
  <2>1. run' \in [Run -> [pc: Stage, todo: SUBSET Table, ok: BOOLEAN]]
    BY <1>3 DEF Die, TypeOK, Stage
  <2>2. file' \in [Name -> SUBSET Row] /\ overwritten' \subseteq Name
    <3>1. CASE UNCHANGED fileVars
      BY <3>1 DEF fileVars, TypeOK
    <3>2. CASE \E t \in run[p].todo : WritePart(t)
      <4>1. PICK t \in run[p].todo : WritePart(t)
        BY <3>2
      <4>2. t \in Table /\ RowsOf(t) \subseteq Row
        BY RowsType DEF TypeOK
      <4> QED
        BY <4>1, <4>2, WriteType DEF WritePart
    <3> QED
      BY <1>3, <3>1, <3>2 DEF Die
  <2> QED
    BY <1>3, <2>1, <2>2, FaultType DEF TypeOK, Die, Stage, dstVars, noteVars, fileVars
<1> QED
  BY <1>1, <1>2, <1>3

LEMMA DumpStepType ==
  ASSUME TypeOK, NEW p \in Run, Dump(p)
  PROVE  TypeOK'
<1>1. PICK t \in run[p].todo :
        \/ /\ Write(t, RowsOf(t))
           /\ dumped' = [dumped EXCEPT ![p] = @ \cup {FileName(t)} \X RowsOf(t)]
           /\ Done(p, t, AfterDumps)
           /\ Steady
        \/ /\ WritePart(t)
           /\ AfterBadDump(p, t)
           /\ Fault
           /\ UNCHANGED dumped
  BY DEF Dump
<1>2. t \in Table /\ RowsOf(t) \subseteq Row
  BY RowsType DEF TypeOK
<1>3. file' \in [Name -> SUBSET Row] /\ overwritten' \subseteq Name
  BY <1>1, <1>2, WriteType DEF WritePart
<1>6. dumped' \in [Run -> SUBSET (Name \X Row)]
  BY <1>1, <1>2, DstNameType DEF TypeOK
<1>4. AfterDumps \in Stage
  BY DEF AfterDumps, Stage
<1>5. run' \in [Run -> [pc: Stage, todo: SUBSET Table, ok: BOOLEAN]]
  BY <1>1, <1>4, DoneType, GotoType DEF AfterBadDump, GiveUp, Stage
<1> QED
  BY <1>1, <1>3, <1>5, <1>6, FaultType DEF TypeOK, Dump, Stage, dstVars

LEMMA EnsureStepType ==
  ASSUME TypeOK, NEW p \in Run, Ensure(p)
  PROVE  TypeOK' /\ exist \subseteq exist'
<1>1. PICK t \in run[p].todo :
        \/ exist' = exist \cup {DstName(t)} /\ Done(p, t, "archive") /\ Steady
        \/ exist' \in {exist, exist \cup {DstName(t)}} /\ GiveUp(p) /\ Fault
  BY DEF Ensure
<1>2. t \in Table
  BY DEF TypeOK
<1>3. exist' \subseteq Name /\ exist \subseteq exist'
  BY <1>1, <1>2, DstNameType DEF TypeOK
<1>4. copied' \subseteq exist' \X Row
  BY <1>3 DEF TypeOK, Ensure, fileVars
<1>5. run' \in [Run -> [pc: Stage, todo: SUBSET Table, ok: BOOLEAN]]
  BY <1>1, DoneType, GotoType DEF GiveUp, Stage
<1> QED
  BY <1>1, <1>3, <1>4, <1>5, FaultType DEF TypeOK, Ensure, Stage, noteVars, fileVars

\* What one pt-archiver did: it inserted c and deleted d of the table t.
Moved(p, t, c, d) ==
  /\ c \subseteq RowsOf(t) /\ d \subseteq c
  /\ c = {} \/ DstName(t) \in exist
  /\ Move(p, t, c, d)

LEMMA ArchiveMoves ==
  ASSUME TypeOK, NEW p \in Run, Archive(p)
  PROVE  \E t \in run[p].todo :
           \E c \in SUBSET RowsOf(t) : \E d \in SUBSET c :
             /\ Moved(p, t, c, d)
             /\ \/ /\ c = RowsOf(t) /\ (task.purge => d = c)
                   /\ Done(p, t, "log")
                \/ GiveUp(p)
<1>1. PICK t \in run[p].todo :
        \/ /\ DstName(t) \in exist
           /\ Move(p, t, RowsOf(t), IF task.purge THEN RowsOf(t) ELSE {})
           /\ Done(p, t, "log")
           /\ Steady
        \/ /\ DstName(t) \in exist
           /\ \E c \in SUBSET RowsOf(t) : \E d \in Deletable(t, c) : Move(p, t, c, d)
           /\ AfterBadMove(p, t)
           /\ \/ Fault
              \/ Steady /\ \E r \in RowsOf(t) : <<DstName(t), r>> \in copied
        \/ /\ DstName(t) \notin exist
           /\ UNCHANGED <<copied, src, purged>>
           /\ AfterBadMove(p, t)
           /\ Steady
  BY DEF Archive
<1>2. CASE /\ DstName(t) \in exist
           /\ Move(p, t, RowsOf(t), IF task.purge THEN RowsOf(t) ELSE {})
           /\ Done(p, t, "log")
  <2> DEFINE d == IF task.purge THEN RowsOf(t) ELSE {}
  <2>1. d \in SUBSET RowsOf(t) /\ Moved(p, t, RowsOf(t), d)
    BY <1>2 DEF Moved
  <2> QED
    BY <1>2, <2>1
<1>3. CASE /\ DstName(t) \in exist
           /\ \E c \in SUBSET RowsOf(t) : \E d \in Deletable(t, c) : Move(p, t, c, d)
           /\ AfterBadMove(p, t)
  <2>1. PICK c \in SUBSET RowsOf(t) : \E d \in Deletable(t, c) : Move(p, t, c, d)
    BY <1>3
  <2>2. PICK d \in Deletable(t, c) : Move(p, t, c, d)
    BY <2>1
  <2>3. d \in SUBSET c /\ Moved(p, t, c, d)
    BY <1>3, <2>2 DEF Deletable, Moved
  <2> QED
    BY <1>3, <2>3 DEF AfterBadMove
<1>4. CASE UNCHANGED <<copied, src, purged>> /\ AfterBadMove(p, t)
  <2>1. Moved(p, t, {}, {})
    BY <1>4 DEF Moved, Move, TypeOK
  <2> QED
    BY <1>4, <2>1 DEF AfterBadMove
<1> QED
  BY <1>1, <1>2, <1>3, <1>4

LEMMA ArchiveStepType ==
  ASSUME TypeOK, NEW p \in Run, Archive(p)
  PROVE  TypeOK' /\ copied \subseteq copied' /\ src' \subseteq src
<1>1. PICK t \in run[p].todo : \E c \in SUBSET RowsOf(t) : \E d \in SUBSET c :
        Moved(p, t, c, d) /\ (Done(p, t, "log") \/ GiveUp(p))
  BY ArchiveMoves
<1>2. PICK c \in SUBSET RowsOf(t) : \E d \in SUBSET c :
        Moved(p, t, c, d) /\ (Done(p, t, "log") \/ GiveUp(p))
  BY <1>1
<1>3. PICK d \in SUBSET c : Moved(p, t, c, d) /\ (Done(p, t, "log") \/ GiveUp(p))
  BY <1>2
<1>4. c \subseteq Row /\ d \subseteq Row /\ exist' = exist
  BY RowsType DEF Archive
<1>5. copied' \subseteq exist' \X Row
  BY <1>3, <1>4 DEF TypeOK, Moved, Move
<1>6. src' \subseteq arrived /\ purged' \in [Run -> SUBSET Row]
  BY <1>3, <1>4 DEF TypeOK, Moved, Move
<1>7. run' \in [Run -> [pc: Stage, todo: SUBSET Table, ok: BOOLEAN]]
  BY <1>3, DoneType, GotoType DEF GiveUp, Stage
<1>8. faults' \in Nat
  BY FaultType DEF Archive
<1>9. copied \subseteq copied' /\ src' \subseteq src
  BY <1>3 DEF Moved, Move
<1> QED
  BY <1>4, <1>5, <1>6, <1>7, <1>8, <1>9 DEF TypeOK, Archive, Stage, fileVars

LEMMA SurroundingsType ==
  ASSUME TypeOK, (\E r \in Row : Arrive(r)) \/ DeleteTask \/ Tick
  PROVE  TypeOK'
<1>1. CASE \E r \in Row : Arrive(r)
  BY <1>1, FaultType DEF TypeOK, Arrive, dstVars, noteVars, fileVars
<1>2. CASE DeleteTask
  BY <1>2, FaultType DEF TypeOK, DeleteTask, dstVars, noteVars, fileVars
<1>3. CASE Tick
  BY <1>3, FaultType, RunAssumption DEF TypeOK, Tick, dstVars, noteVars, fileVars
<1> QED
  BY <1>1, <1>2, <1>3

LEMMA TypeStep ==
  ASSUME TypeOK, [Next]_vars
  PROVE  TypeOK'
<1>1. CASE Next
  BY <1>1, LocalStepType, DumpStepType, EnsureStepType, ArchiveStepType, SurroundingsType
     DEF Next, RunStep
<1>2. CASE UNCHANGED vars
  BY <1>2 DEF TypeOK, vars, dstVars, noteVars, fileVars
<1> QED
  BY <1>1, <1>2

-----------------------------------------------------------------------------
(* What no step takes back *)

Grow ==
  /\ task' = task /\ arrived \subseteq arrived'
  /\ exist \subseteq exist' /\ copied \subseteq copied'
  /\ \A r \in arrived : r \notin src => r \notin src'
  /\ \A q \in Run, r \in Row : Backed(q, r) => Backed(q, r)'

\* The locals and the history of a run.
Untouched(q) ==
  /\ run'[q] = run[q] /\ atStart'[q] = atStart[q]
  /\ log'[q] = log[q] /\ purged'[q] = purged[q]

LEMMA RunGrow ==
  ASSUME TypeOK, NEW p \in Run, RunStep(p) \/ Die(p)
  PROVE  Grow /\ arrived' = arrived /\ \A q \in Run \ {p} : Untouched(q)
<1>1. CASE Load(p)
  <2>1. \A q \in Run \ {p} : run'[q] = run[q]
    BY <1>1, GotoType DEF Load, GiveUp, AfterLoad, AfterDumps, Stage
  <2>2. \A q \in Run \ {p} : atStart'[q] = atStart[q]
    BY <1>1 DEF Load, TypeOK
  <2> QED
    BY <1>1, <2>1, <2>2 DEF Load, Grow, Untouched, dstVars, fileVars, Backed
<1>2. CASE Dump(p)
  <2>1. PICK t \in run[p].todo :
          /\ \E content \in SUBSET RowsOf(t) : Write(t, content)
          /\ \/ /\ dumped' = [dumped EXCEPT ![p] = @ \cup {FileName(t)} \X RowsOf(t)]
                /\ Done(p, t, AfterDumps)
             \/ AfterBadDump(p, t) /\ UNCHANGED dumped
    BY <1>2 DEF Dump, WritePart
  <2>2. \A q \in Run \ {p} : run'[q] = run[q]
    BY <2>1, DoneType, GotoType DEF AfterBadDump, GiveUp, AfterDumps, Stage
  <2>3. \A q \in Run : dumped[q] \subseteq dumped'[q]
    BY <2>1 DEF TypeOK
  <2>4. \A q \in Run, r \in Row : Backed(q, r) => Backed(q, r)'
    BY <2>1, <2>3, WriteKeeps
  <2> QED
    BY <1>2, <2>2, <2>4 DEF Dump, Grow, Untouched, dstVars
<1>3. CASE Ensure(p)
  <2>1. PICK t \in run[p].todo : Done(p, t, "archive") \/ GiveUp(p)
    BY <1>3 DEF Ensure
  <2>2. \A q \in Run \ {p} : run'[q] = run[q]
    BY <2>1, DoneType, GotoType DEF GiveUp, Stage
  <2>3. exist \subseteq exist'
    BY <1>3, EnsureStepType
  <2> QED
    BY <1>3, <2>2, <2>3 DEF Ensure, Grow, Untouched, noteVars, fileVars, Backed
<1>4. CASE Archive(p)
  <2>1. PICK t \in run[p].todo : \E c \in SUBSET RowsOf(t) : \E d \in SUBSET c :
          Moved(p, t, c, d) /\ (Done(p, t, "log") \/ GiveUp(p))
    BY <1>4, ArchiveMoves
  <2>2. \A q \in Run \ {p} : run'[q] = run[q]
    BY <2>1, DoneType, GotoType DEF GiveUp, Stage
  <2>3. \A q \in Run \ {p} : purged'[q] = purged[q]
    BY <2>1 DEF Moved, Move, TypeOK
  <2> QED
    BY <1>4, <2>2, <2>3, ArchiveStepType DEF Archive, Grow, Untouched, fileVars, Backed
<1>5. CASE Log(p)
  <2>1. \A q \in Run \ {p} : run'[q] = run[q] /\ log'[q] = log[q]
    BY <1>5 DEF Log, TypeOK
  <2> QED
    BY <1>5, <2>1 DEF Log, Grow, Untouched, dstVars, noteVars, fileVars, Backed
<1>6. CASE Die(p)
  <2>1. \A q \in Run \ {p} : run'[q] = run[q]
    BY <1>6 DEF Die, TypeOK
  <2>2. dumped' = dumped
    BY <1>6 DEF Die, noteVars
  <2>3. \A q \in Run, r \in Row : Backed(q, r) => Backed(q, r)'
    <3>1. CASE UNCHANGED fileVars
      BY <2>2, <3>1 DEF fileVars, Backed
    <3>2. CASE \E t \in run[p].todo : WritePart(t)
      BY <2>2, <3>2, WriteKeeps DEF WritePart
    <3> QED
      BY <1>6, <3>1, <3>2 DEF Die
  <2> QED
    BY <1>6, <2>1, <2>3 DEF Die, Grow, Untouched, dstVars, noteVars
<1> QED
  BY <1>1, <1>2, <1>3, <1>4, <1>5, <1>6 DEF RunStep

LEMMA OtherGrow ==
  ASSUME TypeOK,
         (\E r \in Row : Arrive(r)) \/ DeleteTask \/ Tick \/ UNCHANGED vars
  PROVE  Grow /\ (arrived \ src)' \subseteq arrived \ src /\ \A q \in Run : Untouched(q)
<1>1. CASE \E r \in Row : Arrive(r)
  BY <1>1 DEF Arrive, Grow, Untouched, dstVars, noteVars, fileVars, Backed
<1>2. CASE DeleteTask \/ Tick \/ UNCHANGED vars
  BY <1>2 DEF DeleteTask, Tick, vars, Grow, Untouched, dstVars, noteVars, fileVars, Backed
<1> QED
  BY <1>1, <1>2

\* What is kept of a run survives the steps of everybody else.
LEMMA Frame ==
  ASSUME NEW q \in Run, TypeOK, Own(q), Grow, Untouched(q)
  PROVE  Own(q)'
<1>0. atStart[q] \subseteq Row
  BY DEF TypeOK
<1>1. \A r \in arrived : Whole(r) => Whole(r)'
  BY DEF Grow, Whole, Copied
<1>2. DumpInv(q)'
  BY <1>0 DEF Own, DumpInv, Grow, Untouched
<1>3. MoveInv(q)'
  BY <1>1 DEF Own, MoveInv, Grow, Untouched
<1> QED
  BY <1>0, <1>2, <1>3 DEF Own, Grow, Untouched

-----------------------------------------------------------------------------
(* A run's own steps *)

\* A run that gives up or ends claims nothing but what its dumps saw.
LEMMA Stopped ==
  ASSUME NEW p \in Run, Own(p), Grow,
         run'[p].pc \in {"log", "exit"}, ~ run'[p].ok,
         log'[p] = log[p], atStart'[p] \subseteq arrived',
         task.backup => \A r \in purged'[p] \cap atStart'[p] : Backed(p, r)',
         log[p] = "success" => atStart'[p] = atStart[p]
  PROVE  Own(p)'
<1>1. \A r \in arrived : Whole(r) => Whole(r)'
  BY DEF Grow, Whole, Copied
<1>2. MoveInv(p)'
  BY <1>1 DEF Own, MoveInv
<1>3. DumpInv(p)'
  BY DEF DumpInv
<1> QED
  BY <1>2, <1>3 DEF Own, Grow

LEMMA LoadOwn ==
  ASSUME TypeOK, NEW p \in Run, Own(p), Load(p), Grow
  PROVE  Own(p)'
<1>1. purged[p] = {} /\ log[p] = "none" /\ run[p].pc = "idle"
  BY DEF Own, DumpInv, Load
<1>2. atStart'[p] = src /\ purged'[p] = {} /\ log'[p] = "none" /\ src' = src
  BY <1>1 DEF Load, TypeOK
<1>3. src \subseteq arrived'
  BY DEF TypeOK, Grow
<1>4. CASE present
  <2>1. run'[p] = [pc |-> AfterLoad, todo |-> Table, ok |-> FALSE]
    BY <1>4, GotoType DEF Load, AfterLoad, AfterDumps, Stage
  <2>2. \A r \in src : TableOf[r] \in Table
    BY RunAssumption DEF TypeOK
  <2>3. DumpInv(p)'
    BY <1>2, <2>1, <2>2 DEF DumpInv, AfterLoad, AfterDumps, Load
  <2>4. MoveInv(p)'
    BY <1>2, <2>1, <2>2 DEF MoveInv, AfterLoad, AfterDumps
  <2> QED
    BY <1>2, <1>3, <2>3, <2>4 DEF Own
<1>5. CASE ~ present
  <2>1. run'[p] = [pc |-> "log", todo |-> Table, ok |-> FALSE]
    BY <1>5, GotoType DEF Load, GiveUp, Stage
  <2> QED
    BY <1>1, <1>2, <1>3, <2>1, Stopped
<1> QED
  BY <1>4, <1>5

LEMMA DumpOwn ==
  ASSUME TypeOK, NEW p \in Run, Own(p), Dump(p), Grow
  PROVE  Own(p)'
<1>1. PICK t \in run[p].todo :
        \/ /\ Write(t, RowsOf(t))
           /\ dumped' = [dumped EXCEPT ![p] = @ \cup {FileName(t)} \X RowsOf(t)]
           /\ Done(p, t, AfterDumps)
        \/ AfterBadDump(p, t) /\ UNCHANGED dumped
  BY DEF Dump
<1>2. /\ UNCHANGED <<task, src, exist, copied, log, arrived, atStart, purged>>
      /\ run[p].pc = "dump"
  BY DEF Dump, dstVars
<1>3. ~ run[p].ok
  BY <1>2 DEF Own, MoveInv
<1>6. \A r \in atStart[p] : Backed(p, r) => Backed(p, r)'
  BY DEF Grow, TypeOK
<1>7. task.backup => \A r \in purged'[p] \cap atStart'[p] : Backed(p, r)'
  BY <1>2, <1>6 DEF Own
<1>4. CASE /\ Write(t, RowsOf(t))
           /\ dumped' = [dumped EXCEPT ![p] = @ \cup {FileName(t)} \X RowsOf(t)]
           /\ Done(p, t, AfterDumps)
  <2>1. \A r \in RowsOf(t) : Backed(p, r)'
    <3>1. t \in Table /\ FileName(t) \in Name
      BY DstNameType DEF TypeOK
    <3>2. \A r \in RowsOf(t) : <<FileName(t), r>> \in dumped'[p]
      BY <1>4 DEF TypeOK
    <3>3. file'[FileName(t)] = RowsOf(t)
      BY <1>4, <3>1 DEF Write, TypeOK
    <3> QED
      BY <3>1, <3>2, <3>3 DEF Backed
  <2>2. \/ /\ run[p].todo = {t}
           /\ run'[p] = [pc |-> AfterDumps, todo |-> Table, ok |-> FALSE]
        \/ run'[p] = [pc |-> "dump", todo |-> run[p].todo \ {t}, ok |-> FALSE]
    BY <1>2, <1>3, <1>4, DoneType DEF AfterDumps, Stage, TypeOK
  <2>3. \A r \in atStart[p] \cap src : TableOf[r] \in Table
    BY RunAssumption DEF TypeOK
  <2>4. DumpInv(p)'
    BY <1>2, <1>6, <2>1, <2>2 DEF Own, DumpInv, AfterDumps, RowsOf
  <2>5. \A r \in arrived : Whole(r)' <=> Whole(r)
    BY <1>2 DEF Whole, Copied
  <2>6. \A r \in atStart[p] : TableOf[r] \in Table
    BY RunAssumption DEF TypeOK
  <2>7. MoveInv(p)'
    BY <1>2, <2>2, <2>5, <2>6 DEF Own, MoveInv, AfterDumps
  <2> QED
    BY <1>2, <1>7, <2>4, <2>7 DEF Own
<1>5. CASE AfterBadDump(p, t) /\ UNCHANGED dumped
  <2>1. run'[p] = [pc |-> "log", todo |-> Table, ok |-> FALSE]
    BY <1>5, GotoType DEF AfterBadDump, GiveUp, Stage
  <2> QED
    BY <1>2, <1>5, <1>7, <2>1, Stopped DEF Own
<1> QED
  BY <1>1, <1>4, <1>5

LEMMA EnsureOwn ==
  ASSUME TypeOK, NEW p \in Run, Own(p), Ensure(p), Grow
  PROVE  Own(p)'
<1>1. PICK t \in run[p].todo : Done(p, t, "archive") \/ GiveUp(p)
  BY DEF Ensure
<1>2. /\ UNCHANGED <<task, src, copied, log, arrived, atStart, purged>>
      /\ run[p].pc = "ensure" /\ ~ run[p].ok
  BY DEF Ensure, noteVars, Own, MoveInv
<1>5. \A r \in atStart[p] : Backed(p, r) => Backed(p, r)'
  BY DEF Grow, TypeOK
<1>6. task.backup => \A r \in purged'[p] \cap atStart'[p] : Backed(p, r)'
  BY <1>2, <1>5 DEF Own
<1>3. CASE Done(p, t, "archive")
  <2>1. \/ run'[p] = [pc |-> "archive", todo |-> Table, ok |-> FALSE]
        \/ run'[p] = [pc |-> "ensure", todo |-> run[p].todo \ {t}, ok |-> FALSE]
    BY <1>2, <1>3, DoneType DEF Stage, TypeOK
  <2>2. DumpInv(p)'
    BY <1>2, <1>5, <2>1 DEF Own, DumpInv
  <2>3. \A r \in arrived : Whole(r) => Whole(r)'
    BY DEF Grow, Whole, Copied
  <2>4. \A r \in atStart[p] : TableOf[r] \in Table
    BY RunAssumption DEF TypeOK
  <2>5. MoveInv(p)'
    BY <1>2, <2>1, <2>3, <2>4 DEF Own, MoveInv
  <2> QED
    BY <1>2, <1>6, <2>2, <2>5 DEF Own
<1>4. CASE GiveUp(p)
  <2>1. run'[p] = [pc |-> "log", todo |-> Table, ok |-> FALSE]
    BY <1>4, GotoType DEF GiveUp, Stage
  <2> QED
    BY <1>2, <1>6, <2>1, Stopped DEF Own
<1> QED
  BY <1>1, <1>3, <1>4

LEMMA ArchiveOwn ==
  ASSUME TypeOK, NothingLost, NEW p \in Run, Own(p), Archive(p), Grow
  PROVE  Own(p)'
<1>1. PICK t \in run[p].todo : \E c \in SUBSET RowsOf(t) : \E d \in SUBSET c :
        /\ Moved(p, t, c, d)
        /\ \/ /\ c = RowsOf(t) /\ (task.purge => d = c)
              /\ Done(p, t, "log")
           \/ GiveUp(p)
  BY ArchiveMoves
<1>2. PICK c \in SUBSET RowsOf(t) : \E d \in SUBSET c :
        /\ Moved(p, t, c, d)
        /\ \/ /\ c = RowsOf(t) /\ (task.purge => d = c)
              /\ Done(p, t, "log")
           \/ GiveUp(p)
  BY <1>1
<1>3. PICK d \in SUBSET c :
        /\ Moved(p, t, c, d)
        /\ \/ /\ c = RowsOf(t) /\ (task.purge => d = c)
              /\ Done(p, t, "log")
           \/ GiveUp(p)
  BY <1>2
<1>4. /\ UNCHANGED <<task, exist, log, arrived, atStart>>
      /\ run[p].pc = "archive" /\ ~ run[p].ok
  BY DEF Archive, Own, MoveInv
<1>5. purged'[p] = purged[p] \cup d /\ d \subseteq src
  BY <1>3, RowsType DEF Moved, Move, TypeOK
<1>10. \A r \in atStart[p] : Backed(p, r) => Backed(p, r)'
  BY DEF Grow, TypeOK
<1>6. task.backup => \A r \in purged'[p] \cap atStart'[p] : Backed(p, r)'
  BY <1>4, <1>5, <1>10 DEF Own, DumpInv
<1>7. \A r \in arrived : Whole(r) => Whole(r)'
  BY DEF Grow, Whole, Copied
<1>8. CASE c = RowsOf(t) /\ (task.purge => d = c) /\ Done(p, t, "log")
  <2>1. \/ run[p].todo = {t} /\ run'[p] = [pc |-> "log", todo |-> Table, ok |-> TRUE]
        \/ run'[p] = [pc |-> "archive", todo |-> run[p].todo \ {t}, ok |-> FALSE]
    BY <1>4, <1>8, DoneType DEF Stage, TypeOK
  <2>2. ASSUME NEW r \in atStart[p], TableOf[r] = t
        PROVE  Whole(r)'
    <3>1. CASE r \in src
      <4>1. r \in c
        BY <1>8, <2>2, <3>1 DEF RowsOf
      <4>2. DstName(t) \in exist' /\ <<DstName(t), r>> \in copied'
        BY <1>3, <1>4, <4>1 DEF Moved, Move
      <4>3. task.purge => r \notin src'
        BY <1>3, <1>8, <4>1 DEF Moved, Move
      <4> QED
        BY <1>4, <4>2, <4>3 DEF Whole, Copied
    <3>2. CASE r \notin src
      <4>1. r \in arrived \ src
        BY <3>2 DEF Own
      <4>2. Whole(r)
        BY <4>1 DEF NothingLost, Whole, Copied
      <4> QED
        BY <1>7, <4>1, <4>2
    <3> QED
      BY <3>1, <3>2
  <2>3. \A r \in atStart[p] : TableOf[r] \notin run[p].todo \ {t} => Whole(r)'
    BY <1>4, <1>7, <2>2 DEF Own, MoveInv
  <2>4. MoveInv(p)'
    BY <1>4, <1>7, <2>1, <2>3 DEF Own, MoveInv
  <2>5. src' \subseteq src
    BY ArchiveStepType
  <2>6. DumpInv(p)'
    BY <1>4, <1>10, <2>1, <2>5 DEF Own, DumpInv
  <2> QED
    BY <1>4, <1>6, <2>4, <2>6 DEF Own
<1>9. CASE GiveUp(p)
  <2>1. run'[p] = [pc |-> "log", todo |-> Table, ok |-> FALSE]
    BY <1>9, GotoType DEF GiveUp, Stage
  <2> QED
    BY <1>4, <1>6, <2>1, Stopped DEF Own
<1> QED
  BY <1>3, <1>8, <1>9

LEMMA LogOwn ==
  ASSUME TypeOK, NEW p \in Run, Own(p), Log(p), Grow
  PROVE  Own(p)'
<1>1. /\ run'[p].pc = "exit" /\ run'[p].ok = run[p].ok
      /\ UNCHANGED <<task, src, exist, copied, arrived, atStart, dumped, purged>>
  BY DEF Log, TypeOK, dstVars, noteVars
<1>2. log'[p] = "success" => run[p].ok \/ log[p] = "success"
  BY DEF Log, TypeOK
<1>3. \A r \in arrived : Whole(r)' <=> Whole(r)
  BY <1>1 DEF Whole, Copied
<1>4. DumpInv(p)'
  BY <1>1 DEF DumpInv
<1>5. MoveInv(p)'
  BY <1>1, <1>2, <1>3 DEF Own, MoveInv
<1>6. \A r \in atStart[p] : Backed(p, r) => Backed(p, r)'
  BY DEF Grow, TypeOK
<1> QED
  BY <1>1, <1>4, <1>5, <1>6 DEF Own

LEMMA DieOwn ==
  ASSUME TypeOK, NEW p \in Run, Own(p), Die(p), Grow
  PROVE  Own(p)'
<1>1. /\ run'[p].pc = "exit" /\ run'[p].ok = run[p].ok
      /\ UNCHANGED <<task, src, exist, copied, log, arrived, atStart, purged>>
  BY DEF Die, TypeOK, dstVars, noteVars
<1>2. \A r \in arrived : Whole(r)' <=> Whole(r)
  BY <1>1 DEF Whole, Copied
<1>3. DumpInv(p)' /\ MoveInv(p)'
  BY <1>1, <1>2 DEF Own, DumpInv, MoveInv
<1>4. \A r \in atStart[p] : Backed(p, r) => Backed(p, r)'
  BY DEF Grow, TypeOK
<1> QED
  BY <1>1, <1>3, <1>4 DEF Own

LEMMA OwnStep ==
  ASSUME Inv, [Next]_vars
  PROVE  \A q \in Run : Own(q)'
<1> USE DEF Inv
<1>1. CASE \E p \in Run : RunStep(p) \/ Die(p)
  <2>1. PICK p \in Run : RunStep(p) \/ Die(p)
    BY <1>1
  <2>2. Grow /\ \A q \in Run \ {p} : Untouched(q)
    BY <2>1, RunGrow
  <2>3. Own(p)'
    BY <2>1, <2>2, LoadOwn, DumpOwn, EnsureOwn, ArchiveOwn, LogOwn, DieOwn DEF RunStep
  <2>4. \A q \in Run \ {p} : Own(q)'
    BY <2>2, Frame
  <2> QED
    BY <2>3, <2>4
<1>2. CASE (\E r \in Row : Arrive(r)) \/ DeleteTask \/ Tick \/ UNCHANGED vars
  BY <1>2, OtherGrow, Frame
<1> QED
  BY <1>1, <1>2 DEF Next

\* Only pt-archiver deletes rows of the source, and only rows it inserted.
LEMMA LostStep ==
  ASSUME TypeOK, NothingLost, [Next]_vars
  PROVE  NothingLost'
<1>1. ASSUME NEW p \in Run, Archive(p)
      PROVE  NothingLost'
  <2>1. PICK t \in run[p].todo : \E c \in SUBSET RowsOf(t) : \E d \in SUBSET c :
          Moved(p, t, c, d)
    BY <1>1, ArchiveMoves
  <2>2. PICK c \in SUBSET RowsOf(t) : \E d \in SUBSET c : Moved(p, t, c, d)
    BY <2>1
  <2>3. PICK d \in SUBSET c : Moved(p, t, c, d)
    BY <2>2
  <2>4. UNCHANGED <<exist, arrived>>
    BY <1>1 DEF Archive
  <2>5. ASSUME NEW r \in (arrived \ src)'
        PROVE  \E n \in exist' : <<n, r>> \in copied'
    <3>1. CASE r \in d
      <4>1. DstName(t) \in exist' /\ <<DstName(t), r>> \in copied'
        BY <2>3, <2>4, <3>1 DEF Moved, Move
      <4> QED
        BY <4>1
    <3>2. CASE r \notin d
      BY <2>3, <2>4, <3>2 DEF Moved, Move, NothingLost
    <3> QED
      BY <3>1, <3>2
  <2> QED
    BY <2>5 DEF NothingLost
<1>2. ASSUME NEW p \in Run, Load(p) \/ Dump(p) \/ Ensure(p) \/ Log(p) \/ Die(p)
      PROVE  NothingLost'
  <2>1. src' = src
    BY <1>2 DEF Load, Dump, Ensure, Log, Die
  <2>2. Grow /\ arrived' = arrived
    BY <1>2, RunGrow DEF RunStep
  <2> QED
    BY <2>1, <2>2 DEF NothingLost, Grow
<1>3. CASE (\E r \in Row : Arrive(r)) \/ DeleteTask \/ Tick \/ UNCHANGED vars
  <2>1. Grow /\ (arrived \ src)' \subseteq arrived \ src
    BY <1>3, OtherGrow
  <2> QED
    BY <2>1 DEF NothingLost, Grow
<1> QED
  BY <1>1, <1>2, <1>3 DEF Next, RunStep

LEMMA InitInv ==
  Init => Inv
<1> SUFFICES ASSUME Init PROVE Inv
  OBVIOUS
<1>1. exist \subseteq Name
  BY StartName DEF Init
<1>2. TypeOK
  BY <1>1, RunAssumption DEF Init, TypeOK
<1>3. NothingLost
  BY DEF Init, NothingLost
<1>4. \A p \in Run : Own(p)
  BY DEF Init, Own, DumpInv, MoveInv
<1> QED
  BY <1>2, <1>3, <1>4 DEF Inv

\* The inductive invariant: types, and what the program point of each run says
\* about its dumps and its moves.
THEOREM InvCorrect == Spec => []Inv
<1>1. Inv /\ [Next]_vars => Inv'
  BY TypeStep, OwnStep, LostStep DEF Inv
<1> QED
  BY InitInv, <1>1, PTL DEF Spec

-----------------------------------------------------------------------------
(* The theorems *)

\* The task, the runs, the stores and the history keep their types.
THEOREM RunTypeSafe == Spec => []TypeOK
<1>1. Inv => TypeOK
  BY DEF Inv
<1> QED
  BY <1>1, InvCorrect, PTL

\* pt_archive loses no row, however many runs overlap, fail or die.
THEOREM NothingLostSafe == Spec => []NothingLost
<1>1. Inv => NothingLost
  BY DEF Inv
<1> QED
  BY <1>1, InvCorrect, PTL

\* safe_archive deletes no row of the start of the run that is not in a file of
\* mysql_dump, unless that file was created anew.
THEOREM PurgedSafe == Spec => []PurgedIsBackedUp
<1>1. Inv => PurgedIsBackedUp
  BY DEF Inv, Own, Backed, PurgedIsBackedUp
<1> QED
  BY <1>1, InvCorrect, PTL

\* archive_target logs success only of a run that moved every row it found.
THEOREM SuccessSafe == Spec => []SuccessIsWhole
<1>1. Inv => SuccessIsWhole
  BY DEF Inv, Own, MoveInv, Whole, Copied, SuccessIsWhole
<1> QED
  BY <1>1, InvCorrect, PTL
=============================================================================
