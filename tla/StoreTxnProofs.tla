--------------------------- MODULE StoreTxnProofs ---------------------------
(***************************************************************************)
(* Proofs about the store's write path, for any number of processes, lock  *)
(* files, cards and writes.                                                *)
(***************************************************************************)
EXTENDS StoreTxn, TLAPS

-----------------------------------------------------------------------------
(* Facts about the pieces.                                                 *)

LEMMA IdleType == Idle \in Procs
BY DEF Idle, Procs, Phases, EmptyDoc, Doc

LEMMA AppliedType ==
    ASSUME NEW o \in Ops, NEW d \in Doc, Applicable(o, d)
    PROVE  Applied(o, d) \in Doc
BY DEF Applied, Applicable, Ops, Doc, AllKinds

LEMMA RebuildType ==
    ASSUME TypeOK, NEW d \in Doc, Rebuild(d)
    PROVE  rows' \in Doc /\ hashes' \in Doc
BY DEF TypeOK, Rebuild, Doc, Present

LEMMA ReconcileType ==
    ASSUME TypeOK, NEW d \in Doc, NEW p \in Doc, NEW del, hashes # Unhashed,
           Reconcile(d, p, del)
    PROVE  rows' \in Doc /\ hashes' \in Doc
<1>1. rows \in Doc /\ hashes \in Doc
  BY DEF TypeOK
<1>2. QED
  BY <1>1 DEF Reconcile, Changed, Present, Doc

-----------------------------------------------------------------------------
(* Types.                                                                  *)

TypeInv == TypeOK /\ OpInv /\ PriorInv

LEMMA TypeInit == Init => TypeInv
<1> SUFFICES ASSUME Init PROVE TypeInv
  OBVIOUS
<1>1. TypeOK
  BY IdleType DEF Init, TypeOK, Doc
<1>2. OpInv /\ PriorInv
  BY DEF Init, OpInv, PriorInv, Idle
<1>3. QED
  BY <1>1, <1>2 DEF TypeInv

\* What every action does to the processes: one of them changes.
LEMMA BecomesType ==
    ASSUME TypeOK, NEW c \in Clients, NEW p \in Procs, Becomes(c, p)
    PROVE  /\ proc' \in [Clients -> Procs]
           /\ proc'[c] = p
           /\ \A d \in Clients \ {c} : proc'[d] = proc[d]
BY DEF TypeOK, Becomes

LEMMA HolderType ==
    ASSUME TypeOK, NEW c \in Clients,
           Acquire(c) \/ Release(c) \/ UNCHANGED holder
    PROVE  holder' \in [LockFiles -> {Nobody} \cup Clients]
BY LockAssumption DEF TypeOK, Acquire, Release

\* The change of one process keeps the other processes' part of TypeInv.
LEMMA TypeFrame ==
    ASSUME TypeInv, NEW c \in Clients, NEW p \in Procs, Becomes(c, p),
           p.at # "idle" => p.op \in Ops /\ p.op.kind \in Kinds,
           p.prior # Unhashed => hashes' # Unhashed,
           hashes # Unhashed => hashes' # Unhashed
    PROVE  proc' \in [Clients -> Procs] /\ OpInv' /\ PriorInv'
BY BecomesType DEF TypeInv, OpInv, PriorInv

LEMMA TypeStep == TypeInv /\ [Next]_vars => TypeInv'
<1> SUFFICES ASSUME TypeInv, [Next]_vars PROVE TypeInv'
  OBVIOUS
<1> USE DEF TypeInv
<1>1. ASSUME NEW c \in Clients, StoreLock(c) PROVE TypeInv'
  <2>1. PICK o \in Ops : /\ Begins(c, "verb", o)
                        /\ Acquire(c)
                        /\ Becomes(c, [Idle EXCEPT !.at = "locked", !.op = o])
                        /\ DbUnchanged
    BY <1>1 DEF StoreLock
  <2> DEFINE p == [Idle EXCEPT !.at = "locked", !.op = o]
  <2>2. p \in Procs /\ p.op = o /\ p.prior = Unhashed
    BY IdleType DEF Procs, Idle, Phases
  <2>3. o.kind \in Kinds /\ fresh' \subseteq Marks /\ hashes' = hashes
    BY <2>1 DEF Begins, DbUnchanged, TypeOK
  <2> HIDE DEF p
  <2>4. proc' \in [Clients -> Procs] /\ OpInv' /\ PriorInv'
    BY <2>1, <2>2, <2>3, TypeFrame DEF p
  <2>5. holder' \in [LockFiles -> {Nobody} \cup Clients]
    BY <2>1, HolderType
  <2>6. QED
    BY <2>1, <2>3, <2>4, <2>5 DEF TypeOK, DbUnchanged
<1>2. ASSUME NEW c \in Clients, StoreGeneration(c) PROVE TypeInv'
  <2>1. PICK o \in Ops :
             /\ Begins(c, "guarded", o)
             /\ Becomes(c, [Idle EXCEPT !.at = "tokened", !.op = o, !.gen = rows])
             /\ DbUnchanged /\ UNCHANGED holder
    BY <1>2 DEF StoreGeneration
  <2> DEFINE p == [Idle EXCEPT !.at = "tokened", !.op = o, !.gen = rows]
  <2>2. p \in Procs /\ p.op = o /\ p.prior = Unhashed
    BY IdleType DEF Procs, Idle, Phases, TypeOK
  <2>3. o.kind \in Kinds /\ fresh' \subseteq Marks /\ hashes' = hashes
    BY <2>1 DEF Begins, DbUnchanged, TypeOK
  <2> HIDE DEF p
  <2>4. proc' \in [Clients -> Procs] /\ OpInv' /\ PriorInv'
    BY <2>1, <2>2, <2>3, TypeFrame DEF p
  <2>5. QED
    BY <2>1, <2>3, <2>4 DEF TypeOK, DbUnchanged
<1>3. ASSUME NEW c \in Clients, LoadRaw(c) PROVE TypeInv'
  <2>1. PICK o \in Ops :
             /\ Begins(c, "raw", o)
             /\ Becomes(c, [Idle EXCEPT !.at = "loaded", !.op = o, !.doc = rows])
             /\ DbUnchanged /\ UNCHANGED holder
    BY <1>3 DEF LoadRaw
  <2> DEFINE p == [Idle EXCEPT !.at = "loaded", !.op = o, !.doc = rows]
  <2>2. p \in Procs /\ p.op = o /\ p.prior = Unhashed
    BY IdleType DEF Procs, Idle, Phases, TypeOK
  <2>3. o.kind \in Kinds /\ fresh' \subseteq Marks /\ hashes' = hashes
    BY <2>1 DEF Begins, DbUnchanged, TypeOK
  <2> HIDE DEF p
  <2>4. proc' \in [Clients -> Procs] /\ OpInv' /\ PriorInv'
    BY <2>1, <2>2, <2>3, TypeFrame DEF p
  <2>5. QED
    BY <2>1, <2>3, <2>4 DEF TypeOK, DbUnchanged
<1>4. ASSUME NEW c \in Clients, ReadDoc(c) PROVE TypeInv'
  <2> DEFINE p == [proc[c] EXCEPT !.at = "read", !.doc = rows]
  <2>1. Becomes(c, p) /\ DbUnchanged /\ UNCHANGED <<holder, fresh>>
    BY <1>4 DEF ReadDoc
  <2>2. p \in Procs /\ p.op = proc[c].op /\ p.prior = proc[c].prior
    BY DEF Procs, Phases, TypeOK
  <2>3. p.op \in Ops /\ p.op.kind \in Kinds
    BY <1>4, <2>2 DEF ReadDoc, OpInv
  <2> HIDE DEF p
  <2>4. proc' \in [Clients -> Procs] /\ OpInv' /\ PriorInv'
    BY <2>1, <2>2, <2>3, TypeFrame DEF DbUnchanged, PriorInv
  <2>5. QED
    BY <2>1, <2>4 DEF TypeOK, DbUnchanged
<1>5. ASSUME NEW c \in Clients, LoadGuarded(c) PROVE TypeInv'
  <2> DEFINE p == [proc[c] EXCEPT !.at = "loaded", !.doc = rows]
  <2>1. Becomes(c, p) /\ DbUnchanged /\ UNCHANGED <<holder, fresh>>
    BY <1>5 DEF LoadGuarded
  <2>2. p \in Procs /\ p.op = proc[c].op /\ p.prior = proc[c].prior
    BY DEF Procs, Phases, TypeOK
  <2>3. p.op \in Ops /\ p.op.kind \in Kinds
    BY <1>5, <2>2 DEF LoadGuarded, OpInv
  <2> HIDE DEF p
  <2>4. proc' \in [Clients -> Procs] /\ OpInv' /\ PriorInv'
    BY <2>1, <2>2, <2>3, TypeFrame DEF DbUnchanged, PriorInv
  <2>5. QED
    BY <2>1, <2>4 DEF TypeOK, DbUnchanged
<1>6. ASSUME NEW c \in Clients, SaveTasks(c) PROVE TypeInv'
  <2>1. PICK p \in {Idle, [proc[c] EXCEPT !.at = "read"]} : Becomes(c, p)
    BY <1>6 DEF SaveTasks
  <2>2. DbUnchanged /\ UNCHANGED fresh /\ (Acquire(c) \/ UNCHANGED holder)
    BY <1>6 DEF SaveTasks
  <2>3. p \in Procs /\ (p.prior = Unhashed \/ p.prior = proc[c].prior)
    BY IdleType DEF Procs, Phases, TypeOK, Idle
  <2>4. p.at # "idle" => p.op \in Ops /\ p.op.kind \in Kinds
    BY <1>6 DEF SaveTasks, OpInv, Idle, Procs, TypeOK
  <2>5. proc' \in [Clients -> Procs] /\ OpInv' /\ PriorInv'
    BY <2>1, <2>2, <2>3, <2>4, TypeFrame DEF DbUnchanged, PriorInv
  <2>6. holder' \in [LockFiles -> {Nobody} \cup Clients]
    BY <2>2, HolderType
  <2>7. QED
    BY <2>2, <2>5, <2>6 DEF TypeOK, DbUnchanged
<1>7. ASSUME NEW c \in Clients, SaveDoc(c) PROVE TypeInv'
  <2> DEFINE o == proc[c].op
             d == Applied(o, proc[c].doc)
             q == [proc[c] EXCEPT !.at = "guarded", !.doc = d]
  <2>1. proc[c] \in Procs /\ o \in Ops /\ o.kind \in Kinds /\ proc[c].doc \in Doc
    BY <1>7 DEF SaveDoc, OpInv, TypeOK, Procs
  <2>2. \/ Becomes(c, Idle) /\ Release(c)
        \/ Becomes(c, q) /\ UNCHANGED holder /\ Applicable(o, proc[c].doc)
    BY <1>7 DEF SaveDoc
  <2>3. DbUnchanged /\ UNCHANGED fresh
    BY <1>7 DEF SaveDoc
  <2>4. Applicable(o, proc[c].doc) => d \in Doc
    BY <2>1, AppliedType
  <2> HIDE DEF d, o
  <2>5. d \in Doc => q \in Procs /\ q.op = proc[c].op /\ q.prior = proc[c].prior
    BY <2>1 DEF Procs, Phases
  <2> HIDE DEF q
  <2>6. proc' \in [Clients -> Procs] /\ OpInv' /\ PriorInv'
    <3>1. CASE Becomes(c, Idle)
      BY <3>1, <2>3, IdleType, TypeFrame DEF DbUnchanged, Idle
    <3>2. CASE Becomes(c, q) /\ Applicable(o, proc[c].doc)
      BY <3>2, <2>1, <2>3, <2>4, <2>5, TypeFrame DEF DbUnchanged, PriorInv, o
    <3>3. QED
      BY <2>2, <3>1, <3>2
  <2>7. holder' \in [LockFiles -> {Nobody} \cup Clients]
    BY <2>2, HolderType
  <2>8. QED
    BY <2>3, <2>6, <2>7 DEF TypeOK, DbUnchanged
<1>8. ASSUME NEW c \in Clients, ExistingHashes(c) PROVE TypeInv'
  <2> DEFINE p == [proc[c] EXCEPT !.at = "diffed", !.prior = hashes]
  <2>1. Becomes(c, p) /\ DbUnchanged /\ UNCHANGED <<holder, fresh>>
    BY <1>8 DEF ExistingHashes
  <2>2. p \in Procs /\ p.op = proc[c].op /\ p.prior = hashes
    BY DEF Procs, Phases, TypeOK
  <2>3. p.op \in Ops /\ p.op.kind \in Kinds
    BY <1>8, <2>2 DEF ExistingHashes, OpInv
  <2> HIDE DEF p
  <2>4. proc' \in [Clients -> Procs] /\ OpInv' /\ PriorInv'
    BY <2>1, <2>2, <2>3, TypeFrame DEF DbUnchanged
  <2>5. QED
    BY <2>1, <2>4 DEF TypeOK, DbUnchanged
<1>9. ASSUME NEW c \in Clients, MirrorDoc(c) PROVE TypeInv'
  <2> DEFINE o == proc[c].op
             d == proc[c].doc
             p == proc[c].prior
  <2>1. proc[c] \in Procs /\ o \in Ops /\ d \in Doc /\ p \in {Unhashed} \cup Doc
    BY <1>9 DEF MirrorDoc, OpInv, TypeOK, Procs
  <2>2. /\ IF p = Unhashed THEN Rebuild(d) ELSE Reconcile(d, p, DeletedIds(o))
        /\ Becomes(c, Idle) /\ Release(c) /\ UNCHANGED fresh
    BY <1>9 DEF MirrorDoc
  <2>3. acked' \subseteq Ids \X Marks
    BY <1>9, <2>1 DEF MirrorDoc, TypeOK, Ops
  <2>4. p # Unhashed => hashes # Unhashed
    BY DEF PriorInv
  <2> HIDE DEF o, d, p
  <2>5. rows' \in Doc /\ hashes' \in Doc
    BY <2>1, <2>2, <2>4, RebuildType, ReconcileType
  <2>6. proc' \in [Clients -> Procs] /\ OpInv' /\ PriorInv'
    BY <2>2, <2>5, IdleType, TypeFrame, SentinelAssumption DEF Idle
  <2>7. holder' \in [LockFiles -> {Nobody} \cup Clients]
    BY <2>2, HolderType
  <2>8. QED
    BY <2>2, <2>3, <2>5, <2>6, <2>7 DEF TypeOK
<1>10. ASSUME NEW c \in Clients, Crash(c) PROVE TypeInv'
  <2>1. /\ Becomes(c, Idle) /\ DbUnchanged /\ UNCHANGED fresh
        /\ Release(c) \/ UNCHANGED holder
    BY <1>10 DEF Crash
  <2>2. proc' \in [Clients -> Procs] /\ OpInv' /\ PriorInv'
    BY <2>1, IdleType, TypeFrame DEF DbUnchanged, Idle
  <2>3. holder' \in [LockFiles -> {Nobody} \cup Clients]
    BY <2>1, HolderType
  <2>4. QED
    BY <2>1, <2>2, <2>3 DEF TypeOK, DbUnchanged
<1>11. CASE UNCHANGED vars
  BY <1>11 DEF vars, TypeOK, OpInv, PriorInv
<1>12. QED
  BY <1>1, <1>2, <1>3, <1>4, <1>5, <1>6, <1>7, <1>8, <1>9, <1>10, <1>11
  DEF Next, InLock

\* The variables keep their types, and a process past its first step has a
\* write to do: for any assignment of lock files and any mix of callers.
THEOREM TypeCorrect == Spec => []TypeOK
<1>1. Init => TypeInv
  BY TypeInit
<1>2. TypeInv /\ [Next]_vars => TypeInv'
  BY TypeStep
<1>3. TypeInv => TypeOK
  BY DEF TypeInv
<1>4. QED
  BY <1>1, <1>2, <1>3, PTL DEF Spec

-----------------------------------------------------------------------------
(* The lock.  Taking it, leaving it, and steps that do neither.            *)

LEMMA LockAcquire ==
    ASSUME TypeOK, LockInv, NEW c \in Clients, NEW p \in Procs,
           Becomes(c, p), Free(c), Acquire(c)
    PROVE  LockInv'
<1> SUFFICES ASSUME NEW d \in Clients, proc'[d].at \in Critical
             PROVE  holder'[LockOf[d]] = d
  BY DEF LockInv
<1>1. holder' = [holder EXCEPT ![LockOf[c]] = c] /\ holder[LockOf[c]] = Nobody
  BY DEF Acquire, Free
<1>2. LockOf[c] \in LockFiles /\ LockOf[d] \in LockFiles
  BY LockAssumption
<1>3. CASE d = c
  BY <1>1, <1>2, <1>3 DEF TypeOK
<1>4. CASE d # c
  <2>1. proc[d].at \in Critical
    BY <1>4, BecomesType
  <2>2. holder[LockOf[d]] = d
    BY <2>1 DEF LockInv
  <2>3. LockOf[d] # LockOf[c]
    BY <1>1, <2>2, SentinelAssumption
  <2>4. QED
    BY <1>1, <1>2, <2>2, <2>3 DEF TypeOK
<1>5. QED
  BY <1>3, <1>4

LEMMA LockRelease ==
    ASSUME TypeOK, LockInv, NEW c \in Clients, proc[c].at \in Critical,
           Becomes(c, Idle), Release(c)
    PROVE  LockInv'
<1> SUFFICES ASSUME NEW d \in Clients, proc'[d].at \in Critical
             PROVE  holder'[LockOf[d]] = d
  BY DEF LockInv
<1>1. holder' = [holder EXCEPT ![LockOf[c]] = Nobody] /\ holder[LockOf[c]] = c
  BY DEF Release, LockInv
<1>2. LockOf[c] \in LockFiles /\ LockOf[d] \in LockFiles
  BY LockAssumption
<1>3. d # c /\ proc[d].at \in Critical
  BY BecomesType, IdleType DEF Idle, Critical
<1>4. holder[LockOf[d]] = d
  BY <1>3 DEF LockInv
<1>5. QED
  BY <1>1, <1>2, <1>3, <1>4 DEF TypeOK

LEMMA LockKeep ==
    ASSUME TypeOK, LockInv, NEW c \in Clients, NEW p \in Procs,
           Becomes(c, p), UNCHANGED holder,
           p.at \in Critical => proc[c].at \in Critical
    PROVE  LockInv'
BY BecomesType DEF LockInv

LEMMA LockStep == TypeInv /\ LockInv /\ [Next]_vars => LockInv'
<1> SUFFICES ASSUME TypeInv, LockInv, [Next]_vars PROVE LockInv'
  OBVIOUS
<1> USE DEF TypeInv
<1>1. ASSUME NEW c \in Clients, StoreLock(c) PROVE LockInv'
  <2>1. PICK o \in Ops :
             /\ Free(c) /\ Acquire(c)
             /\ Becomes(c, [Idle EXCEPT !.at = "locked", !.op = o])
    BY <1>1 DEF StoreLock
  <2>2. [Idle EXCEPT !.at = "locked", !.op = o] \in Procs
    BY IdleType DEF Procs, Phases
  <2>3. QED
    BY <2>1, <2>2, LockAcquire
<1>2. ASSUME NEW c \in Clients, StoreGeneration(c) PROVE LockInv'
  <2>1. PICK o \in Ops :
             /\ UNCHANGED holder
             /\ Becomes(c, [Idle EXCEPT !.at = "tokened", !.op = o, !.gen = rows])
    BY <1>2 DEF StoreGeneration
  <2> DEFINE p == [Idle EXCEPT !.at = "tokened", !.op = o, !.gen = rows]
  <2>2. p \in Procs /\ p.at \notin Critical
    BY IdleType DEF Procs, Phases, TypeOK, Idle, Critical
  <2> HIDE DEF p
  <2>3. QED
    BY <2>1, <2>2, LockKeep DEF p
<1>3. ASSUME NEW c \in Clients, LoadRaw(c) PROVE LockInv'
  <2>1. PICK o \in Ops :
             /\ UNCHANGED holder
             /\ Becomes(c, [Idle EXCEPT !.at = "loaded", !.op = o, !.doc = rows])
    BY <1>3 DEF LoadRaw
  <2> DEFINE p == [Idle EXCEPT !.at = "loaded", !.op = o, !.doc = rows]
  <2>2. p \in Procs /\ p.at \notin Critical
    BY IdleType DEF Procs, Phases, TypeOK, Idle, Critical
  <2> HIDE DEF p
  <2>3. QED
    BY <2>1, <2>2, LockKeep DEF p
<1>4. ASSUME NEW c \in Clients, ReadDoc(c) PROVE LockInv'
  <2>1. [proc[c] EXCEPT !.at = "read", !.doc = rows] \in Procs
    BY DEF Procs, Phases, TypeOK
  <2>2. QED
    BY <1>4, <2>1, LockKeep DEF ReadDoc, Critical
<1>5. ASSUME NEW c \in Clients, LoadGuarded(c) PROVE LockInv'
  <2> DEFINE p == [proc[c] EXCEPT !.at = "loaded", !.doc = rows]
  <2>1. p \in Procs /\ p.at \notin Critical
    BY DEF Procs, Phases, TypeOK, Critical
  <2>2. Becomes(c, p) /\ UNCHANGED holder
    BY <1>5 DEF LoadGuarded
  <2> HIDE DEF p
  <2>3. QED
    BY <2>1, <2>2, LockKeep
<1>6. ASSUME NEW c \in Clients, SaveTasks(c) PROVE LockInv'
  <2>1. CASE Becomes(c, Idle) /\ UNCHANGED holder
    BY <2>1, IdleType, LockKeep DEF Idle, Critical
  <2>2. CASE Becomes(c, [proc[c] EXCEPT !.at = "read"]) /\ Acquire(c)
    <3>1. [proc[c] EXCEPT !.at = "read"] \in Procs
      BY DEF Procs, Phases, TypeOK
    <3>2. QED
      BY <1>6, <2>2, <3>1, LockAcquire DEF SaveTasks
  <2>3. QED
    BY <1>6, <2>1, <2>2 DEF SaveTasks
<1>7. ASSUME NEW c \in Clients, SaveDoc(c) PROVE LockInv'
  <2> DEFINE o == proc[c].op
             d == Applied(o, proc[c].doc)
             q == [proc[c] EXCEPT !.at = "guarded", !.doc = d]
  <2>1. proc[c] \in Procs /\ proc[c].at \in Critical /\ o \in Ops
    BY <1>7 DEF SaveDoc, TypeOK, Critical, OpInv
  <2>2. CASE Becomes(c, Idle) /\ Release(c)
    BY <2>1, <2>2, LockRelease
  <2>3. CASE Becomes(c, q) /\ UNCHANGED holder /\ Applicable(o, proc[c].doc)
    <3>1. d \in Doc
      BY <2>1, <2>3, AppliedType DEF Procs
    <3>2. q \in Procs
      <4> HIDE DEF d
      <4> QED BY <2>1, <3>1 DEF Procs, Phases
    <3> HIDE DEF q
    <3>3. QED
      BY <2>1, <2>3, <3>2, LockKeep
  <2>4. QED
    BY <1>7, <2>2, <2>3 DEF SaveDoc
<1>8. ASSUME NEW c \in Clients, ExistingHashes(c) PROVE LockInv'
  <2>1. [proc[c] EXCEPT !.at = "diffed", !.prior = hashes] \in Procs
    BY DEF Procs, Phases, TypeOK
  <2>2. QED
    BY <1>8, <2>1, LockKeep DEF ExistingHashes, Critical
<1>9. ASSUME NEW c \in Clients, MirrorDoc(c) PROVE LockInv'
  BY <1>9, LockRelease DEF MirrorDoc, Critical
<1>10. ASSUME NEW c \in Clients, Crash(c) PROVE LockInv'
  BY <1>10, IdleType, LockRelease, LockKeep DEF Crash, Idle, Critical
<1>11. CASE UNCHANGED vars
  BY <1>11 DEF vars, LockInv
<1>12. QED
  BY <1>1, <1>2, <1>3, <1>4, <1>5, <1>6, <1>7, <1>8, <1>9, <1>10, <1>11
  DEF Next, InLock

LEMMA LockInit == Init => LockInv
BY DEF Init, LockInv, Idle, Critical

\* _store_lock excludes: whoever is between its entry and its exit holds the
\* lock file of the store path it was given, crashes and refusals included,
\* however many processes and lock files there are.
THEOREM LockExcludes == Spec => []LockInv
<1>1. Init => TypeInv /\ LockInv
  BY TypeInit, LockInit
<1>2. TypeInv /\ LockInv /\ [Next]_vars => (TypeInv /\ LockInv)'
  BY TypeStep, LockStep
<1>3. QED
  BY <1>1, <1>2, PTL DEF Spec

\* With one lock file, two processes are never both inside.
LEMMA Alone ==
    ASSUME OneLockFile, LockInv, NEW c \in Clients, NEW d \in Clients,
           proc[c].at \in Critical, proc[d].at \in Critical
    PROVE  c = d
BY DEF OneLockFile, LockInv

-----------------------------------------------------------------------------
(* A written card never disappears.                                        *)

\* A step of c that leaves the table alone keeps the verdicts of the others.
LEMMA GuardFrame ==
    ASSUME TypeOK, GuardInv, UNCHANGED rows, NEW c \in Clients,
           NEW p \in Procs, Becomes(c, p),
           p.at \in {"guarded", "diffed"} =>
               ~ShrinkRefused(p.doc, DeletedIds(p.op))
    PROVE  GuardInv'
<1> SUFFICES ASSUME NEW d \in Clients, proc'[d].at \in {"guarded", "diffed"}
             PROVE  ~ShrinkRefused(proc[d].doc, DeletedIds(proc[d].op))'
  BY DEF GuardInv
<1>1. CASE d = c
  <2>1. proc'[d] = p
    BY <1>1, BecomesType
  <2>2. QED
    BY <2>1 DEF ShrinkRefused, CurrentStoredIds, Present, DeletedIds
<1>2. CASE d # c
  <2>1. proc'[d] = proc[d]
    BY <1>2, BecomesType
  <2>2. ~ShrinkRefused(proc[d].doc, DeletedIds(proc[d].op))
    BY <2>1 DEF GuardInv
  <2>3. QED
    BY <2>1, <2>2 DEF ShrinkRefused, CurrentStoredIds, Present, DeletedIds
<1>3. QED
  BY <1>1, <1>2

\* Every action but the commit leaves the table alone.
LEMMA RowsKept ==
    ASSUME Next, \A c \in Clients : ~MirrorDoc(c)
    PROVE  UNCHANGED <<rows, hashes, acked>>
BY DEF Next, InLock, StoreLock, StoreGeneration, LoadGuarded, LoadRaw,
       SaveTasks, ReadDoc, SaveDoc, ExistingHashes, Crash, DbUnchanged

LEMMA GuardStep ==
    ASSUME OneLockFile, TypeInv, LockInv, GuardInv, [Next]_vars
    PROVE  GuardInv'
<1> USE DEF TypeInv
<1>1. ASSUME NEW c \in Clients, StoreLock(c) PROVE GuardInv'
  <2>1. PICK o \in Ops : Becomes(c, [Idle EXCEPT !.at = "locked", !.op = o])
    BY <1>1 DEF StoreLock
  <2> DEFINE p == [Idle EXCEPT !.at = "locked", !.op = o]
  <2>2. p \in Procs /\ p.at = "locked"
    BY IdleType DEF Procs, Phases
  <2> HIDE DEF p
  <2>3. QED
    BY <1>1, <2>1, <2>2, GuardFrame DEF StoreLock, DbUnchanged, p
<1>2. ASSUME NEW c \in Clients, StoreGeneration(c) PROVE GuardInv'
  <2>1. PICK o \in Ops :
          Becomes(c, [Idle EXCEPT !.at = "tokened", !.op = o, !.gen = rows])
    BY <1>2 DEF StoreGeneration
  <2> DEFINE p == [Idle EXCEPT !.at = "tokened", !.op = o, !.gen = rows]
  <2>2. p \in Procs /\ p.at = "tokened"
    BY IdleType DEF Procs, Phases, TypeOK
  <2> HIDE DEF p
  <2>3. QED
    BY <1>2, <2>1, <2>2, GuardFrame DEF StoreGeneration, DbUnchanged, p
<1>3. ASSUME NEW c \in Clients, LoadRaw(c) PROVE GuardInv'
  <2>1. PICK o \in Ops :
          Becomes(c, [Idle EXCEPT !.at = "loaded", !.op = o, !.doc = rows])
    BY <1>3 DEF LoadRaw
  <2> DEFINE p == [Idle EXCEPT !.at = "loaded", !.op = o, !.doc = rows]
  <2>2. p \in Procs /\ p.at = "loaded"
    BY IdleType DEF Procs, Phases, TypeOK
  <2> HIDE DEF p
  <2>3. QED
    BY <1>3, <2>1, <2>2, GuardFrame DEF LoadRaw, DbUnchanged, p
<1>4. ASSUME NEW c \in Clients, ReadDoc(c) PROVE GuardInv'
  <2> DEFINE p == [proc[c] EXCEPT !.at = "read", !.doc = rows]
  <2>1. p \in Procs /\ p.at = "read"
    BY DEF Procs, Phases, TypeOK
  <2>2. Becomes(c, p) /\ UNCHANGED rows
    BY <1>4 DEF ReadDoc, DbUnchanged
  <2> HIDE DEF p
  <2>3. QED
    BY <2>1, <2>2, GuardFrame
<1>5. ASSUME NEW c \in Clients, LoadGuarded(c) PROVE GuardInv'
  <2> DEFINE p == [proc[c] EXCEPT !.at = "loaded", !.doc = rows]
  <2>1. p \in Procs /\ p.at = "loaded"
    BY DEF Procs, Phases, TypeOK
  <2>2. Becomes(c, p) /\ UNCHANGED rows
    BY <1>5 DEF LoadGuarded, DbUnchanged
  <2> HIDE DEF p
  <2>3. QED
    BY <2>1, <2>2, GuardFrame
<1>6. ASSUME NEW c \in Clients, SaveTasks(c) PROVE GuardInv'
  <2>1. PICK p \in {Idle, [proc[c] EXCEPT !.at = "read"]} : Becomes(c, p)
    BY <1>6 DEF SaveTasks
  <2>2. p \in Procs /\ p.at \in {"idle", "read"}
    BY IdleType DEF Procs, Phases, TypeOK, Idle
  <2>3. UNCHANGED rows
    BY <1>6 DEF SaveTasks, DbUnchanged
  <2>4. QED
    BY <2>1, <2>2, <2>3, GuardFrame
<1>7. ASSUME NEW c \in Clients, SaveDoc(c) PROVE GuardInv'
  <2> DEFINE o == proc[c].op
             d == Applied(o, proc[c].doc)
             q == [proc[c] EXCEPT !.at = "guarded", !.doc = d]
  <2>1. proc[c] \in Procs /\ o \in Ops /\ UNCHANGED rows
    BY <1>7 DEF SaveDoc, TypeOK, OpInv, DbUnchanged
  <2>2. CASE Becomes(c, Idle)
    BY <2>1, <2>2, IdleType, GuardFrame DEF Idle
  <2>3. CASE /\ Becomes(c, q) /\ Applicable(o, proc[c].doc)
             /\ ~ShrinkRefused(d, DeletedIds(o))
    <3>1. d \in Doc
      BY <2>1, <2>3, AppliedType DEF Procs
    <3>2. q \in Procs /\ q.doc = d /\ q.op = o
      <4> HIDE DEF d
      <4> QED BY <2>1, <3>1 DEF Procs, Phases
    <3> HIDE DEF q, d, o
    <3>3. QED
      BY <2>1, <2>3, <3>2, GuardFrame
  <2>4. QED
    BY <1>7, <2>2, <2>3 DEF SaveDoc
<1>8. ASSUME NEW c \in Clients, ExistingHashes(c) PROVE GuardInv'
  <2> DEFINE p == [proc[c] EXCEPT !.at = "diffed", !.prior = hashes]
  <2>1. p \in Procs /\ p.doc = proc[c].doc /\ p.op = proc[c].op
    BY DEF Procs, Phases, TypeOK
  <2>2. Becomes(c, p) /\ UNCHANGED rows /\ proc[c].at = "guarded"
    BY <1>8 DEF ExistingHashes, DbUnchanged
  <2> HIDE DEF p
  <2>3. QED
    BY <2>1, <2>2, GuardFrame DEF GuardInv
<1>9. ASSUME NEW c \in Clients, MirrorDoc(c) PROVE GuardInv'
  <2>1. ASSUME NEW d \in Clients PROVE proc'[d].at \notin {"guarded", "diffed"}
    <3>1. CASE d = c
      BY <1>9, <3>1, IdleType, BecomesType DEF MirrorDoc, Idle
    <3>2. CASE d # c
      BY <1>9, <3>2, IdleType, BecomesType, Alone DEF MirrorDoc, Critical
    <3>3. QED
      BY <3>1, <3>2
  <2>2. QED
    BY <2>1 DEF GuardInv
<1>10. ASSUME NEW c \in Clients, Crash(c) PROVE GuardInv'
  BY <1>10, IdleType, GuardFrame DEF Crash, DbUnchanged, Idle
<1>11. CASE UNCHANGED vars
  BY <1>11 DEF vars, GuardInv, ShrinkRefused, CurrentStoredIds, Present,
               DeletedIds
<1>12. QED
  BY <1>1, <1>2, <1>3, <1>4, <1>5, <1>6, <1>7, <1>8, <1>9, <1>10, <1>11
  DEF Next, InLock

LEMMA GuardInit == Init => GuardInv
BY DEF Init, GuardInv, Idle

\* When every process locks the same file, the shrink guard's verdict is
\* still true at the commit it was asked for, whatever the callers do:
\* stale documents, omitted cards, purges, deaths.
THEOREM GuardHolds == OneLockFile /\ Spec => []KeepInv
<1> SUFFICES ASSUME OneLockFile PROVE Spec => []KeepInv
  OBVIOUS
<1>1. Init => KeepInv
  BY TypeInit, LockInit, GuardInit DEF KeepInv, TypeInv
<1>2. KeepInv /\ [Next]_vars => KeepInv'
  BY TypeStep, LockStep, GuardStep DEF KeepInv, TypeInv
<1>3. QED
  BY <1>1, <1>2, PTL DEF Spec

\* The commit removes only what the write names.
LEMMA CommitKeeps ==
    ASSUME KeepInv, NEW c \in Clients, MirrorDoc(c),
           NEW i \in Ids, rows[i] # NoCard, rows'[i] = NoCard
    PROVE  proc[c].op.kind = "purge" /\ proc[c].op.id = i
<1> DEFINE o == proc[c].op
           d == proc[c].doc
           p == proc[c].prior
<1>1. /\ p = Unhashed => Rebuild(d)
      /\ p # Unhashed => Reconcile(d, p, DeletedIds(o))
  BY DEF MirrorDoc
<1>2. i \in Present(d) \cup DeletedIds(o)
  BY DEF KeepInv, GuardInv, MirrorDoc, ShrinkRefused, CurrentStoredIds, Present
<1>3. i \notin Present(d) => i \in DeletedIds(o)
  BY <1>2
<1> HIDE DEF o, d, p
<1>4. i \in DeletedIds(o)
  <2>1. CASE p = Unhashed
    BY <1>1, <1>3, <2>1 DEF Rebuild, Present
  <2>2. CASE p # Unhashed
    BY <1>1, <1>3, <2>2 DEF Reconcile, Changed, Present
  <2>3. QED
    BY <2>1, <2>2
<1>5. QED
  BY <1>4 DEF DeletedIds, o

\* "A written card never disappears": with one lock file, a row leaves the
\* table only in the commit of a write that names it in deleted_ids.
THEOREM CardsNeverDisappear == OneLockFile /\ Spec => NeverDisappears
<1> SUFFICES ASSUME OneLockFile PROVE Spec => NeverDisappears
  OBVIOUS
<1>1. KeepInv /\ [Next]_vars => [RemovesOnlyNamed]_vars
  <2> SUFFICES ASSUME KeepInv, Next, NEW i \in Ids,
                      rows[i] # NoCard, rows'[i] = NoCard
               PROVE  \E c \in Clients : /\ proc[c].at = "diffed"
                                        /\ proc'[c].at = "idle"
                                        /\ proc[c].op.kind = "purge"
                                        /\ proc[c].op.id = i
    BY DEF RemovesOnlyNamed
  <2>1. PICK c \in Clients : MirrorDoc(c)
    BY RowsKept
  <2>2. proc[c].at = "diffed" /\ proc'[c].at = "idle"
    BY <2>1, IdleType, BecomesType DEF MirrorDoc, KeepInv, Idle
  <2>3. QED
    BY <2>1, <2>2, CommitKeeps
<1>2. Spec => []KeepInv
  BY GuardHolds
<1>3. QED
  BY <1>1, <1>2, PTL DEF Spec, NeverDisappears

-----------------------------------------------------------------------------
(* No lost update: the path behaves as if each write ran alone.            *)

\* How the store must be used: one lock file, no load_tasks ... save_tasks
\* without a generation, and no physical delete beside the ones with it.
SerialUse ==
    /\ OneLockFile
    /\ "raw" \notin Paths
    /\ "guarded" \in Paths => "purge" \notin Kinds

LEMMA BelowRefl ==
    ASSUME NEW d \in Doc
    PROVE  Below(d, d)
BY DEF Below

LEMMA BelowTrans ==
    ASSUME NEW d \in Doc, NEW e \in Doc, NEW f \in Doc, Below(d, e), Below(e, f)
    PROVE  Below(d, f)
BY DEF Below

\* A token equal to both ends pins the document between them.
LEMMA BelowAntisym ==
    ASSUME NEW d \in Doc, NEW e \in Doc, Below(d, e), Below(e, d)
    PROVE  d = e
<1>1. \A i \in Ids : d[i] = e[i]
  <2> SUFFICES ASSUME NEW i \in Ids PROVE d[i] = e[i]
    OBVIOUS
  <2>1. CASE d[i] = NoCard
    BY <2>1 DEF Below
  <2>2. CASE d[i] # NoCard
    <3>1. e[i] # NoCard /\ d[i] \subseteq e[i] /\ e[i] \subseteq d[i]
      BY <2>2 DEF Below
    <3>2. d[i] \in SUBSET Marks /\ e[i] \in SUBSET Marks
      BY <2>2, <3>1 DEF Doc
    <3>3. QED
      BY <3>1, <3>2
  <2>3. QED
    BY <2>1, <2>2
<1>2. QED
  BY <1>1 DEF Doc

\* Additions and edits only ever add to the table.
LEMMA AppliedGrows ==
    ASSUME NEW o \in Ops, NEW d \in Doc, Applicable(o, d),
           o.kind \in {"add", "edit"}
    PROVE  Below(d, Applied(o, d))
<1> SUFFICES ASSUME NEW i \in Ids, d[i] # NoCard
             PROVE  /\ Applied(o, d)[i] # NoCard
                    /\ d[i] \subseteq Applied(o, d)[i]
  BY DEF Below
<1>1. d[i] \in SUBSET Marks /\ o.mark \in Marks /\ o.id \in Ids
  BY DEF Doc, Ops
<1>2. CASE i # o.id
  BY <1>2 DEF Applied, Doc
<1>3. CASE i = o.id
  <2>1. o.kind = "edit"
    BY <1>3 DEF Applicable
  <2>2. Applied(o, d)[i] = d[i] \cup {o.mark}
    BY <1>1, <1>3, <2>1 DEF Applied, Doc
  <2>3. d[i] \cup {o.mark} \in SUBSET Marks
    BY <1>1
  <2>4. QED
    BY <2>2, <2>3, SentinelAssumption
<1>4. QED
  BY <1>2, <1>3

\* The guard refuses every document that omits a card without naming it.
LEMMA DropRefused ==
    ASSUME NEW o \in Ops, rows \in Doc, Applicable(o, rows),
           ~ShrinkRefused(Applied(o, rows), DeletedIds(o))
    PROVE  o.kind # "drop"
<1> SUFFICES ASSUME o.kind = "drop" PROVE FALSE
  OBVIOUS
<1>1. o.id \in Ids /\ rows[o.id] # NoCard
  BY DEF Ops, Applicable
<1>2. Applied(o, rows)[o.id] = NoCard
  BY <1>1 DEF Applied, Doc
<1>3. DeletedIds(o) = {}
  BY DEF DeletedIds
<1>4. QED
  BY <1>1, <1>2, <1>3 DEF ShrinkRefused, CurrentStoredIds, Present

\* The heart of it: a commit turns the table, and the mirror's memory with
\* it, into the table changed as the write asks.
LEMMA CommitApplies ==
    ASSUME SerialInv, NEW c \in Clients, MirrorDoc(c)
    PROVE  /\ rows' = Applied(proc[c].op, rows)
           /\ hashes' = rows'
<1> DEFINE o == proc[c].op
           d == proc[c].doc
           p == proc[c].prior
<1>1. /\ p = Unhashed => Rebuild(d)
      /\ p # Unhashed => Reconcile(d, p, DeletedIds(o))
  BY DEF MirrorDoc
<1>2. /\ o \in Ops /\ d \in Doc /\ d = Applied(o, rows) /\ Applicable(o, rows)
      /\ o.kind # "drop" /\ p = hashes /\ rows \in Doc
  BY DEF SerialInv, OpInv, FreshInv, UpToDate, MirrorDoc, TypeOK, Procs
<1>3. p = Unhashed \/ (p = rows /\ hashes = rows)
  BY <1>2 DEF SerialInv, HashInv
<1> HIDE DEF o, d, p
<1>4. CASE p = Unhashed
  <2>1. rows' = d
    BY <1>1, <1>4 DEF Rebuild
  <2>2. hashes' = [i \in Ids |-> d[i]]
    BY <1>1, <1>2, <1>4 DEF Rebuild
  <2>3. QED
    BY <1>2, <2>1, <2>2 DEF Doc, o
<1>5. CASE p = rows /\ hashes = rows /\ p # Unhashed
  <2> DEFINE now == [i \in Ids |->
                        IF i \in DeletedIds(o) THEN NoCard
                        ELSE IF i \in Changed(d, p) THEN d[i] ELSE rows[i]]
  <2>1. rows' = now /\ hashes' = now
    BY <1>1, <1>5 DEF Reconcile
  <2>2. \A i \in Ids : now[i] = d[i]
    <3> SUFFICES ASSUME NEW i \in Ids PROVE now[i] = d[i]
      OBVIOUS
    <3>1. CASE i \in DeletedIds(o)
      BY <3>1, <1>2 DEF DeletedIds, Applied, Ops, Doc
    <3>2. CASE i \notin DeletedIds(o) /\ d[i] = NoCard
      <4>1. i \notin Changed(d, p)
        BY <3>2 DEF Changed, Present
      <4>2. i # o.id
        BY <3>2, <1>2, SentinelAssumption
        DEF DeletedIds, Applied, Applicable, Ops, Doc, AllKinds
      <4>3. rows[i] = d[i]
        BY <4>2, <1>2 DEF Applied, Doc
      <4>4. QED
        BY <3>2, <4>1, <4>3
    <3>3. CASE i \notin DeletedIds(o) /\ d[i] # NoCard
      BY <3>3, <1>5 DEF Changed, Present
    <3>4. QED
      BY <3>1, <3>2, <3>3
  <2> HIDE DEF now
  <2>3. now = d
    BY <2>2, <1>2 DEF Doc, now
  <2>4. QED
    BY <1>2, <2>1, <2>3 DEF o
<1>6. QED
  BY <1>2, <1>3, <1>4, <1>5

\* A step of c that leaves table and hashes alone: the other processes'
\* documents are as good as they were.
LEMMA QuietFrame ==
    ASSUME SerialInv, UNCHANGED <<rows, hashes, acked>>, NEW c \in Clients,
           NEW p \in Procs, Becomes(c, p), Between(p), UpToDate(p)
    PROVE  HashInv' /\ TokenInv' /\ FreshInv' /\ AckedDurable'
<1>1. HashInv' /\ AckedDurable'
  BY DEF SerialInv, HashInv, AckedDurable
<1>2. ASSUME NEW d \in Clients PROVE Between(proc[d])' /\ UpToDate(proc[d])'
  <2>1. proc'[d] = p \/ proc'[d] = proc[d]
    BY BecomesType DEF SerialInv
  <2>2. Between(proc'[d]) /\ UpToDate(proc'[d])
    BY <2>1 DEF SerialInv, TokenInv, FreshInv
  <2>3. QED
    BY <2>2 DEF Between, UpToDate, Below, Applied, Applicable
<1>3. QED
  BY <1>1, <1>2 DEF TokenInv, FreshInv

\* A process that is neither waiting with a document nor inside the lock
\* past its read has nothing to be out of date.
LEMMA Harmless ==
    ASSUME NEW p, p.at \in {"idle", "locked"}
    PROVE  Between(p) /\ UpToDate(p)
BY DEF Between, UpToDate

\* The commit: nobody else is inside, and who waits outside is still below.
LEMMA CommitStep ==
    ASSUME SerialUse, SerialInv, NEW c \in Clients, MirrorDoc(c), TypeInv'
    PROVE  HashInv' /\ TokenInv' /\ FreshInv' /\ AckedDurable'
<1> DEFINE o == proc[c].op
<1>1. rows' = Applied(o, rows) /\ hashes' = rows'
  BY CommitApplies
<1>2. /\ o \in Ops /\ Applicable(o, rows) /\ o.kind # "drop" /\ o.kind \in Kinds
      /\ rows \in Doc /\ rows' \in Doc /\ proc[c].at \in Critical
  BY DEF SerialInv, OpInv, FreshInv, UpToDate, MirrorDoc, TypeOK, TypeInv, Critical
<1>3. acked' = IF o.kind \in {"add", "edit"} THEN acked \cup {<<o.id, o.mark>>}
               ELSE {a \in acked : a[1] \notin DeletedIds(o)}
  BY DEF MirrorDoc
<1>4. Becomes(c, Idle)
  BY DEF MirrorDoc
<1> HIDE DEF o
<1>5. HashInv'
  BY <1>1 DEF HashInv
<1>6. AckedDurable'
  <2> SUFFICES ASSUME NEW a \in acked'
               PROVE  rows'[a[1]] # NoCard /\ a[2] \in rows'[a[1]]
    BY DEF AckedDurable
  <2>1. /\ acked \subseteq Ids \X Marks /\ acked' \subseteq Ids \X Marks
        /\ o.id \in Ids /\ o.mark \in Marks /\ o.kind \in AllKinds
    BY <1>2 DEF SerialInv, TypeInv, TypeOK, Ops
  <2>2. a[1] \in Ids /\ a[2] \in Marks
    BY <2>1
  <2>3. rows'[a[1]] \in {NoCard} \cup SUBSET Marks
    BY <2>2, <1>2 DEF Doc
  <2>4. CASE a[1] # o.id
    <3>1. a \in acked
      BY <1>3, <2>1, <2>4
    <3>2. rows'[a[1]] = rows[a[1]]
      BY <1>1, <1>2, <2>2, <2>4 DEF Applied, Doc
    <3>3. QED
      BY <3>1, <3>2 DEF SerialInv, AckedDurable
  <2>5. CASE a[1] = o.id /\ o.kind = "add"
    <3>1. a \notin acked
      BY <1>2, <2>5 DEF SerialInv, AckedDurable, Applicable
    <3>2. a = <<o.id, o.mark>>
      BY <1>3, <2>5, <3>1
    <3>3. rows'[a[1]] = {o.mark}
      BY <1>1, <1>2, <2>1, <2>5 DEF Applied, Doc
    <3>4. {o.mark} # NoCard
      BY <2>1, SentinelAssumption
    <3>5. QED
      BY <3>2, <3>3, <3>4
  <2>6. CASE a[1] = o.id /\ o.kind = "edit"
    <3>1. rows'[a[1]] = rows[a[1]] \cup {o.mark}
      BY <1>1, <1>2, <2>1, <2>6 DEF Applied, Doc
    <3>2. a[2] = o.mark \/ a[2] \in rows[a[1]]
      BY <1>3, <2>6 DEF SerialInv, AckedDurable
    <3>3. rows[o.id] \in SUBSET Marks
      BY <1>2, <2>1, <2>6 DEF Applicable, Doc
    <3>4. rows[o.id] \cup {o.mark} \in SUBSET Marks
      BY <3>3, <2>1
    <3>5. QED
      BY <3>1, <3>2, <3>4, <2>6, SentinelAssumption
  <2>7. CASE a[1] = o.id /\ o.kind = "purge"
    BY <1>3, <2>7 DEF DeletedIds
  <2>8. QED
    BY <1>2, <2>1, <2>4, <2>5, <2>6, <2>7 DEF AllKinds
<1>7. ASSUME NEW d \in Clients PROVE Between(proc[d])' /\ UpToDate(proc[d])'
  <2>1. CASE d = c
    <3>1. proc'[d].at = "idle"
      BY <1>4, <2>1, IdleType, BecomesType DEF SerialInv, Idle
    <3>2. QED
      BY <3>1 DEF Between, UpToDate
  <2>2. CASE d # c
    <3>1. proc'[d] = proc[d]
      BY <1>4, <2>2, IdleType, BecomesType DEF SerialInv
    <3>2. proc[d].at \notin Critical
      BY <1>2, <2>2, Alone DEF SerialInv, SerialUse
    <3>3. UpToDate(proc[d])'
      BY <3>1, <3>2 DEF UpToDate, Critical
    <3>4. Between(proc[d])
      BY DEF SerialInv, TokenInv
    <3>5. CASE proc[d].at \notin {"tokened", "loaded"}
      BY <3>1, <3>3, <3>5 DEF Between
    <3>6. CASE proc[d].at \in {"tokened", "loaded"}
      <4>1. o.kind \in {"add", "edit"}
        BY <1>2, <3>4, <3>6 DEF Between, SerialUse, Ops, AllKinds
      <4>2. Below(rows, rows')
        BY <1>1, <1>2, <4>1, AppliedGrows
      <4>3. proc[d].doc \in Doc /\ (proc[d].gen # NoGen => proc[d].gen \in Doc)
        BY DEF SerialInv, TypeOK, Procs
      <4>4. /\ proc[d].at = "tokened" => Below(proc[d].gen, rows')
            /\ proc[d].at = "loaded" => Below(proc[d].doc, rows')
        BY <1>2, <3>4, <4>2, <4>3, BelowTrans DEF Between
      <4>5. QED
        BY <3>1, <3>3, <3>4, <4>4 DEF Between, Below
    <3>7. QED
      BY <3>5, <3>6
  <2>3. QED
    BY <2>1, <2>2
<1>8. QED
  BY <1>5, <1>6, <1>7 DEF TokenInv, FreshInv

LEMMA SerialStep ==
    ASSUME SerialUse, SerialInv, [Next]_vars
    PROVE  SerialInv'
<1> USE DEF TypeInv
<1>1. TypeInv' /\ LockInv'
  BY TypeStep, LockStep DEF SerialInv
<1> DEFINE Goal == HashInv' /\ TokenInv' /\ FreshInv' /\ AckedDurable'
<1>2. TypeOK /\ OpInv /\ TokenInv /\ FreshInv /\ rows \in Doc
  BY DEF SerialInv, TypeOK
<1>3. ASSUME NEW c \in Clients, StoreLock(c) PROVE Goal
  <2>1. PICK o \in Ops : Becomes(c, [Idle EXCEPT !.at = "locked", !.op = o])
    BY <1>3 DEF StoreLock
  <2> DEFINE p == [Idle EXCEPT !.at = "locked", !.op = o]
  <2>2. p \in Procs /\ p.at = "locked"
    BY IdleType DEF Procs, Phases
  <2> HIDE DEF p
  <2>3. Between(p) /\ UpToDate(p)
    BY <2>2, Harmless
  <2>4. Becomes(c, p) /\ UNCHANGED <<rows, hashes, acked>>
    BY <1>3, <2>1 DEF StoreLock, DbUnchanged, p
  <2>5. QED
    BY <2>2, <2>3, <2>4, QuietFrame
<1>4. ASSUME NEW c \in Clients, StoreGeneration(c) PROVE Goal
  <2>1. PICK o \in Ops :
          Becomes(c, [Idle EXCEPT !.at = "tokened", !.op = o, !.gen = rows])
    BY <1>4 DEF StoreGeneration
  <2> DEFINE p == [Idle EXCEPT !.at = "tokened", !.op = o, !.gen = rows]
  <2>2. p \in Procs /\ p.at = "tokened" /\ p.gen = rows
    BY <1>2, IdleType DEF Procs, Phases, Idle
  <2>3. Between(p) /\ UpToDate(p)
    <3>1. "guarded" \in Paths
      BY <1>4 DEF StoreGeneration, Begins
    <3> HIDE DEF p
    <3>2. QED
      BY <1>2, <2>2, <3>1, BelowRefl, SentinelAssumption DEF Between, UpToDate
  <2> HIDE DEF p
  <2>4. QED
    BY <1>4, <2>1, <2>2, <2>3, QuietFrame DEF StoreGeneration, DbUnchanged, p
<1>5. ASSUME NEW c \in Clients, LoadRaw(c) PROVE Goal
  BY <1>5 DEF LoadRaw, Begins, SerialUse
<1>6. ASSUME NEW c \in Clients, ReadDoc(c) PROVE Goal
  <2> DEFINE p == [proc[c] EXCEPT !.at = "read", !.doc = rows]
  <2>1. p \in Procs /\ p.at = "read" /\ p.doc = rows
    BY <1>2 DEF Procs, Phases, TypeOK
  <2>2. Becomes(c, p) /\ UNCHANGED <<rows, hashes, acked>>
    BY <1>6 DEF ReadDoc, DbUnchanged
  <2> HIDE DEF p
  <2>3. QED
    BY <2>1, <2>2, QuietFrame DEF Between, UpToDate
<1>7. ASSUME NEW c \in Clients, LoadGuarded(c) PROVE Goal
  <2> DEFINE p == [proc[c] EXCEPT !.at = "loaded", !.doc = rows]
  <2>1. p \in Procs /\ p.at = "loaded" /\ p.doc = rows /\ p.gen = proc[c].gen
    BY <1>2 DEF Procs, Phases, TypeOK
  <2>2. /\ Becomes(c, p) /\ UNCHANGED <<rows, hashes, acked>>
        /\ proc[c].at = "tokened"
    BY <1>7 DEF LoadGuarded, DbUnchanged
  <2>3. Between(proc[c])
    BY <1>2 DEF TokenInv
  <2> HIDE DEF p
  <2>4. Between(p) /\ UpToDate(p)
    BY <1>2, <2>1, <2>2, <2>3, BelowRefl DEF Between, UpToDate
  <2>5. QED
    BY <2>1, <2>2, <2>4, QuietFrame
<1>8. ASSUME NEW c \in Clients, SaveTasks(c) PROVE Goal
  <2> DEFINE p == [proc[c] EXCEPT !.at = "read"]
  <2>1. /\ p \in Procs /\ p.at = "read" /\ p.doc = proc[c].doc
        /\ proc[c].doc \in Doc /\ proc[c].gen \in {NoGen} \cup Doc
    BY <1>2 DEF Procs, Phases, TypeOK
  <2>2. UNCHANGED <<rows, hashes, acked>>
    BY <1>8 DEF SaveTasks, DbUnchanged
  <2>3. \/ Becomes(c, Idle)
        \/ Becomes(c, p) /\ ~StaleGeneration(proc[c].gen)
    BY <1>8 DEF SaveTasks
  <2> HIDE DEF p
  <2>4. CASE Becomes(c, Idle)
    BY <2>2, <2>4, IdleType, Harmless, QuietFrame DEF Idle
  <2>5. CASE Becomes(c, p) /\ ~StaleGeneration(proc[c].gen)
    <3>1. /\ proc[c].gen # NoGen /\ Below(proc[c].gen, proc[c].doc)
          /\ Below(proc[c].doc, rows)
      BY <1>2, <1>8 DEF SaveTasks, TokenInv, Between
    <3>2. proc[c].gen = rows
      BY <2>5, <3>1 DEF StaleGeneration
    <3>3. proc[c].doc = rows
      BY <1>2, <2>1, <3>1, <3>2, BelowAntisym
    <3>4. QED
      BY <2>1, <2>2, <2>5, <3>3, QuietFrame DEF Between, UpToDate
  <2>6. QED
    BY <2>3, <2>4, <2>5
<1>9. ASSUME NEW c \in Clients, SaveDoc(c) PROVE Goal
  <2> DEFINE o == proc[c].op
             d == Applied(o, rows)
             q == [proc[c] EXCEPT !.at = "guarded", !.doc = d]
  <2>1. /\ proc[c] \in Procs /\ o \in Ops /\ proc[c].doc = rows
        /\ UNCHANGED <<rows, hashes, acked>>
    BY <1>2, <1>9 DEF SaveDoc, TypeOK, OpInv, FreshInv, UpToDate, DbUnchanged
  <2>2. CASE Becomes(c, Idle)
    BY <2>1, <2>2, IdleType, Harmless, QuietFrame DEF Idle
  <2>3. CASE /\ Becomes(c, q) /\ Applicable(o, rows)
             /\ ~ShrinkRefused(d, DeletedIds(o))
    <3>1. d \in Doc
      BY <1>2, <2>1, <2>3, AppliedType
    <3>2. q \in Procs /\ q.at = "guarded" /\ q.doc = d /\ q.op = o
      <4> HIDE DEF d
      <4> QED BY <2>1, <3>1 DEF Procs, Phases
    <3>3. o.kind # "drop"
      BY <1>2, <2>1, <2>3, DropRefused
    <3> HIDE DEF q, o
    <3>4. Between(q) /\ UpToDate(q)
      BY <2>3, <3>2, <3>3 DEF Between, UpToDate
    <3>5. QED
      BY <2>1, <2>3, <3>2, <3>4, QuietFrame
  <2>4. QED
    BY <1>9, <2>1, <2>2, <2>3 DEF SaveDoc
<1>10. ASSUME NEW c \in Clients, ExistingHashes(c) PROVE Goal
  <2> DEFINE p == [proc[c] EXCEPT !.at = "diffed", !.prior = hashes]
  <2>1. /\ p \in Procs /\ p.at = "diffed" /\ p.doc = proc[c].doc
        /\ p.op = proc[c].op /\ p.prior = hashes
    BY <1>2 DEF Procs, Phases, TypeOK
  <2>2. /\ Becomes(c, p) /\ UNCHANGED <<rows, hashes, acked>>
        /\ proc[c].at = "guarded"
    BY <1>10 DEF ExistingHashes, DbUnchanged
  <2>3. UpToDate(proc[c])
    BY <1>2 DEF FreshInv
  <2> HIDE DEF p
  <2>4. Between(p) /\ UpToDate(p)
    BY <2>1, <2>2, <2>3 DEF Between, UpToDate
  <2>5. QED
    BY <2>1, <2>2, <2>4, QuietFrame
<1>11. ASSUME NEW c \in Clients, MirrorDoc(c) PROVE Goal
  BY <1>1, <1>11, CommitStep
<1>12. ASSUME NEW c \in Clients, Crash(c) PROVE Goal
  BY <1>12, IdleType, Harmless, QuietFrame DEF Crash, DbUnchanged, Idle
<1>13. ASSUME UNCHANGED vars PROVE Goal
  BY <1>13, <1>2 DEF vars, SerialInv, HashInv, TokenInv, FreshInv, AckedDurable,
                     Between, UpToDate, Below, Applied, Applicable
<1>14. Goal
  BY <1>3, <1>4, <1>5, <1>6, <1>7, <1>8, <1>9, <1>10, <1>11, <1>12, <1>13
  DEF Next, InLock
<1>15. QED
  BY <1>1, <1>14 DEF SerialInv

LEMMA SerialInit == Init => SerialInv
<1> SUFFICES ASSUME Init PROVE SerialInv
  OBVIOUS
<1>1. TypeInv /\ LockInv
  BY TypeInit, LockInit
<1>2. HashInv /\ AckedDurable
  BY DEF Init, HashInv, AckedDurable
<1>3. TokenInv /\ FreshInv
  BY Harmless DEF Init, TokenInv, FreshInv, Idle
<1>4. QED
  BY <1>1, <1>2, <1>3 DEF SerialInv, TypeInv

\* Used as SerialUse says, no write that is about to commit works from an
\* outdated document, and the mirror's hashes never lag behind the table.
THEOREM WritesAreFresh == SerialUse /\ Spec => []SerialInv
<1> SUFFICES ASSUME SerialUse PROVE Spec => []SerialInv
  OBVIOUS
<1>1. SerialInv /\ [Next]_vars => SerialInv'
  BY SerialStep
<1>2. QED
  BY <1>1, SerialInit, PTL DEF Spec

\* No lost update: what a write that returned put on a card stays on it
\* until the card is purged, for any number of writers, crashes included.
THEOREM NoLostUpdate == SerialUse /\ Spec => []AckedDurable
<1>1. SerialInv => AckedDurable
  BY DEF SerialInv
<1>2. QED
  BY <1>1, WritesAreFresh, PTL

\* The write path implements SerialStore: lock, export, guard, hashes and
\* crash are invisible, and each commit is one write applied to the cards
\* as they are.
THEOREM Serializable == SerialUse /\ Spec => SerialSpec
<1> SUFFICES ASSUME SerialUse PROVE Spec => SerialSpec
  OBVIOUS
<1>1. Init => Serial!Init
  BY DEF Init, Serial!Init
<1>2. SerialInv /\ [Next]_vars => [Serial!Next]_(Serial!svars)
  <2> SUFFICES ASSUME SerialInv, [Next]_vars
               PROVE  Serial!Next \/ UNCHANGED Serial!svars
    OBVIOUS
  <2>1. CASE UNCHANGED vars
    BY <2>1 DEF vars, Serial!svars
  <2>2. CASE Next /\ \A c \in Clients : ~MirrorDoc(c)
    BY <2>2, RowsKept DEF Serial!svars
  <2>3. ASSUME NEW c \in Clients, MirrorDoc(c) PROVE Serial!Next
    <3> DEFINE o == proc[c].op
    <3>1. rows' = Applied(o, rows)
      BY <2>3, CommitApplies
    <3>2. /\ o \in Ops /\ Applicable(o, rows) /\ o.kind # "drop"
      BY <2>3 DEF SerialInv, OpInv, FreshInv, UpToDate, MirrorDoc
    <3>3. acked' = IF o.kind \in {"add", "edit"} THEN acked \cup {<<o.id, o.mark>>}
                   ELSE {a \in acked : a[1] \notin DeletedIds(o)}
      BY <2>3 DEF MirrorDoc
    <3> HIDE DEF o
    <3>4. o.id \in Ids /\ o.mark \in Marks /\ o.kind \in AllKinds
      BY <3>2 DEF Ops
    <3>5. CASE o.kind = "add"
      <4>1. Serial!Add(o.id, o.mark)
        BY <3>1, <3>2, <3>3, <3>5 DEF Serial!Add, Applied, Applicable
      <4>2. QED
        BY <3>4, <4>1 DEF Serial!Next
    <3>6. CASE o.kind = "edit"
      <4>1. Serial!Edit(o.id, o.mark)
        BY <3>1, <3>2, <3>3, <3>6 DEF Serial!Edit, Applied, Applicable
      <4>2. QED
        BY <3>4, <4>1 DEF Serial!Next
    <3>7. CASE o.kind = "purge"
      <4>1. Serial!Purge(o.id)
        BY <3>1, <3>2, <3>3, <3>7 DEF Serial!Purge, Applied, Applicable, DeletedIds
      <4>2. QED
        BY <3>4, <4>1 DEF Serial!Next
    <3>8. QED
      BY <3>2, <3>4, <3>5, <3>6, <3>7 DEF AllKinds
  <2>4. QED
    BY <2>1, <2>2, <2>3
<1>3. Spec => []SerialInv
  BY WritesAreFresh
<1>4. QED
  BY <1>1, <1>2, <1>3, PTL DEF Spec, SerialSpec, Serial!Spec
=============================================================================
