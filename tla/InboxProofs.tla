---------------------------- MODULE InboxProofs ----------------------------
(***************************************************************************)
(* Proofs about the inbox and its channel servers, for any number of       *)
(* dispatchers, servers, readers, events and records, in both backends.    *)
(***************************************************************************)
EXTENDS Inbox, TLAPS

-----------------------------------------------------------------------------
(* Types.                                                                  *)

LEMMA JobType ==
    ASSUME TypeOK, NEW p \in Dispatchers, job[p] # NoJob
    PROVE  job[p] \in Jobs /\ job[p].key \in Keys /\ job[p].event \in Events
BY DEF TypeOK, Jobs

LEMMA PrunedType ==
    ASSUME TypeOK, NEW k, NEW e
    PROVE  /\ Pruned(k, e) \in [Ids -> {"none", "unseen", "seen", "gone"}]
           /\ \A i \in Ids : \/ Pruned(k, e)[i] = state[i]
                             \/ /\ i \in Superseded(k, e) /\ KindOf[e] \in Digests
                                /\ state[i] = "unseen" /\ Pruned(k, e)[i] = "gone"
BY DEF Pruned, TypeOK, Superseded

LEMMA MarkedSeenType ==
    ASSUME TypeOK, NEW S
    PROVE  /\ MarkedSeen(S) \in [Ids -> {"none", "unseen", "seen", "gone"}]
           /\ \A i \in Ids : \/ MarkedSeen(S)[i] = state[i]
                             \/ i \in S /\ Present(i) /\ MarkedSeen(S)[i] = "seen"
BY DEF MarkedSeen, TypeOK

LEMMA SelectionType ==
    ASSUME NEW k, NEW only \in BOOLEAN
    PROVE  /\ Selection(k, only) \subseteq Ids
           /\ \A i \in Selection(k, only) : Present(i)
           /\ only => \A i \in Selection(k, only) : state[i] = "unseen"
BY DEF Selection, Present

\* What Insert does, given what is left of the inbox.
LEMMA InsertFacts ==
    ASSUME TypeOK, NEW p \in Dispatchers, job[p] # NoJob,
           NEW st \in [Ids -> {"none", "unseen", "seen", "gone"}],
           \A j \in Ids : st[j] = "none" <=> state[j] = "none",
           Insert(p, st)
    PROVE  \E i \in Ids :
             /\ state[i] = "none" /\ state'[i] = "unseen"
             /\ \A j \in Ids \ {i} : state'[j] = st[j] /\ rec'[j] = rec[j]
             /\ rec'[i] = [key |-> job[p].key, event |-> job[p].event, by |-> p]
             /\ rec'[i] \in Recs
             /\ state' \in [Ids -> {"none", "unseen", "seen", "gone"}]
             /\ rec' \in [Ids -> {NoRec} \cup Recs]
             /\ \A j \in Ids : state'[j] # "none" => rec'[j] \in Recs
<1>1. PICK i \in Ids :
         /\ state[i] = "none"
         /\ state' = [st EXCEPT ![i] = "unseen"]
         /\ rec' = [rec EXCEPT ![i] =
                      [key |-> job[p].key, event |-> job[p].event, by |-> p]]
  BY DEF Insert
<1> DEFINE r == [key |-> job[p].key, event |-> job[p].event, by |-> p]
<1>2. r \in Recs
  BY JobType DEF Recs
<1>3. rec' = [rec EXCEPT ![i] = r]
  BY <1>1
<1>4. /\ rec \in [Ids -> {NoRec} \cup Recs]
      /\ \A j \in Ids : state[j] # "none" => rec[j] \in Recs
  BY DEF TypeOK
<1> HIDE DEF r
<1>5. /\ rec'[i] = r /\ rec' \in [Ids -> {NoRec} \cup Recs]
      /\ \A j \in Ids \ {i} : rec'[j] = rec[j]
  BY <1>2, <1>3, <1>4
<1>6. /\ state'[i] = "unseen" /\ \A j \in Ids \ {i} : state'[j] = st[j]
      /\ state' \in [Ids -> {"none", "unseen", "seen", "gone"}]
  BY <1>1
<1>7. \A j \in Ids : state'[j] # "none" => rec'[j] \in Recs
  BY <1>2, <1>4, <1>5, <1>6
<1>8. rec'[i] = [key |-> job[p].key, event |-> job[p].event, by |-> p]
  BY <1>5 DEF r
<1>9. QED
  BY <1>1, <1>2, <1>5, <1>6, <1>7, <1>8


\* The two ways an enqueue in one step ends.
LEMMA AtOnceCases ==
    ASSUME TypeOK, NEW p \in Dispatchers, EnqueueAtOnce(p)
    PROVE  LET k == job[p].key
               e == job[p].event
               st == Pruned(k, e)
           IN  /\ job[p] \in Jobs
               /\ job' = [job EXCEPT ![p] = NoJob]
               /\ UNCHANGED <<host, reading, chanVars, handed, pushes, missed, faults>>
               /\ \/ ~IsDuplicate(st, k, e) /\ Insert(p, st) /\ Touch
                  \/ IsDuplicate(st, k, e) /\ state' = st /\ UNCHANGED <<rec, changed>>
                  \/ state' = state /\ UNCHANGED <<rec, changed>>
BY JobType DEF EnqueueAtOnce, Done

LEMMA PrunedKeepsNone ==
    ASSUME TypeOK, NEW k, NEW e
    PROVE  \A j \in Ids : Pruned(k, e)[j] = "none" <=> state[j] = "none"
BY PrunedType

LEMMA RestType ==
    ASSUME TypeOK, NEW p \in Dispatchers, job' = [job EXCEPT ![p] = NoJob]
    PROVE  job' \in [Dispatchers -> {NoJob} \cup Jobs]
BY DEF TypeOK

LEMMA TouchType ==
    ASSUME Touch
    PROVE  changed' \in [Sessions -> BOOLEAN]
BY DEF Touch

LEMMA DispatcherTypes ==
    ASSUME TypeOK, NEW p \in Dispatchers, Dispatcher(p)
    PROVE  TypeOK'
<1>1. CASE Dispatch(p)
  <2>1. PICK e \in Events :
          job' = [job EXCEPT ![p] = [at |-> "check", key |-> Key, event |-> e]]
    BY <1>1 DEF Dispatch
  <2>2. [at |-> "check", key |-> Key, event |-> e] \in Jobs
    BY DEF Jobs, Key, Keys
  <2>3. job' \in [Dispatchers -> {NoJob} \cup Jobs]
    BY <2>1, <2>2 DEF TypeOK
  <2>4. QED
    BY <1>1, <2>3 DEF Dispatch, TypeOK, host, chanVars
<1>2. CASE EnqueueAtOnce(p)
  <2> DEFINE st == Pruned(job[p].key, job[p].event)
  <2>1. /\ job[p] \in Jobs
        /\ job' = [job EXCEPT ![p] = NoJob]
        /\ UNCHANGED <<host, reading, chanVars, handed, pushes, missed, faults>>
        /\ \/ Insert(p, st) /\ Touch
           \/ state' = st /\ UNCHANGED <<rec, changed>>
           \/ state' = state /\ UNCHANGED <<rec, changed>>
    BY <1>2, AtOnceCases
  <2>2. job' \in [Dispatchers -> {NoJob} \cup Jobs] /\ job[p] # NoJob
    BY <2>1, RestType, NoJobAssumption
  <2>3. /\ st \in [Ids -> {"none", "unseen", "seen", "gone"}]
        /\ \A j \in Ids : st[j] = "none" <=> state[j] = "none"
    BY PrunedType, PrunedKeepsNone
  <2> HIDE DEF st
  <2>4. CASE Insert(p, st) /\ Touch
    BY <2>1, <2>2, <2>3, <2>4, InsertFacts, TouchType DEF TypeOK, host, chanVars
  <2>5. CASE state' = st /\ UNCHANGED <<rec, changed>>
    BY <2>1, <2>2, <2>3, <2>5 DEF TypeOK, host, chanVars
  <2>6. CASE state' = state /\ UNCHANGED <<rec, changed>>
    BY <2>1, <2>2, <2>6 DEF TypeOK, host, chanVars
  <2>7. QED
    BY <2>1, <2>4, <2>5, <2>6
<1>3. CASE EnqueueCheck(p)
  <2>1. job[p] \in Jobs
    BY <1>3, JobType DEF EnqueueCheck
  <2>2. job' = [job EXCEPT ![p] = NoJob] \/ job' = [job EXCEPT ![p].at = "insert"]
    BY <1>3 DEF EnqueueCheck, Done
  <2>3. [job[p] EXCEPT !.at = "insert"] \in Jobs
    BY <2>1 DEF Jobs
  <2>4. job' = [job EXCEPT ![p] = NoJob]
        \/ job' = [job EXCEPT ![p] = [job[p] EXCEPT !.at = "insert"]]
    BY <2>2
  <2>5. job' \in [Dispatchers -> {NoJob} \cup Jobs]
    BY <2>3, <2>4 DEF TypeOK
  <2>6. QED
    BY <1>3, <2>5 DEF EnqueueCheck, TypeOK, host, chanVars
<1>4. CASE EnqueueInsert(p)
  <2>1. job' \in [Dispatchers -> {NoJob} \cup Jobs] /\ job[p] # NoJob
    BY <1>4, RestType DEF EnqueueInsert, Done
  <2>2. /\ state \in [Ids -> {"none", "unseen", "seen", "gone"}]
        /\ Insert(p, state)
        /\ UNCHANGED <<host, reading, chanVars, handed, pushes, missed, faults>>
        /\ changed' \in [Sessions -> BOOLEAN]
    BY <1>4, TouchType DEF EnqueueInsert, TypeOK
  <2>3. QED
    BY <2>1, <2>2, InsertFacts DEF TypeOK, host, chanVars
<1>5. CASE EnqueueFails(p)
  BY <1>5, RestType DEF EnqueueFails, Done, TypeOK, host, chanVars
<1>6. QED
  BY <1>1, <1>2, <1>3, <1>4, <1>5 DEF Dispatcher

LEMMA ReaderTypes ==
    ASSUME TypeOK, NEW r \in Readers, Reader(r)
    PROVE  TypeOK'
<1>1. CASE PollSelect(r)
  <2>1. PICK only \in BOOLEAN :
          reading' = [reading EXCEPT ![r] = Selection(Key, only)]
    BY <1>1 DEF PollSelect
  <2>2. reading' \in [Readers -> {NoJob} \cup SUBSET Ids]
    BY <2>1, SelectionType DEF TypeOK
  <2>3. QED
    BY <1>1, <2>2 DEF PollSelect, TypeOK, host, chanVars
<1>2. CASE PollMark(r)
  <2>1. reading[r] \subseteq Ids
    BY <1>2 DEF PollMark, TypeOK
  <2>2. /\ state' \in [Ids -> {"none", "unseen", "seen", "gone"}]
        /\ \A i \in Ids : state'[i] # "none" => state[i] # "none"
    BY <1>2, MarkedSeenType DEF PollMark, Present
  <2>3. QED
    BY <1>2, <2>1, <2>2, TouchType DEF PollMark, TypeOK, host, chanVars
<1>3. CASE PollAtOnce(r)
  <2>1. PICK only \in BOOLEAN :
          /\ state' = MarkedSeen(Selection(Key, only))
          /\ handed' = handed \cup Selection(Key, only)
    BY <1>3 DEF PollAtOnce
  <2>2. /\ state' \in [Ids -> {"none", "unseen", "seen", "gone"}]
        /\ \A i \in Ids : state'[i] # "none" => state[i] # "none"
    BY <2>1, MarkedSeenType DEF Present
  <2>3. handed' \subseteq Ids
    BY <2>1, SelectionType DEF TypeOK
  <2>4. QED
    BY <1>3, <2>2, <2>3, TouchType DEF PollAtOnce, TypeOK, host, chanVars
<1>4. QED
  BY <1>1, <1>2, <1>3 DEF Reader

\* A push is made below the cap, so the count may grow by one.
CapInv == \A s \in Sessions : pc[s] = "ack" => count[s] < Cap

LEMMA DrainTypes ==
    ASSUME TypeOK, CapInv, NEW s \in Sessions, Drain(s)
    PROVE  TypeOK' /\ CapInv'
<1>1. CASE Tick(s)
  BY <1>1 DEF Tick, StartDrain, RecipientKeys, Keys, Goto, TypeOK, host, CapInv
<1>2. CASE PollKey(s)
  <2>1. PICK k \in keys[s] : /\ keys' = [keys EXCEPT ![s] = @ \ {k}]
                             /\ todo' = [todo EXCEPT ![s] = Selection(k, TRUE)]
    BY <1>2 DEF PollKey
  <2>2. todo' \in [Sessions -> SUBSET Ids] /\ keys' \in [Sessions -> SUBSET Keys]
    BY <2>1, SelectionType DEF TypeOK
  <2>3. QED
    BY <1>2, <2>2 DEF PollKey, TypeOK, host, CapInv
<1>3. CASE Push(s)
  <2>1. PICK i \in Ids : /\ handed' = handed \cup {i}
                         /\ pushes' = [pushes EXCEPT ![<<s, i>>] = @ + 1]
    BY <1>3 DEF Push
  <2>2. pushes' \in [Sessions \X Ids -> Nat]
    BY <2>1 DEF TypeOK
  <2>3. CapInv'
    <3>1. count[s] \in 0 .. Cap /\ ~(count[s] >= Cap) /\ count' = count
      BY <1>3 DEF Push, CapReached, TypeOK
    <3>2. count[s] < Cap
      BY <3>1, BoundAssumption
    <3>3. pc' = [pc EXCEPT ![s] = "ack"] /\ pc \in [Sessions -> {"idle", "drain", "ack"}]
      BY <1>3 DEF Push, Goto, TypeOK
    <3>4. QED
      BY <3>1, <3>2, <3>3 DEF CapInv
  <2>4. QED
    BY <1>3, <2>1, <2>2, <2>3 DEF Push, Goto, TypeOK, host
<1>4. CASE Ack(s)
  <2>1. PICK i \in Ids : state' = MarkedSeen({i}) /\ Dealt(s, i)
    BY <1>4 DEF Ack, Acked
  <2>2. changed' \in [Sessions -> BOOLEAN]
    BY <1>4 DEF Ack, Touch, TypeOK
  <2>3. /\ state' \in [Ids -> {"none", "unseen", "seen", "gone"}]
        /\ \A j \in Ids : state'[j] # "none" => state[j] # "none"
    BY <2>1, MarkedSeenType DEF Present
  <2>4. /\ count' \in [Sessions -> 0 .. Cap] /\ todo' \in [Sessions -> SUBSET Ids]
        /\ pc' = [pc EXCEPT ![s] = "drain"]
        /\ \A q \in Sessions \ {s} : count'[q] = count[q]
    BY <1>4, <2>1, BoundAssumption DEF Ack, Dealt, Goto, TypeOK, CapInv
  <2>5. QED
    BY <1>4, <2>2, <2>3, <2>4 DEF Ack, TypeOK, host, CapInv
<1>5. CASE EndDrain(s)
  BY <1>5, BoundAssumption DEF EndDrain, Leave, Goto, TypeOK, host, CapInv
<1>6. QED
  BY <1>1, <1>2, <1>3, <1>4, <1>5 DEF Drain

LEMMA FaultyTypes ==
    ASSUME TypeOK, CapInv, NEW s \in Sessions, Faulty(s)
    PROVE  TypeOK' /\ CapInv'
<1>1. faults' \in 0 .. MaxFaults
  BY BoundAssumption
  DEF Faulty, KeysUnresolved, PushFails, AckFails, PollFails, Restart, Fault, TypeOK
<1>2. CASE KeysUnresolved(s)
  BY <1>1, <1>2 DEF KeysUnresolved, StartDrain, Keys, Goto, TypeOK, host, CapInv
<1>3. CASE PushFails(s)
  BY <1>1, <1>3 DEF PushFails, TypeOK, host, CapInv
<1>4. CASE AckFails(s)
  <2>1. PICK i \in Ids : /\ missed' = [missed EXCEPT ![<<s, i>>] = @ + 1]
                         /\ Dealt(s, i)
    BY <1>4 DEF AckFails
  <2>2. missed' \in [Sessions \X Ids -> Nat]
    BY <2>1 DEF TypeOK
  <2>3. /\ count' \in [Sessions -> 0 .. Cap] /\ todo' \in [Sessions -> SUBSET Ids]
        /\ pc' = [pc EXCEPT ![s] = "drain"]
        /\ \A q \in Sessions \ {s} : count'[q] = count[q]
    BY <1>4, <2>1, BoundAssumption DEF AckFails, Dealt, Goto, TypeOK, CapInv
  <2>4. QED
    BY <1>1, <1>4, <2>2, <2>3 DEF AckFails, TypeOK, host, CapInv
<1>5. CASE PollFails(s)
  BY <1>1, <1>5, BoundAssumption DEF PollFails, Leave, Goto, TypeOK, host, CapInv
<1>6. CASE Restart(s)
  <2>1. missed' \in [Sessions \X Ids -> Nat]
    BY <1>6 DEF Restart, TypeOK
  <2>2. QED
    BY <1>1, <1>6, <2>1, BoundAssumption
    DEF Restart, Leave, Goto, TypeOK, host, CapInv
<1>7. QED
  BY <1>2, <1>3, <1>4, <1>5, <1>6 DEF Faulty

\* Dispatchers, readers and the registration leave the servers alone.
LEMMA OthersKeepChannel ==
    ASSUME \/ Register
           \/ \E p \in Dispatchers : Dispatcher(p)
           \/ \E r \in Readers : Reader(r)
    PROVE  UNCHANGED <<chanVars, pushes, missed>>
BY DEF Register, Dispatcher, Dispatch, EnqueueAtOnce, EnqueueCheck, EnqueueInsert,
       EnqueueFails, Reader, PollSelect, PollMark, PollAtOnce

TypeInv == TypeOK /\ CapInv

LEMMA TypeInit == Init => TypeInv
<1> SUFFICES ASSUME Init PROVE TypeOK /\ CapInv
  BY DEF TypeInv
<1>1. CapInv
  BY DEF Init, CapInv
<1>2. backend \in {"sqlite", "yaml"}
  BY BackendAssumption DEF Init
<1>3. count \in [Sessions -> 0 .. Cap] /\ faults \in 0 .. MaxFaults
  BY BoundAssumption DEF Init
<1>4. pushes \in [Sessions \X Ids -> Nat] /\ missed \in [Sessions \X Ids -> Nat]
  BY DEF Init
<1>5. /\ rec \in [Ids -> {NoRec} \cup Recs]
      /\ state \in [Ids -> {"none", "unseen", "seen", "gone"}]
      /\ \A i \in Ids : state[i] # "none" => rec[i] \in Recs
  BY DEF Init
<1>6. QED
  BY <1>1, <1>2, <1>3, <1>4, <1>5 DEF Init, TypeOK

LEMMA TypeStep == TypeInv /\ [Next]_vars => TypeInv'
<1> SUFFICES ASSUME TypeOK, CapInv, [Next]_vars PROVE TypeOK' /\ CapInv'
  BY DEF TypeInv
<1>1. CASE UNCHANGED vars
  BY <1>1 DEF vars, host, chanVars, TypeOK, CapInv
<1>2. CASE \/ Register
           \/ \E p \in Dispatchers : Dispatcher(p)
           \/ \E r \in Readers : Reader(r)
  <2>1. CapInv'
    BY <1>2, OthersKeepChannel DEF chanVars, CapInv
  <2>2. CASE Register
    BY <2>1, <2>2 DEF Register, chanVars, TypeOK
  <2>3. QED
    BY <1>2, <2>1, <2>2, DispatcherTypes, ReaderTypes
<1>3. CASE \E s \in Sessions : Drain(s) \/ Faulty(s)
  BY <1>3, DrainTypes, FaultyTypes
<1>4. QED
  BY <1>1, <1>2, <1>3 DEF Next

\* The inbox and its servers keep their types; in particular a drain never
\* pushes more than MAX_PUSH_PER_DRAIN records.
THEOREM InboxTypes == Spec => []TypeOK
<1>1. TypeInv => TypeOK
  BY DEF TypeInv
<1>2. QED
  BY <1>1, TypeInit, TypeStep, PTL DEF Spec

-----------------------------------------------------------------------------
(* How the records evolve.                                                 *)

\* What one step does to the inbox: it is left alone, loses what a dispatcher
\* supersedes, is marked by a reader or a server, or gets a new record.
Left == UNCHANGED <<state, rec>>
Marked(S) == state' = MarkedSeen(S) /\ rec' = rec
Added(p) ==
    /\ job[p] \in Jobs
    /\ IF job[p].at = "insert" THEN Insert(p, state)
       ELSE LET st == Pruned(job[p].key, job[p].event)
            IN  ~IsDuplicate(st, job[p].key, job[p].event) /\ Insert(p, st)
PrunedOnly(p) ==
    LET st == Pruned(job[p].key, job[p].event)
    IN  /\ job[p] \in Jobs
        /\ IsDuplicate(st, job[p].key, job[p].event)
        /\ state' = st /\ rec' = rec

LEMMA DispatcherEffects ==
    ASSUME TypeOK, NEW p \in Dispatchers, Dispatcher(p)
    PROVE  /\ Left \/ Added(p) \/ PrunedOnly(p)
           /\ UNCHANGED <<reading, chanVars, handed, pushes, missed>>
<1>1. CASE Dispatch(p)
  BY <1>1 DEF Dispatch, Left
<1>2. CASE EnqueueAtOnce(p)
  <2>1. job[p] \in Jobs /\ job[p].at = "check"
    BY <1>2, JobType DEF EnqueueAtOnce
  <2>2. QED
    BY <1>2, <2>1, AtOnceCases DEF Left, Added, PrunedOnly
<1>3. CASE EnqueueCheck(p)
  BY <1>3 DEF EnqueueCheck, Left
<1>4. CASE EnqueueInsert(p)
  BY <1>4, JobType DEF EnqueueInsert, Added
<1>5. CASE EnqueueFails(p)
  BY <1>5 DEF EnqueueFails, Left
<1>6. QED
  BY <1>1, <1>2, <1>3, <1>4, <1>5 DEF Dispatcher

LEMMA ReaderEffects ==
    ASSUME NEW r \in Readers, Reader(r)
    PROVE  /\ UNCHANGED <<job, rec, chanVars, pushes, missed>>
           /\ \/ Left /\ UNCHANGED handed
              \/ \E S : Marked(S) /\ handed' = handed \cup S
<1>1. CASE PollSelect(r)
  BY <1>1 DEF PollSelect, Left
<1>2. CASE PollMark(r)
  BY <1>2 DEF PollMark, Marked
<1>3. CASE PollAtOnce(r)
  BY <1>3 DEF PollAtOnce, Marked
<1>4. QED
  BY <1>1, <1>2, <1>3 DEF Reader

LEMMA ServerEffects ==
    ASSUME NEW s \in Sessions, Drain(s) \/ Faulty(s)
    PROVE  /\ UNCHANGED <<job, rec>>
           /\ \/ Left
              \/ /\ pc[s] = "ack" /\ UNCHANGED handed
                 /\ \E i \in Ids : Oldest(s, i) /\ Marked({i})
<1>1. CASE Ack(s)
  BY <1>1 DEF Ack, Acked, Marked
<1>2. CASE Faulty(s)
  BY <1>2 DEF Faulty, KeysUnresolved, StartDrain, PushFails, AckFails, PollFails,
              Restart, Left
<1>3. CASE Tick(s) \/ PollKey(s) \/ Push(s) \/ EndDrain(s)
  BY <1>3 DEF Tick, StartDrain, PollKey, Push, EndDrain, Left
<1>4. QED
  BY <1>1, <1>2, <1>3 DEF Drain

\* A new record takes a free id; the others are as the superseding left them.
LEMMA AddedFacts ==
    ASSUME TypeOK, NEW p \in Dispatchers, Added(p)
    PROVE  \E i \in Ids :
             /\ state[i] = "none" /\ state'[i] = "unseen"
             /\ rec'[i].key = job[p].key /\ rec'[i].event = job[p].event
             /\ rec'[i].by = p
             /\ \A j \in Ids \ {i} :
                  /\ rec'[j] = rec[j]
                  /\ \/ state'[j] = state[j]
                     \/ /\ job[p].at # "insert"
                        /\ j \in Superseded(job[p].key, job[p].event)
                        /\ KindOf[job[p].event] \in Digests
                        /\ state'[j] = "gone"
             /\ job[p].at # "insert" =>
                  \A j \in Ids \ {i} :
                     state'[j] = Pruned(job[p].key, job[p].event)[j]
<1> DEFINE st == Pruned(job[p].key, job[p].event)
<1>0. job[p] \in Jobs /\ job[p] # NoJob
  BY NoJobAssumption DEF Added
<1>1. CASE job[p].at = "insert"
  <2>1. Insert(p, state) /\ state \in [Ids -> {"none", "unseen", "seen", "gone"}]
    BY <1>1 DEF Added, TypeOK
  <2>2. PICK i \in Ids :
             /\ state[i] = "none" /\ state'[i] = "unseen"
             /\ \A j \in Ids \ {i} : state'[j] = state[j] /\ rec'[j] = rec[j]
             /\ rec'[i] = [key |-> job[p].key, event |-> job[p].event, by |-> p]
    BY <1>0, <2>1, InsertFacts
  <2>3. QED
    BY <1>1, <2>2
<1>2. CASE job[p].at # "insert"
  <2>1. Insert(p, st)
    BY <1>2 DEF Added
  <2>2. /\ st \in [Ids -> {"none", "unseen", "seen", "gone"}]
        /\ \A j \in Ids : st[j] = "none" <=> state[j] = "none"
        /\ \A j \in Ids : \/ st[j] = state[j]
                          \/ /\ j \in Superseded(job[p].key, job[p].event)
                             /\ KindOf[job[p].event] \in Digests /\ st[j] = "gone"
    BY PrunedType, PrunedKeepsNone
  <2> HIDE DEF st
  <2>3. PICK i \in Ids :
             /\ state[i] = "none" /\ state'[i] = "unseen"
             /\ \A j \in Ids \ {i} : state'[j] = st[j] /\ rec'[j] = rec[j]
             /\ rec'[i] = [key |-> job[p].key, event |-> job[p].event, by |-> p]
    BY <1>0, <2>1, <2>2, InsertFacts
  <2>4. QED
    BY <1>2, <2>2, <2>3 DEF st
<1>3. QED
  BY <1>1, <1>2

LEMMA MarkedFacts ==
    ASSUME TypeOK, NEW S, Marked(S)
    PROVE  /\ rec' = rec
           /\ \A i \in Ids : /\ Present(i)' <=> Present(i)
                             /\ state'[i] = "unseen" => state[i] = "unseen"
                             /\ state'[i] = state[i] \/ (i \in S /\ state'[i] = "seen")
BY DEF Marked, MarkedSeen, Present, TypeOK

LEMMA PrunedOnlyFacts ==
    ASSUME TypeOK, NEW p \in Dispatchers, PrunedOnly(p)
    PROVE  /\ rec' = rec
           /\ \A i \in Ids : \/ state'[i] = state[i]
                             \/ /\ i \in Superseded(job[p].key, job[p].event)
                                /\ KindOf[job[p].event] \in Digests
                                /\ state'[i] = "gone"
           /\ \E d \in Ids : Present(d)' /\ rec[d].key = job[p].key
                                         /\ rec[d].event = job[p].event
<1>1. rec' = rec /\ state' = Pruned(job[p].key, job[p].event)
  BY DEF PrunedOnly
<1>2. \E d \in Ids : Present(d)' /\ rec[d].key = job[p].key
                                 /\ rec[d].event = job[p].event
  BY <1>1 DEF PrunedOnly, IsDuplicate, Present
<1>3. QED
  BY <1>1, <1>2, PrunedType

-----------------------------------------------------------------------------
(* Enqueueing: one pending digest, no second copy of an event.             *)

\* A dispatcher between its SELECT and its INSERT is not superseding, and has
\* not enqueued the event before.
JobInv ==
    \A p \in Dispatchers : job[p] # NoJob /\ job[p].at = "insert" =>
        /\ KindOf[job[p].event] \notin Digests
        /\ \A i \in Ids : Present(i) /\ rec[i].by = p =>
              ~(rec[i].key = job[p].key /\ rec[i].event = job[p].event)

EnqueueInv == JobInv /\ OnePendingDigest /\ NoReEmit

LEMMA JobEffects ==
    ASSUME TypeOK, NEW p \in Dispatchers, Dispatcher(p)
    PROVE  /\ \A q \in Dispatchers \ {p} : job'[q] = job[q]
           /\ \/ job'[p] = NoJob
              \/ job'[p].at = "check"
              \/ /\ Left
                 /\ job'[p].key = job[p].key /\ job'[p].event = job[p].event
                 /\ KindOf[job[p].event] \notin Digests
                 /\ ~IsDuplicate(state, job[p].key, job[p].event)
<1>1. CASE Dispatch(p)
  BY <1>1 DEF Dispatch, TypeOK
<1>2. CASE EnqueueCheck(p)
  <2>1. job[p] \in Jobs
    BY <1>2, JobType DEF EnqueueCheck
  <2>2. CASE IsDuplicate(state, job[p].key, job[p].event)
    BY <1>2, <2>2 DEF EnqueueCheck, Done, TypeOK
  <2>3. CASE ~IsDuplicate(state, job[p].key, job[p].event)
    <3>1. job' = [job EXCEPT ![p].at = "insert"]
      BY <1>2, <2>3 DEF EnqueueCheck
    <3>2. /\ \A q \in Dispatchers \ {p} : job'[q] = job[q]
          /\ job'[p].key = job[p].key /\ job'[p].event = job[p].event
      BY <2>1, <3>1 DEF TypeOK, Jobs
    <3>3. QED
      BY <1>2, <2>3, <3>2 DEF EnqueueCheck, Left
  <2>4. QED
    BY <2>2, <2>3
<1>3. CASE EnqueueAtOnce(p) \/ EnqueueInsert(p) \/ EnqueueFails(p)
  BY <1>3 DEF EnqueueAtOnce, EnqueueInsert, EnqueueFails, Done, TypeOK
<1>4. QED
  BY <1>1, <1>2, <1>3 DEF Dispatcher

\* Nothing breaks it that only takes records away from what is pending or
\* present and leaves the dispatchers alone.
LEMMA EnqueueShrinks ==
    ASSUME EnqueueInv, rec' = rec,
           \A i \in Ids : /\ Present(i)' => Present(i)
                          /\ state'[i] = "unseen" => state[i] = "unseen"
    PROVE  /\ OnePendingDigest' /\ NoReEmit'
           /\ \A p \in Dispatchers : job'[p] = job[p] =>
                (job'[p] # NoJob /\ job'[p].at = "insert" =>
                  /\ KindOf[job[p].event] \notin Digests
                  /\ \A i \in Ids : Present(i)' /\ rec'[i].by = p =>
                       ~(rec'[i].key = job[p].key /\ rec'[i].event = job[p].event))
<1>1. OnePendingDigest'
  BY DEF EnqueueInv, OnePendingDigest, SameSlot
<1>2. NoReEmit'
  BY DEF EnqueueInv, NoReEmit
<1>3. QED
  BY <1>1, <1>2 DEF EnqueueInv, JobInv

LEMMA EnqueueAdds ==
    ASSUME TypeOK, EnqueueInv, NEW p \in Dispatchers, Added(p)
    PROVE  OnePendingDigest' /\ NoReEmit'
<1> DEFINE k == job[p].key
           e == job[p].event
<1>1. PICK i \in Ids :
        /\ state[i] = "none" /\ state'[i] = "unseen"
        /\ rec'[i].key = k /\ rec'[i].event = e /\ rec'[i].by = p
        /\ \A j \in Ids \ {i} :
             /\ rec'[j] = rec[j]
             /\ state'[j] = state[j] \/ state'[j] = "gone"
        /\ job[p].at # "insert" =>
             \A j \in Ids \ {i} : state'[j] = Pruned(k, e)[j]
  BY AddedFacts
<1>2. job[p] # NoJob
  BY NoJobAssumption DEF Added
<1>3. \A j \in Ids \ {i} : state'[j] = "unseen" /\ rec[j].key = k
                             /\ KindOf[rec[j].event] = KindOf[e]
                             => KindOf[e] \notin Digests
  <2> SUFFICES ASSUME NEW j \in Ids \ {i}, state'[j] = "unseen", rec[j].key = k,
                      KindOf[rec[j].event] = KindOf[e], KindOf[e] \in Digests
               PROVE  FALSE
    OBVIOUS
  <2>1. job[p].at # "insert"
    BY <1>2 DEF EnqueueInv, JobInv
  <2>2. j \in Superseded(k, e)
    BY <1>1 DEF Superseded
  <2>3. Pruned(k, e)[j] = "gone"
    BY <2>2 DEF Pruned
  <2>4. QED
    BY <1>1, <2>1, <2>3
<1>4. \A j \in Ids \ {i} : Present(j)' /\ rec[j].key = k /\ rec[j].event = e
                             => rec[j].by # p
  <2>1. CASE job[p].at = "insert"
    BY <1>1, <1>2, <2>1 DEF EnqueueInv, JobInv, Present
  <2>2. CASE job[p].at # "insert"
    BY <1>1, <2>2 DEF Added, IsDuplicate, Present
  <2>3. QED
    BY <2>1, <2>2
<1> HIDE DEF k, e
<1>5. OnePendingDigest'
  <2> SUFFICES ASSUME NEW a \in Ids, NEW b \in Ids, a # b,
                      state'[a] = "unseen", state'[b] = "unseen",
                      rec'[a].key = rec'[b].key,
                      KindOf[rec'[a].event] = KindOf[rec'[b].event],
                      KindOf[rec'[a].event] \in Digests
               PROVE  FALSE
    BY DEF OnePendingDigest, SameSlot
  <2>1. CASE a = i
    BY <1>1, <1>3, <2>1
  <2>2. CASE b = i
    BY <1>1, <1>3, <2>2
  <2>3. CASE a # i /\ b # i
    BY <1>1, <2>3 DEF EnqueueInv, OnePendingDigest, SameSlot
  <2>4. QED
    BY <2>1, <2>2, <2>3
<1>6. NoReEmit'
  <2> SUFFICES ASSUME NEW a \in Ids, NEW b \in Ids, Present(a)', Present(b)', a # b,
                      rec'[a].key = rec'[b].key, rec'[a].event = rec'[b].event,
                      rec'[a].by = rec'[b].by
               PROVE  FALSE
    BY DEF NoReEmit
  <2>1. CASE a = i
    BY <1>1, <1>4, <2>1
  <2>2. CASE b = i
    BY <1>1, <1>4, <2>2
  <2>3. CASE a # i /\ b # i
    BY <1>1, <2>3 DEF EnqueueInv, NoReEmit, Present
  <2>4. QED
    BY <2>1, <2>2, <2>3
<1>7. QED
  BY <1>5, <1>6

LEMMA EnqueueStep == TypeOK /\ EnqueueInv /\ [Next]_vars => EnqueueInv'
<1> SUFFICES ASSUME TypeOK, EnqueueInv, [Next]_vars PROVE EnqueueInv'
  OBVIOUS
<1>1. CASE UNCHANGED vars
  BY <1>1 DEF vars, EnqueueInv, JobInv, OnePendingDigest, NoReEmit, SameSlot, Present
<1>2. CASE Register
  BY <1>2 DEF Register, EnqueueInv, JobInv, OnePendingDigest, NoReEmit, SameSlot, Present
<1>3. ASSUME NEW p \in Dispatchers, Dispatcher(p) PROVE EnqueueInv'
  <2>1. OnePendingDigest' /\ NoReEmit'
    <3>1. CASE Left
      BY <3>1 DEF Left, EnqueueInv, OnePendingDigest, NoReEmit, SameSlot, Present
    <3>2. CASE Added(p)
      BY <3>2, EnqueueAdds
    <3>3. CASE PrunedOnly(p)
      BY <3>3, PrunedOnlyFacts, EnqueueShrinks DEF Present
    <3>4. QED
      BY <1>3, <3>1, <3>2, <3>3, DispatcherEffects
  <2>2. \A i \in Ids : Present(i)' /\ rec'[i].by # p => Present(i) /\ rec'[i] = rec[i]
    <3>1. CASE Left
      BY <3>1 DEF Left, Present
    <3>2. CASE Added(p)
      BY <3>2, AddedFacts DEF Present
    <3>3. CASE PrunedOnly(p)
      BY <3>3, PrunedOnlyFacts DEF Present
    <3>4. QED
      BY <1>3, <3>1, <3>2, <3>3, DispatcherEffects
  <2>3. JobInv'
    <3> SUFFICES ASSUME NEW q \in Dispatchers, job'[q] # NoJob, job'[q].at = "insert"
                 PROVE  /\ KindOf[job'[q].event] \notin Digests
                        /\ \A i \in Ids : Present(i)' /\ rec'[i].by = q =>
                              ~(rec'[i].key = job'[q].key /\ rec'[i].event = job'[q].event)
      BY DEF JobInv
    <3>1. CASE q # p
      BY <1>3, <2>2, <3>1, JobEffects DEF EnqueueInv, JobInv
    <3>2. CASE q = p
      <4>1. /\ Left
            /\ job'[p].key = job[p].key /\ job'[p].event = job[p].event
            /\ KindOf[job[p].event] \notin Digests
            /\ ~IsDuplicate(state, job[p].key, job[p].event)
        BY <1>3, <3>2, JobEffects
      <4>2. QED
        BY <3>2, <4>1 DEF Left, IsDuplicate, Present
    <3>3. QED
      BY <3>1, <3>2
  <2>4. QED
    BY <2>1, <2>3 DEF EnqueueInv
<1>4. CASE (\E r \in Readers : Reader(r)) \/ (\E s \in Sessions : Drain(s) \/ Faulty(s))
  <2>1. job' = job /\ rec' = rec
    BY <1>4, ReaderEffects, ServerEffects
  <2>2. Left \/ \E S : Marked(S)
    BY <1>4, ReaderEffects, ServerEffects
  <2>3. \A i \in Ids : /\ Present(i)' => Present(i)
                       /\ state'[i] = "unseen" => state[i] = "unseen"
    BY <2>2, MarkedFacts DEF Left, Present
  <2>4. QED
    BY <2>1, <2>3, EnqueueShrinks DEF EnqueueInv, JobInv
<1>5. QED
  BY <1>1, <1>2, <1>3, <1>4 DEF Next

LEMMA EnqueueInit == Init => EnqueueInv
BY DEF Init, EnqueueInv, JobInv, OnePendingDigest, NoReEmit, Present

LEMMA EnqueueAlways == Spec => []EnqueueInv
<1>1. TypeInv /\ EnqueueInv /\ [Next]_vars => EnqueueInv'
  BY EnqueueStep DEF TypeInv
<1>2. QED
  BY <1>1, TypeInit, TypeStep, EnqueueInit, PTL DEF Spec

\* However many sweeps and nudges enqueue digests at once, an agent never has
\* two pending ones of a kind under one key (enqueue with supersede=True).
THEOREM OneDigestPending == Spec => []OnePendingDigest
<1>1. EnqueueInv => OnePendingDigest
  BY DEF EnqueueInv
<1>2. QED
  BY <1>1, EnqueueAlways, PTL

\* A dispatcher never has two records of one event in an inbox, whatever
\* happens between its look for a duplicate and its insert.
THEOREM EventsNotRepeated == Spec => []NoReEmit
<1>1. EnqueueInv => NoReEmit
  BY DEF EnqueueInv
<1>2. QED
  BY <1>1, EnqueueAlways, PTL

-----------------------------------------------------------------------------
(* Nothing is lost.                                                        *)

\* What a server is about to acknowledge it has pushed.
AckInv ==
    \A s \in Sessions, i \in Ids :
        pc[s] = "ack" /\ Oldest(s, i) => i \in handed

LossInv == AckInv /\ NothingLost

LEMMA ServerAckInv ==
    ASSUME TypeOK, AckInv, NEW s \in Sessions, Drain(s) \/ Faulty(s)
    PROVE  AckInv' /\ handed \subseteq handed'
<1>1. handed \subseteq handed'
  BY DEF Drain, Faulty, Tick, KeysUnresolved, StartDrain, PollKey, Push, Ack, EndDrain,
         PushFails, AckFails, PollFails, Restart
<1>2. \A q \in Sessions \ {s} : pc'[q] = pc[q] /\ todo'[q] = todo[q]
  BY DEF Drain, Faulty, Tick, KeysUnresolved, StartDrain, PollKey, Push, Ack, EndDrain,
         PushFails, AckFails, PollFails, Restart, Leave, Dealt, Goto, TypeOK
<1>3. pc'[s] = "ack" => Push(s)
  BY DEF Drain, Faulty, Tick, KeysUnresolved, StartDrain, PollKey, Ack, EndDrain,
         PushFails, AckFails, PollFails, Restart, Leave, Dealt, Goto, TypeOK
<1>4. Push(s) => \A i \in Ids : Oldest(s, i)' => i \in handed'
  <2> SUFFICES ASSUME Push(s), NEW i \in Ids, Oldest(s, i)' PROVE i \in handed'
    OBVIOUS
  <2>1. PICK j \in Ids : Oldest(s, j) /\ handed' = handed \cup {j}
    BY DEF Push
  <2>2. todo' = todo
    BY DEF Push
  <2>3. i <= j /\ j <= i
    BY <2>1, <2>2 DEF Oldest
  <2>4. i = j
    BY <2>3, BoundAssumption DEF Ids
  <2>5. QED
    BY <2>1, <2>4
<1>5. AckInv'
  BY <1>1, <1>2, <1>3, <1>4 DEF AckInv, Oldest
<1>6. QED
  BY <1>1, <1>5

\* Marking what was handed out loses nothing.
LEMMA MarkedLosesNothing ==
    ASSUME TypeOK, NothingLost, NEW S, Marked(S), handed \subseteq handed',
           \A i \in S \cap Ids : i \in handed'
    PROVE  NothingLost'
<1> SUFFICES ASSUME NEW i \in Ids, state'[i] \in {"seen", "gone"}, i \notin handed'
             PROVE  /\ state'[i] = "gone" /\ KindOf[rec'[i].event] \in Digests
                    /\ \E j \in Ids : Present(j)' /\ SameSlot(i, j)'
  BY DEF NothingLost
<1>1. state'[i] = state[i] /\ i \notin handed
  BY MarkedFacts
<1>2. /\ state[i] = "gone" /\ KindOf[rec[i].event] \in Digests
      /\ \E j \in Ids : Present(j) /\ SameSlot(i, j)
  BY <1>1 DEF NothingLost
<1>3. QED
  BY <1>1, <1>2, MarkedFacts DEF SameSlot

\* Nor does superseding, as long as a record for the slot is left.
LEMMA SupersedeLosesNothing ==
    ASSUME TypeOK, NothingLost, handed' = handed, NEW k, NEW e, NEW d \in Ids,
           Present(d)', rec'[d].key = k, KindOf[rec'[d].event] = KindOf[e],
           \A i \in Ids : state[i] # "none" => rec'[i] = rec[i],
           \A i \in Ids :
              \/ state'[i] = state[i]
              \/ state'[i] = "unseen"
              \/ /\ i \in Superseded(k, e) /\ KindOf[e] \in Digests
                 /\ state'[i] = "gone"
    PROVE  NothingLost'
<1> SUFFICES ASSUME NEW i \in Ids, state'[i] \in {"seen", "gone"}, i \notin handed
             PROVE  /\ state'[i] = "gone" /\ KindOf[rec'[i].event] \in Digests
                    /\ \E j \in Ids : Present(j)' /\ SameSlot(i, j)'
  BY DEF NothingLost
<1>1. CASE state'[i] = state[i]
  <2>1. PICK j \in Ids : /\ state[i] = "gone" /\ KindOf[rec[i].event] \in Digests
                         /\ Present(j) /\ SameSlot(i, j)
    BY <1>1 DEF NothingLost
  <2>2. rec'[i] = rec[i] /\ rec'[j] = rec[j]
    BY <2>1 DEF Present
  <2>3. CASE Present(j)'
    BY <1>1, <2>1, <2>2, <2>3 DEF SameSlot
  <2>4. CASE ~Present(j)'
    <3>1. j \in Superseded(k, e)
      BY <2>1, <2>4 DEF Present
    <3>2. SameSlot(i, d)'
      BY <2>1, <2>2, <3>1 DEF SameSlot, Superseded
    <3>3. QED
      BY <1>1, <2>1, <2>2, <3>2
  <2>5. QED
    BY <2>3, <2>4
<1>2. CASE /\ i \in Superseded(k, e) /\ KindOf[e] \in Digests
           /\ state'[i] = "gone"
  <2>1. rec'[i] = rec[i] /\ SameSlot(i, d)'
    BY <1>2 DEF Superseded, SameSlot
  <2>2. QED
    BY <1>2, <2>1 DEF Superseded
<1>3. QED
  BY <1>1, <1>2

LEMMA LossStep == TypeOK /\ LossInv /\ [Next]_vars => LossInv'
<1> SUFFICES ASSUME TypeOK, LossInv, [Next]_vars PROVE AckInv' /\ NothingLost'
  BY DEF LossInv
<1> USE DEF LossInv
<1>1. CASE UNCHANGED vars
  BY <1>1 DEF vars, chanVars, AckInv, Oldest, NothingLost, SameSlot, Present
<1>2. CASE Register
  BY <1>2 DEF Register, chanVars, AckInv, Oldest, NothingLost, SameSlot, Present
<1>3. ASSUME NEW p \in Dispatchers, Dispatcher(p) PROVE AckInv' /\ NothingLost'
  <2>1. UNCHANGED <<chanVars, handed>>
    BY <1>3, DispatcherEffects
  <2>2. AckInv'
    BY <2>1 DEF AckInv, Oldest, chanVars
  <2>3. CASE Left
    BY <2>1, <2>2, <2>3 DEF Left, NothingLost, SameSlot, Present
  <2>4. CASE Added(p)
    <3>1. PICK d \in Ids :
            /\ state[d] = "none" /\ state'[d] = "unseen"
            /\ rec'[d].key = job[p].key /\ rec'[d].event = job[p].event
            /\ \A j \in Ids \ {d} :
                 /\ rec'[j] = rec[j]
                 /\ \/ state'[j] = state[j]
                    \/ /\ j \in Superseded(job[p].key, job[p].event)
                       /\ KindOf[job[p].event] \in Digests
                       /\ state'[j] = "gone"
      BY <2>4, AddedFacts
    <3>2. QED
      BY <2>1, <2>2, <3>1, SupersedeLosesNothing DEF Present
  <2>5. CASE PrunedOnly(p)
    <3>1. PICK d \in Ids : Present(d)' /\ rec[d].key = job[p].key
                                       /\ rec[d].event = job[p].event
      BY <2>5, PrunedOnlyFacts
    <3>2. QED
      BY <2>1, <2>2, <2>5, <3>1, PrunedOnlyFacts, SupersedeLosesNothing
  <2>6. QED
    BY <1>3, <2>3, <2>4, <2>5, DispatcherEffects
<1>4. ASSUME NEW r \in Readers, Reader(r) PROVE AckInv' /\ NothingLost'
  <2>1. UNCHANGED chanVars /\ handed \subseteq handed'
    BY <1>4, ReaderEffects
  <2>2. AckInv'
    BY <2>1 DEF AckInv, Oldest, chanVars
  <2>3. CASE Left /\ UNCHANGED handed
    BY <2>2, <2>3 DEF Left, NothingLost, SameSlot, Present
  <2>4. CASE \E S : Marked(S) /\ handed' = handed \cup S
    BY <2>1, <2>2, <2>4, MarkedLosesNothing
  <2>5. QED
    BY <1>4, <2>3, <2>4, ReaderEffects
<1>5. ASSUME NEW s \in Sessions, Drain(s) \/ Faulty(s) PROVE AckInv' /\ NothingLost'
  <2>1. AckInv' /\ handed \subseteq handed'
    BY <1>5, ServerAckInv
  <2>2. CASE Left
    BY <2>1, <2>2 DEF Left, NothingLost, SameSlot, Present
  <2>3. CASE /\ pc[s] = "ack" /\ UNCHANGED handed
             /\ \E i \in Ids : Oldest(s, i) /\ Marked({i})
    BY <2>1, <2>3, MarkedLosesNothing DEF AckInv
  <2>4. QED
    BY <1>5, <2>2, <2>3, ServerEffects
<1>6. QED
  BY <1>1, <1>2, <1>3, <1>4, <1>5 DEF Next

LEMMA LossInit == Init => LossInv
BY DEF Init, LossInv, AckInv, NothingLost

\* A record stops being pending only when the agent was handed it or a digest
\* took its place: for every schedule of failures, restarts, polls and
\* superseding enqueues.
THEOREM NothingIsLost == Spec => []NothingLost
<1>1. TypeInv /\ LossInv /\ [Next]_vars => LossInv'
  BY LossStep DEF TypeInv
<1>2. LossInv => NothingLost
  BY DEF LossInv
<1>3. QED
  BY <1>1, <1>2, TypeInit, TypeStep, LossInit, PTL DEF Spec

-----------------------------------------------------------------------------
(* Nothing is pushed again without cause.                                  *)

\* i is at the head of the batch of s, pushed and not acknowledged.
Between(s, i) == pc[s] = "ack" /\ Oldest(s, i)

\* A record a server may yet push has not been pushed by it, failed
\* acknowledgements aside; what it has read exists.
PushInv ==
    \A s \in Sessions, i \in Ids :
        /\ pushes[<<s, i>>] <= 1 + missed[<<s, i>>]
        /\ i \in todo[s] => state[i] # "none"
        /\ (state[i] \in {"none", "unseen"} \/ i \in todo[s]) /\ ~Between(s, i)
           => pushes[<<s, i>>] <= missed[<<s, i>>]

\* No step makes a record pending again, or forgets one.
LEMMA StateEvolves ==
    ASSUME TypeOK, [Next]_vars
    PROVE  \A i \in Ids :
             /\ state'[i] \in {"none", "unseen"} => state[i] \in {"none", "unseen"}
             /\ state[i] # "none" => state'[i] # "none"
<1>1. CASE Left \/ UNCHANGED vars \/ Register
  BY <1>1 DEF Left, vars, Register
<1>2. ASSUME NEW p \in Dispatchers, Added(p)
      PROVE  \A i \in Ids :
               /\ state'[i] \in {"none", "unseen"} => state[i] \in {"none", "unseen"}
               /\ state[i] # "none" => state'[i] # "none"
  <2>1. PICK d \in Ids :
          /\ state[d] = "none" /\ state'[d] = "unseen"
          /\ \A j \in Ids \ {d} : state'[j] = state[j]
                                  \/ (j \in Superseded(job[p].key, job[p].event)
                                      /\ state'[j] = "gone")
    BY <1>2, AddedFacts
  <2>2. QED
    BY <2>1
<1>3. ASSUME NEW p \in Dispatchers, PrunedOnly(p)
      PROVE  \A i \in Ids :
               /\ state'[i] \in {"none", "unseen"} => state[i] \in {"none", "unseen"}
               /\ state[i] # "none" => state'[i] # "none"
  BY <1>3, PrunedOnlyFacts
<1>4. ASSUME NEW S, Marked(S)
      PROVE  \A i \in Ids :
               /\ state'[i] \in {"none", "unseen"} => state[i] \in {"none", "unseen"}
               /\ state[i] # "none" => state'[i] # "none"
  BY <1>4, MarkedFacts
<1>5. QED
  BY <1>1, <1>2, <1>3, <1>4, DispatcherEffects, ReaderEffects, ServerEffects DEF Next

\* For a server that does nothing, the evolution of the records is harmless.
LEMMA PushKept ==
    ASSUME TypeOK, PushInv, [Next]_vars, NEW s \in Sessions,
           pc'[s] = pc[s], todo'[s] = todo[s],
           \A i \in Ids : /\ pushes'[<<s, i>>] = pushes[<<s, i>>]
                          /\ missed'[<<s, i>>] = missed[<<s, i>>]
    PROVE  \A i \in Ids :
             /\ pushes'[<<s, i>>] <= 1 + missed'[<<s, i>>]
             /\ i \in todo'[s] => state'[i] # "none"
             /\ (state'[i] \in {"none", "unseen"} \/ i \in todo'[s]) /\ ~Between(s, i)'
                => pushes'[<<s, i>>] <= missed'[<<s, i>>]
BY StateEvolves DEF PushInv, Between, Oldest

LEMMA OldestUnique ==
    ASSUME TypeOK, NEW s \in Sessions, NEW i \in Ids, NEW j \in Ids,
           Oldest(s, i), Oldest(s, j)
    PROVE  i = j
<1>1. i <= j /\ j <= i
  BY DEF Oldest
<1>2. QED
  BY <1>1, BoundAssumption DEF Ids

\* A server leaves the other servers' batches and counts alone.
LEMMA ServerAlone ==
    ASSUME TypeOK, NEW s \in Sessions, Drain(s) \/ Faulty(s), NEW q \in Sessions \ {s}
    PROVE  /\ pc'[q] = pc[q] /\ todo'[q] = todo[q]
           /\ \A i \in Ids : /\ pushes'[<<q, i>>] = pushes[<<q, i>>]
                             /\ missed'[<<q, i>>] = missed[<<q, i>>]
<1>1. pc'[q] = pc[q] /\ todo'[q] = todo[q]
  BY DEF Drain, Faulty, Tick, KeysUnresolved, StartDrain, PollKey, Push, Ack, EndDrain,
         PushFails, AckFails, PollFails, Restart, Leave, Dealt, Goto, TypeOK
<1>2. ASSUME NEW i \in Ids PROVE pushes'[<<q, i>>] = pushes[<<q, i>>]
  <2>1. CASE Push(s)
    BY <2>1 DEF Push, TypeOK
  <2>2. CASE ~Push(s)
    BY <2>2 DEF Drain, Faulty, Tick, KeysUnresolved, StartDrain, PollKey, Ack, EndDrain,
                PushFails, AckFails, PollFails, Restart
  <2>3. QED
    BY <2>1, <2>2
<1>3. ASSUME NEW i \in Ids PROVE missed'[<<q, i>>] = missed[<<q, i>>]
  <2>1. CASE AckFails(s)
    BY <2>1 DEF AckFails, TypeOK
  <2>2. CASE Restart(s)
    BY <2>2 DEF Restart, TypeOK
  <2>3. CASE ~AckFails(s) /\ ~Restart(s)
    BY <2>3 DEF Drain, Faulty, Tick, KeysUnresolved, StartDrain, PollKey, Push, Ack,
                EndDrain, PushFails, PollFails
  <2>4. QED
    BY <2>1, <2>2, <2>3
<1>4. QED
  BY <1>1, <1>2, <1>3

LEMMA ServerPushes ==
    ASSUME TypeOK, PushInv, [Next]_vars, NEW s \in Sessions, Drain(s) \/ Faulty(s),
           NEW i \in Ids
    PROVE  /\ pushes'[<<s, i>>] <= 1 + missed'[<<s, i>>]
           /\ i \in todo'[s] => state'[i] # "none"
           /\ (state'[i] \in {"none", "unseen"} \/ i \in todo'[s]) /\ ~Between(s, i)'
              => pushes'[<<s, i>>] <= missed'[<<s, i>>]
<1>0. /\ pushes[<<s, i>>] \in Nat /\ missed[<<s, i>>] \in Nat
      /\ pushes[<<s, i>>] <= 1 + missed[<<s, i>>]
      /\ i \in todo[s] => state[i] # "none"
      /\ (state[i] \in {"none", "unseen"} \/ i \in todo[s]) /\ ~Between(s, i)
         => pushes[<<s, i>>] <= missed[<<s, i>>]
      /\ state'[i] \in {"none", "unseen"} => state[i] \in {"none", "unseen"}
      /\ state[i] # "none" => state'[i] # "none"
  BY StateEvolves DEF PushInv, TypeOK
<1>1. CASE Tick(s) \/ KeysUnresolved(s)
  <2>1. /\ pc[s] = "idle" /\ pc'[s] = "drain" /\ todo' = todo
        /\ pushes' = pushes /\ missed' = missed
    BY <1>1 DEF Tick, KeysUnresolved, StartDrain, Goto, TypeOK
  <2>2. QED
    BY <1>0, <2>1 DEF Between
<1>2. CASE PollKey(s)
  <2>1. /\ pc[s] = "drain" /\ pc' = pc /\ state' = state
        /\ pushes' = pushes /\ missed' = missed
    BY <1>2 DEF PollKey
  <2>2. i \in todo'[s] => state[i] = "unseen"
    <3>1. PICK k \in keys[s] : todo' = [todo EXCEPT ![s] = Selection(k, TRUE)]
      BY <1>2 DEF PollKey
    <3>2. todo'[s] = Selection(k, TRUE)
      BY <3>1 DEF TypeOK
    <3>3. QED
      BY <3>2 DEF Selection
  <2>3. QED
    BY <1>0, <2>1, <2>2 DEF Between
<1>3. CASE Push(s)
  <2>1. PICK j \in Ids : /\ Oldest(s, j)
                         /\ pushes' = [pushes EXCEPT ![<<s, j>>] = @ + 1]
    BY <1>3 DEF Push
  <2>2. /\ pc[s] = "drain" /\ pc'[s] = "ack" /\ todo' = todo
        /\ state' = state /\ missed' = missed
    BY <1>3 DEF Push, Goto, TypeOK
  <2>3. CASE i = j
    <3>1. pushes'[<<s, i>>] = pushes[<<s, i>>] + 1 /\ Between(s, i)'
      BY <2>1, <2>2, <2>3 DEF TypeOK, Between, Oldest
    <3>2. pushes[<<s, i>>] <= missed[<<s, i>>]
      BY <1>0, <2>1, <2>2, <2>3 DEF Between, Oldest
    <3>3. QED
      BY <1>0, <2>2, <3>1, <3>2
  <2>4. CASE i # j
    <3>1. pushes'[<<s, i>>] = pushes[<<s, i>>]
      BY <2>1, <2>4 DEF TypeOK
    <3>2. QED
      BY <1>0, <2>2, <3>1 DEF Between
  <2>5. QED
    BY <2>3, <2>4
<1>4. CASE Ack(s)
  <2>1. PICK j \in Ids : Oldest(s, j) /\ state' = MarkedSeen({j}) /\ Dealt(s, j)
    BY <1>4 DEF Ack, Acked
  <2>2. /\ pc[s] = "ack" /\ pc'[s] = "drain" /\ todo'[s] = todo[s] \ {j}
        /\ pushes' = pushes /\ missed' = missed
    BY <1>4, <2>1 DEF Ack, Dealt, Goto, TypeOK
  <2>3. CASE i = j
    <3>1. state[i] # "none" /\ i \notin todo'[s]
      BY <1>0, <2>1, <2>2, <2>3 DEF Oldest
    <3>2. state'[i] \notin {"none", "unseen"}
      BY <2>1, <2>3, <3>1 DEF MarkedSeen, Present, TypeOK
    <3>3. QED
      BY <1>0, <2>2, <3>1, <3>2
  <2>4. CASE i # j
    <3>1. ~Between(s, i)
      BY <2>1, <2>4, OldestUnique DEF Between
    <3>2. QED
      BY <1>0, <2>2, <3>1
  <2>5. QED
    BY <2>3, <2>4
<1>5. CASE PushFails(s)
  <2>1. /\ pc[s] = "drain" /\ todo'[s] \subseteq todo[s]
        /\ pushes' = pushes /\ missed' = missed
    BY <1>5 DEF PushFails, TypeOK
  <2>2. QED
    BY <1>0, <2>1 DEF Between
<1>6. CASE AckFails(s)
  <2>1. PICK j \in Ids : /\ Oldest(s, j) /\ Dealt(s, j)
                         /\ missed' = [missed EXCEPT ![<<s, j>>] = @ + 1]
    BY <1>6 DEF AckFails
  <2>2. todo'[s] \subseteq todo[s] /\ pushes' = pushes
    BY <1>6, <2>1 DEF AckFails, Dealt, TypeOK
  <2>3. CASE i = j
    <3>1. missed'[<<s, i>>] = missed[<<s, i>>] + 1
      BY <2>1, <2>3 DEF TypeOK
    <3>2. QED
      BY <1>0, <2>2, <3>1
  <2>4. CASE i # j
    <3>1. missed'[<<s, i>>] = missed[<<s, i>>] /\ ~Between(s, i)
      BY <2>1, <2>4, OldestUnique DEF TypeOK, Between
    <3>2. QED
      BY <1>0, <2>2, <3>1
  <2>5. QED
    BY <2>3, <2>4
<1>7. CASE EndDrain(s) \/ PollFails(s)
  <2>1. /\ pc[s] = "drain" /\ todo'[s] = {}
        /\ pushes' = pushes /\ missed' = missed
    BY <1>7 DEF EndDrain, PollFails, Leave, TypeOK
  <2>2. QED
    BY <1>0, <2>1 DEF Between
<1>8. CASE Restart(s)
  <2>1. todo'[s] = {} /\ pushes' = pushes
    BY <1>8 DEF Restart, Leave, TypeOK
  <2>2. missed'[<<s, i>>] = IF Between(s, i) THEN missed[<<s, i>>] + 1
                            ELSE missed[<<s, i>>]
    BY <1>8 DEF Restart, Between
  <2>3. QED
    BY <1>0, <2>1, <2>2
<1>9. QED
  BY <1>1, <1>2, <1>3, <1>4, <1>5, <1>6, <1>7, <1>8 DEF Drain, Faulty

LEMMA PushStep == TypeOK /\ PushInv /\ [Next]_vars => PushInv'
<1> SUFFICES ASSUME TypeOK, PushInv, [Next]_vars, NEW q \in Sessions
             PROVE  \A i \in Ids :
               /\ pushes'[<<q, i>>] <= 1 + missed'[<<q, i>>]
               /\ i \in todo'[q] => state'[i] # "none"
               /\ (state'[i] \in {"none", "unseen"} \/ i \in todo'[q]) /\ ~Between(q, i)'
                  => pushes'[<<q, i>>] <= missed'[<<q, i>>]
  BY DEF PushInv
<1>1. CASE UNCHANGED <<chanVars, pushes, missed>>
  BY <1>1, PushKept DEF chanVars
<1>2. ASSUME NEW s \in Sessions, Drain(s) \/ Faulty(s), q # s
      PROVE  /\ pc'[q] = pc[q] /\ todo'[q] = todo[q]
             /\ \A i \in Ids : /\ pushes'[<<q, i>>] = pushes[<<q, i>>]
                               /\ missed'[<<q, i>>] = missed[<<q, i>>]
  BY <1>2, ServerAlone
<1>3. CASE \E s \in Sessions : (Drain(s) \/ Faulty(s)) /\ q # s
  BY <1>2, <1>3, PushKept
<1>4. CASE Drain(q) \/ Faulty(q)
  BY <1>4, ServerPushes
<1>5. QED
  BY <1>1, <1>3, <1>4, OthersKeepChannel DEF Next, vars

LEMMA PushInit == Init => PushInv
<1> SUFFICES ASSUME Init, NEW s \in Sessions, NEW i \in Ids
             PROVE  /\ pushes[<<s, i>>] <= 1 + missed[<<s, i>>]
                    /\ i \notin todo[s]
                    /\ pushes[<<s, i>>] <= missed[<<s, i>>]
  BY DEF PushInv
<1>1. pushes[<<s, i>>] = 0 /\ missed[<<s, i>>] = 0 /\ todo[s] = {}
  BY DEF Init
<1>2. QED
  BY <1>1

\* A channel server pushes a record again only after failing to acknowledge
\* it, whatever the other servers, the agent's polls and the dispatchers do.
THEOREM PushedAgainOnlyAfterFailure == Spec => []PushedOnce
<1>1. TypeInv /\ PushInv /\ [Next]_vars => PushInv'
  BY PushStep DEF TypeInv
<1>2. PushInv => PushedOnce
  BY DEF PushInv, PushedOnce
<1>3. QED
  BY <1>1, <1>2, TypeInit, TypeStep, PushInit, PTL DEF Spec
=============================================================================
