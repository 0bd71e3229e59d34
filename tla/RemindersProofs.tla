--------------------------- MODULE RemindersProofs ---------------------------
(***************************************************************************)
(* Proofs about the reminder engine, for any cards and owners, any number  *)
(* of ticks before an escalation, and any faults.                          *)
(***************************************************************************)
EXTENDS Reminders, TLAPS

-----------------------------------------------------------------------------
(* The inductive invariant.  A sweep knows what its copy of the sidecar    *)
(* says, the engine at rest what the file says.  What was sent in this     *)
(* streak and is not known there was sent by a sweep that was lost, and    *)
(* each lost sweep leaves at most one such thing to a card or an owner.    *)

Known == IF pc = "idle" THEN disk ELSE mem

\* The owner a sweep is at, and whom it will write to about which cards.
Visiting ==
    /\ pc \notin {"idle", "pick"} => owner \in Owners /\ bucket[owner] # {}
    /\ \A o \in pending : bucket[o] # {}
    /\ pc = "operator" =>
          \A i \in todo : i \in Ids(bucket[owner]) /\ ~mem.cards[i].escalated
    /\ pc = "creator" =>
          \A i \in todo : i \in Ids(bucket[owner]) /\ ~mem.cards[i].creator

\* Nothing has been said in this streak of a card that is in no bucket.
Fresh ==
    pc # "idle" =>
        \A i \in Cards : \/ \E o \in Owners : i \in Ids(bucket[o])
                         \/ opTold[i] = 0 /\ crTold[i] = 0

Latched ==
    \A i \in Cards :
        /\ opTold[i] <= lost + (IF Known.cards[i].escalated THEN 1 ELSE 0)
        /\ crTold[i] <= lost + (IF Known.cards[i].creator THEN 1 ELSE 0)

\* What is known of an owner's last digest.
UpToDate(o) ==
    /\ Known.owners[o].fingerprint = told[o].content
    /\ Known.owners[o].floored => told[o].floored

Repeated == \A o \in Owners : repeats[o] + (IF UpToDate(o) THEN 0 ELSE 1) <= lost

Informed ==
    \A o \in Owners : Known.owners[o].fingerprint \in {{}, told[o].content} \/ o \in doubt

\* A lost sweep is a fault.
LossesAreFaults == lost <= faults

-----------------------------------------------------------------------------
(* What the updates make of a sidecar.                                     *)

LEMMA SidecarParts ==
    ASSUME NEW s \in Sidecars
    PROVE  /\ s.owners \in [Owners -> OwnerEntries] /\ s.cards \in [Cards -> Latches]
           /\ s = [owners |-> s.owners, cards |-> s.cards]
BY DEF Sidecars

LEMMA EntryUpdate ==
    ASSUME NEW s \in Sidecars, NEW o \in Owners, NEW e \in OwnerEntries
    PROVE  LET t == [owners |-> [s.owners EXCEPT ![o] = e], cards |-> s.cards] IN
           /\ t \in Sidecars /\ t.cards = s.cards /\ t.owners[o] = e
           /\ \A q \in Owners : q # o => t.owners[q] = s.owners[q]
BY DEF Sidecars

LEMMA LatchUpdate ==
    ASSUME NEW s \in Sidecars, NEW i \in Cards, NEW e \in Latches
    PROVE  LET t == [owners |-> s.owners, cards |-> [s.cards EXCEPT ![i] = e]] IN
           /\ t \in Sidecars /\ t.owners = s.owners /\ t.cards[i] = e
           /\ \A j \in Cards : j # i => t.cards[j] = s.cards[j]
BY DEF Sidecars

LEMMA Ticked ==
    ASSUME NEW s \in Sidecars, owner \in Owners
    PROVE  /\ ticked(s) \in Sidecars /\ ticked(s).cards = s.cards
           /\ \A o \in Owners : /\ ticked(s).owners[o].fingerprint = s.owners[o].fingerprint
                                /\ ticked(s).owners[o].floored = s.owners[o].floored
<1> DEFINE c == IF s.owners[owner].count < EscalateAfter THEN s.owners[owner].count + 1
                ELSE s.owners[owner].count
           e == [s.owners[owner] EXCEPT !.count = c, !.last = 0]
<1>1. s.owners[owner] \in OwnerEntries /\ s.owners \in [Owners -> OwnerEntries]
  BY SidecarParts
<1>2. c \in 0 .. EscalateAfter
  BY <1>1, ReminderAssumption DEF OwnerEntries
<1>3. /\ e \in OwnerEntries /\ e.fingerprint = s.owners[owner].fingerprint
      /\ e.floored = s.owners[owner].floored
  <2> DEFINE d == [s.owners[owner] EXCEPT !.count = c]
  <2> HIDE DEF c
  <2>1. /\ d \in OwnerEntries /\ d.fingerprint = s.owners[owner].fingerprint
        /\ d.floored = s.owners[owner].floored
    BY <1>1, <1>2 DEF OwnerEntries
  <2>2. e = [d EXCEPT !.last = 0]
    OBVIOUS
  <2> HIDE DEF d
  <2>3. /\ [d EXCEPT !.last = 0] \in OwnerEntries
        /\ [d EXCEPT !.last = 0].fingerprint = d.fingerprint
        /\ [d EXCEPT !.last = 0].floored = d.floored
    BY <2>1 DEF OwnerEntries
  <2>4. QED
    BY <2>1, <2>2, <2>3
<1>4. ticked(s) = [owners |-> [s.owners EXCEPT ![owner] = e], cards |-> s.cards]
  <2>1. ticked(s) = [[s EXCEPT !.owners = [s.owners EXCEPT ![owner] =
                         [s.owners[owner] EXCEPT !.count = c]]]
                        EXCEPT !.owners[owner].last = 0]
    BY DEF ticked
  <2>2. QED
    BY <1>1, <2>1 DEF Sidecars
<1> HIDE DEF e
<1>5. /\ ticked(s) \in Sidecars /\ ticked(s).cards = s.cards /\ ticked(s).owners[owner] = e
      /\ \A q \in Owners : q # owner => ticked(s).owners[q] = s.owners[q]
  BY <1>3, <1>4, EntryUpdate
<1>6. QED
  BY <1>3, <1>5

\* The sidecar after a digest that was sent.
Noted(s) == [s EXCEPT !.owners[owner].fingerprint = bucket[owner],
                      !.owners[owner].floored = FALSE]

LEMMA NotedFacts ==
    ASSUME NEW s \in Sidecars, owner \in Owners, bucket[owner] \in Contents
    PROVE  /\ Noted(s) \in Sidecars /\ Noted(s).cards = s.cards
           /\ Noted(s).owners[owner].fingerprint = bucket[owner]
           /\ ~Noted(s).owners[owner].floored
           /\ \A o \in Owners : o # owner => Noted(s).owners[o] = s.owners[o]
<1> DEFINE e == [s.owners[owner] EXCEPT !.fingerprint = bucket[owner], !.floored = FALSE]
<1>1. s.owners[owner] \in OwnerEntries /\ s.owners \in [Owners -> OwnerEntries]
  BY SidecarParts
<1>2. e \in OwnerEntries /\ e.fingerprint = bucket[owner] /\ e.floored = FALSE
  BY <1>1 DEF OwnerEntries
<1>3. Noted(s) = [owners |-> [s.owners EXCEPT ![owner] = e], cards |-> s.cards]
  <2>1. Noted(s) = [[s EXCEPT !.owners = [s.owners EXCEPT ![owner] =
                        [s.owners[owner] EXCEPT !.fingerprint = bucket[owner]]]]
                       EXCEPT !.owners[owner].floored = FALSE]
    BY DEF Noted
  <2>2. QED
    BY <1>1, <2>1 DEF Sidecars
<1> HIDE DEF e
<1>4. /\ Noted(s) \in Sidecars /\ Noted(s).cards = s.cards /\ Noted(s).owners[owner] = e
      /\ \A q \in Owners : q # owner => Noted(s).owners[q] = s.owners[q]
  BY <1>2, <1>3, EntryUpdate
<1>5. QED
  BY <1>2, <1>4

OperatorTold(s, i) == [s EXCEPT !.cards[i].escalated = TRUE]
LEMMA EscalatedFacts ==
    ASSUME NEW s \in Sidecars, NEW i \in Cards
    PROVE  /\ OperatorTold(s, i) \in Sidecars /\ OperatorTold(s, i).owners = s.owners
           /\ OperatorTold(s, i).cards[i].escalated = TRUE
           /\ OperatorTold(s, i).cards[i].creator = s.cards[i].creator
           /\ \A j \in Cards : j # i => OperatorTold(s, i).cards[j] = s.cards[j]
<1>1. s.cards[i] \in Latches /\ s.cards \in [Cards -> Latches]
  BY SidecarParts
<1>2. \A cs : [s EXCEPT !.cards = cs] = [owners |-> s.owners, cards |-> cs]
  BY DEF Sidecars
<1> DEFINE e == [s.cards[i] EXCEPT !.escalated = TRUE]
<1>3. e \in Latches /\ e.escalated = TRUE /\ e.creator = s.cards[i].creator
  BY <1>1 DEF Latches
<1>4. OperatorTold(s, i) = [s EXCEPT !.cards = [s.cards EXCEPT ![i] = e]]
  BY DEF OperatorTold
<1> HIDE DEF e
<1> DEFINE r == [owners |-> s.owners, cards |-> [s.cards EXCEPT ![i] = e]]
<1>5. /\ r \in Sidecars /\ r.owners = s.owners /\ r.cards[i] = e
      /\ \A j \in Cards : j # i => r.cards[j] = s.cards[j]
  BY <1>3, LatchUpdate
<1>6. OperatorTold(s, i) = r
  BY <1>2, <1>4
<1> HIDE DEF r
<1>7. QED
  BY <1>3, <1>5, <1>6

CreatorTold(s, i) == [s EXCEPT !.cards[i].creator = TRUE]
LEMMA CreatorFacts ==
    ASSUME NEW s \in Sidecars, NEW i \in Cards
    PROVE  /\ CreatorTold(s, i) \in Sidecars /\ CreatorTold(s, i).owners = s.owners
           /\ CreatorTold(s, i).cards[i].creator = TRUE
           /\ CreatorTold(s, i).cards[i].escalated = s.cards[i].escalated
           /\ \A j \in Cards : j # i => CreatorTold(s, i).cards[j] = s.cards[j]
<1>1. s.cards[i] \in Latches /\ s.cards \in [Cards -> Latches]
  BY SidecarParts
<1>2. \A cs : [s EXCEPT !.cards = cs] = [owners |-> s.owners, cards |-> cs]
  BY DEF Sidecars
<1> DEFINE e == [s.cards[i] EXCEPT !.creator = TRUE]
<1>3. e \in Latches /\ e.creator = TRUE /\ e.escalated = s.cards[i].escalated
  BY <1>1 DEF Latches
<1>4. CreatorTold(s, i) = [s EXCEPT !.cards = [s.cards EXCEPT ![i] = e]]
  BY DEF CreatorTold
<1> HIDE DEF e
<1> DEFINE r == [owners |-> s.owners, cards |-> [s.cards EXCEPT ![i] = e]]
<1>5. /\ r \in Sidecars /\ r.owners = s.owners /\ r.cards[i] = e
      /\ \A j \in Cards : j # i => r.cards[j] = s.cards[j]
  BY <1>3, LatchUpdate
<1>6. CreatorTold(s, i) = r
  BY <1>2, <1>4
<1> HIDE DEF r
<1>7. QED
  BY <1>3, <1>5, <1>6

\* What time does to an entry.
LEMMA OutlivedFacts ==
    ASSUME NEW s \in Sidecars, NEW o \in Owners, s.owners[o].last < 2,
           NEW t, t = [s EXCEPT !.owners[o].last = @ + 1]
    PROVE  /\ t \in Sidecars /\ t.cards = s.cards
           /\ \A q \in Owners : /\ t.owners[q].fingerprint = s.owners[q].fingerprint
                                /\ t.owners[q].floored = s.owners[q].floored
<1>1. s.owners[o] \in OwnerEntries /\ s.owners \in [Owners -> OwnerEntries]
  BY SidecarParts
<1>2. \A os : [s EXCEPT !.owners = os] = [owners |-> os, cards |-> s.cards]
  BY DEF Sidecars
<1> DEFINE e == [s.owners[o] EXCEPT !.last = s.owners[o].last + 1]
<1>3. /\ e \in OwnerEntries /\ e.fingerprint = s.owners[o].fingerprint
      /\ e.floored = s.owners[o].floored
  <2>1. s.owners[o].last + 1 \in 0 .. 2
    BY <1>1 DEF OwnerEntries
  <2>2. QED
    BY <1>1, <2>1 DEF OwnerEntries
<1>4. t = [s EXCEPT !.owners = [s.owners EXCEPT ![o] = e]]
  OBVIOUS
<1> HIDE DEF e
<1> DEFINE r == [owners |-> [s.owners EXCEPT ![o] = e], cards |-> s.cards]
<1>5. /\ r \in Sidecars /\ r.cards = s.cards /\ r.owners[o] = e
      /\ \A q \in Owners : q # o => r.owners[q] = s.owners[q]
  BY <1>3, EntryUpdate
<1>6. t = r
  BY <1>2, <1>4
<1> HIDE DEF r
<1>7. QED
  BY <1>3, <1>5, <1>6

LEMMA FlooredFacts ==
    ASSUME NEW s \in Sidecars, NEW o \in Owners, NEW t, t = [s EXCEPT !.owners[o].floored = TRUE]
    PROVE  /\ t \in Sidecars /\ t.cards = s.cards
           /\ \A q \in Owners : t.owners[q].fingerprint = s.owners[q].fingerprint
           /\ \A q \in Owners : q # o => t.owners[q] = s.owners[q]
<1>1. s.owners[o] \in OwnerEntries /\ s.owners \in [Owners -> OwnerEntries]
  BY SidecarParts
<1>2. \A os : [s EXCEPT !.owners = os] = [owners |-> os, cards |-> s.cards]
  BY DEF Sidecars
<1> DEFINE e == [s.owners[o] EXCEPT !.floored = TRUE]
<1>3. e \in OwnerEntries /\ e.fingerprint = s.owners[o].fingerprint
  BY <1>1 DEF OwnerEntries
<1>4. t = [s EXCEPT !.owners = [s.owners EXCEPT ![o] = e]]
  OBVIOUS
<1> HIDE DEF e
<1> DEFINE r == [owners |-> [s.owners EXCEPT ![o] = e], cards |-> s.cards]
<1>5. /\ r \in Sidecars /\ r.cards = s.cards /\ r.owners[o] = e
      /\ \A q \in Owners : q # o => r.owners[q] = s.owners[q]
  BY <1>3, EntryUpdate
<1>6. t = r
  BY <1>2, <1>4
<1> HIDE DEF r
<1>7. QED
  BY <1>3, <1>5, <1>6

LEMMA EmptyFacts ==
    /\ Empty \in Sidecars
    /\ \A o \in Owners : Empty.owners[o].fingerprint = {} /\ Empty.owners[o].floored
    /\ \A i \in Cards : Empty.cards[i].escalated = FALSE /\ Empty.cards[i].creator = FALSE
BY ReminderAssumption DEF Empty, NoEntry, NoLatch, Sidecars, OwnerEntries, Latches, Contents

LEMMA PrunedFacts ==
    ASSUME NEW s \in Sidecars
    PROVE  /\ pruned(s) \in Sidecars
           /\ \A o \in Owners : pruned(s).owners[o] = IF bucket[o] = {} THEN NoEntry ELSE s.owners[o]
           /\ \A i \in Cards : \/ pruned(s).cards[i] = s.cards[i]
                               \/ /\ \A o \in Owners : i \notin Ids(bucket[o])
                                  /\ pruned(s).cards[i] = NoLatch
<1>1. NoEntry \in OwnerEntries /\ NoLatch \in Latches
  BY ReminderAssumption DEF NoEntry, NoLatch, OwnerEntries, Latches, Contents
<1>2. s.owners \in [Owners -> OwnerEntries] /\ s.cards \in [Cards -> Latches]
  BY SidecarParts
<1> DEFINE os == [o \in Owners |-> IF bucket[o] = {} THEN NoEntry ELSE s.owners[o]]
           cs == [i \in Cards |-> IF \E o \in Owners : i \in Ids(bucket[o])
                                  THEN s.cards[i] ELSE NoLatch]
<1>3. pruned(s) = [owners |-> os, cards |-> cs]
  BY DEF pruned
<1>4. os \in [Owners -> OwnerEntries] /\ cs \in [Cards -> Latches]
  BY <1>1, <1>2
<1>5. \A i \in Cards : \/ cs[i] = s.cards[i]
                       \/ /\ \A o \in Owners : i \notin Ids(bucket[o])
                          /\ cs[i] = NoLatch
  OBVIOUS
<1>6. QED
  BY <1>3, <1>4, <1>5 DEF Sidecars

\* A digest is about cards that may be in it.
LEMMA FingerprintType ==
    ASSUME board \in Boards, NEW o \in Owners
    PROVE  Fingerprint(o) \in Contents
<1>1. \A i \in Actionable(o) : i \in Cards /\ board[i].status \in {"deferred", "in_progress", "blocked"}
  BY DEF Actionable, OwnedBy, detect_stale_active, detect_pending_backlog, is_owner_actionable,
     STALE_ACTIVE_STATUSES, BACKLOG_STATUSES
<1>2. QED
  BY <1>1 DEF Fingerprint, Contents

LEMMA IdsType ==
    ASSUME NEW content \in Contents
    PROVE  Ids(content) \subseteq Cards
BY DEF Contents, Ids

-----------------------------------------------------------------------------
(* Types, and whom a sweep is at.                                          *)

Sound == TypeOK /\ LossesAreFaults /\ Visiting /\ Fresh

LEMMA BucketType ==
    ASSUME TypeOK, NEW o \in Owners
    PROVE  bucket[o] \in Contents /\ Ids(bucket[o]) \subseteq Cards
BY IdsType DEF TypeOK

LEMMA FaultType ==
    ASSUME TypeOK, Fault
    PROVE  faults' \in 0 .. MaxFaults
BY ReminderAssumption DEF Fault, TypeOK

LEMMA StartSound ==
    ASSUME Sound, StartSweep
    PROVE  Sound'
<1>1. \A o \in Owners : Fingerprint(o) \in Contents
  BY FingerprintType DEF Sound, TypeOK
<1>2. /\ bucket' \in [Owners -> Contents] /\ pending' \subseteq Owners
      /\ \A o \in pending' : bucket'[o] # {}
  BY <1>1 DEF StartSweep
<1>3. mem' \in Sidecars /\ faults' \in 0 .. MaxFaults
  BY EmptyFacts, FaultType DEF StartSweep, Sound, TypeOK
<1>4. lost' \in 0 .. MaxFaults /\ lost' <= faults'
  BY ReminderAssumption DEF StartSweep, Fault, Sound, TypeOK, LossesAreFaults
<1>5. /\ opTold' \in [Cards -> Nat] /\ crTold' \in [Cards -> Nat]
      /\ \A i \in Cards : \/ \E o \in Owners : i \in Ids(bucket'[o])
                          \/ opTold'[i] = 0 /\ crTold'[i] = 0
  BY DEF StartSweep, Sound, TypeOK
<1>6. pc' = "pick" /\ UNCHANGED <<world, disk, owner, todo, told, repeats, doubt>>
  BY DEF StartSweep, Goto
<1>7. TypeOK'
  BY <1>2, <1>3, <1>4, <1>5, <1>6 DEF Sound, TypeOK, world
<1>8. QED
  BY <1>2, <1>4, <1>5, <1>6, <1>7 DEF Sound, Visiting, Fresh, LossesAreFaults

LEMMA PickSound ==
    ASSUME Sound, NEW o \in Owners, Pick(o)
    PROVE  Sound'
<1>1. pc = "pick" /\ UNCHANGED <<world, disk, mem, bucket, ghosts, faults>>
  BY DEF Pick
<1>2. owner' = o /\ pending' \subseteq Owners /\ pc' \in {"creator", "due"}
  BY DEF Pick, Goto, Sound, TypeOK
<1>3. /\ todo' \subseteq Cards
      /\ pc' = "creator" => \A i \in todo' : i \in Ids(bucket[o]) /\ ~mem.cards[i].creator
  BY BucketType DEF Pick, Goto, Sound, TypeOK
<1>4. TypeOK'
  BY <1>1, <1>2, <1>3 DEF Sound, TypeOK, world, ghosts
<1>5. Visiting'
  <2>1. bucket[o] # {} /\ \A q \in pending' : bucket[q] # {}
    BY DEF Pick, Sound, Visiting
  <2>2. QED
    BY <1>1, <1>2, <1>3, <2>1 DEF Visiting
<1>6. Fresh'
  BY <1>1 DEF Sound, Fresh, ghosts
<1>7. QED
  BY <1>1, <1>4, <1>5, <1>6 DEF Sound, LossesAreFaults, ghosts

\* After a digest, or none, an urgent card's owner stays the one visited.
LEMMA AfterType ==
    ASSUME TypeOK, owner \in Owners, NEW s \in Sidecars, AfterDigest(s)
    PROVE  /\ pc' \in {"operator", "pick"} /\ todo' \subseteq Cards
           /\ owner' \in Owners \cup {Nobody}
           /\ pc' = "operator" =>
                 /\ owner' = owner
                 /\ \A i \in todo' : i \in Ids(bucket[owner]) /\ ~s.cards[i].escalated
BY BucketType DEF AfterDigest, Goto, TypeOK

LEMMA DueSound ==
    ASSUME Sound, NotDue \/ Suppress \/ Digest
    PROVE  Sound'
<1>1. owner \in Owners /\ pc = "due" /\ bucket[owner] \in Contents /\ mem \in Sidecars
  BY BucketType DEF NotDue, Suppress, Digest, Sound, Visiting, TypeOK
<1>2. UNCHANGED <<world, disk, bucket, pending, opTold, crTold, lost>>
  BY DEF NotDue, Suppress, Digest, ghosts
<1>3. CASE NotDue
  <2>1. pc' = "pick" /\ owner' = Nobody /\ UNCHANGED <<mem, todo, ghosts, faults>>
    BY <1>3 DEF NotDue, Goto
  <2>2. TypeOK'
    BY <1>2, <2>1 DEF Sound, TypeOK, world, ghosts
  <2>3. QED
    BY <1>1, <1>2, <2>1, <2>2 DEF Sound, Visiting, Fresh, LossesAreFaults, ghosts
<1>4. CASE Suppress \/ Digest
  <2>1. mem' \in Sidecars /\ AfterDigest(mem')
    BY <1>1, <1>4, Ticked, NotedFacts DEF Suppress, Digest, Noted
  <2>2. /\ pc' \in {"operator", "pick"} /\ todo' \subseteq Cards
        /\ owner' \in Owners \cup {Nobody}
        /\ pc' = "operator" =>
              /\ owner' = owner
              /\ \A i \in todo' : i \in Ids(bucket[owner]) /\ ~mem'.cards[i].escalated = TRUE
    BY <1>1, <2>1, AfterType DEF Sound
  <2>3. /\ told' \in [Owners -> [content : Contents, floored : BOOLEAN]]
        /\ repeats' \in [Owners -> Nat] /\ doubt' \subseteq Owners
    <3>1. told' = told \/ told' = [told EXCEPT ![owner] = [content |-> bucket[owner], floored |-> FALSE]]
      BY <1>4 DEF Suppress, Digest, ghosts
    <3>2. told' \in [Owners -> [content : Contents, floored : BOOLEAN]]
      <4>1. [content |-> bucket[owner], floored |-> FALSE] \in [content : Contents, floored : BOOLEAN]
        BY <1>1
      <4>2. QED
        BY <1>1, <3>1, <4>1 DEF Sound, TypeOK
    <3>3. repeats' \in [Owners -> Nat]
      BY <1>1, <1>4 DEF Suppress, Digest, ghosts, Sound, TypeOK
    <3>4. doubt' \subseteq Owners
      BY <1>1, <1>4 DEF Suppress, Digest, ghosts, Sound, TypeOK
    <3>5. QED
      BY <3>2, <3>3, <3>4
  <2>4. faults' \in 0 .. MaxFaults /\ faults <= faults'
    BY <1>4, FaultType DEF Suppress, Digest, Fault, Sound, TypeOK
  <2>5. TypeOK'
    BY <1>2, <2>1, <2>2, <2>3, <2>4 DEF Sound, TypeOK, world
  <2>6. LossesAreFaults'
    BY <1>2, <2>4, <2>5 DEF Sound, TypeOK, LossesAreFaults
  <2>7. QED
    BY <1>1, <1>2, <2>2, <2>5, <2>6 DEF Sound, Visiting, Fresh
<1>5. QED
  BY <1>3, <1>4

LEMMA EscalateSound ==
    ASSUME Sound, NEW i \in Cards, EscalateToCreator(i) \/ EscalateToOperator(i)
    PROVE  Sound'
<1>1. owner \in Owners /\ i \in todo /\ i \in Ids(bucket[owner]) /\ mem \in Sidecars
  BY DEF EscalateToCreator, EscalateToOperator, Sound, Visiting, TypeOK
<1>2. UNCHANGED <<world, disk, bucket, pending, told, repeats, doubt, lost>>
  BY DEF EscalateToCreator, EscalateToOperator
<1>3. todo' = todo \ {i} /\ faults' \in 0 .. MaxFaults /\ faults <= faults'
  BY FaultType DEF EscalateToCreator, EscalateToOperator, Fault, Sound, TypeOK
<1>0. LossesAreFaults'
  BY <1>2, <1>3 DEF Sound, TypeOK, LossesAreFaults
<1>4. CASE EscalateToCreator(i)
  <2>1. /\ pc' \in {"due", "creator"} /\ UNCHANGED <<owner, opTold>>
        /\ pc = "creator"
    BY <1>4 DEF EscalateToCreator, Goto
  <2>2. /\ mem' \in Sidecars
        /\ \A j \in todo' : ~mem.cards[j].creator => ~mem'.cards[j].creator
    <3>1. mem' = mem \/ mem' = CreatorTold(mem, i)
      BY <1>4 DEF EscalateToCreator, CreatorTold
    <3>2. \A j \in todo' : j \in Cards /\ j # i
      BY <1>3 DEF Sound, TypeOK
    <3>3. CASE mem' = mem
      BY <1>1, <3>3
    <3>4. CASE mem' = CreatorTold(mem, i)
      <4>1. mem \in Sidecars
        BY <1>1
      <4>2. /\ mem' \in Sidecars /\ \A j \in Cards : j # i => mem'.cards[j] = mem.cards[j]
        BY <3>4, <4>1, CreatorFacts
      <4>3. QED
        BY <3>2, <4>2
    <3>5. QED
      BY <3>1, <3>3, <3>4
  <2>3. crTold' \in [Cards -> Nat] /\ \A j \in Cards : j # i => crTold'[j] = crTold[j]
    BY <1>4 DEF EscalateToCreator, Sound, TypeOK
  <2>4. TypeOK'
    BY <1>2, <1>3, <2>1, <2>2, <2>3 DEF Sound, TypeOK, world
  <2>5. Visiting'
    BY <1>1, <1>2, <1>3, <2>1, <2>2 DEF Sound, Visiting
  <2>6. QED
    BY <1>0, <1>1, <1>2, <2>1, <2>3, <2>4, <2>5 DEF Sound, Fresh
<1>5. CASE EscalateToOperator(i)
  <2>1. /\ pc = "operator" /\ UNCHANGED crTold
        /\ (pc' = "operator" /\ owner' = owner) \/ (pc' = "pick" /\ owner' = Nobody)
    BY <1>5 DEF EscalateToOperator, Goto
  <2>2. /\ mem' \in Sidecars
        /\ \A j \in todo' : ~mem.cards[j].escalated => ~mem'.cards[j].escalated
    <3>1. mem' = mem \/ mem' = OperatorTold(mem, i)
      BY <1>5 DEF EscalateToOperator, OperatorTold
    <3>2. \A j \in todo' : j \in Cards /\ j # i
      BY <1>3 DEF Sound, TypeOK
    <3>3. CASE mem' = mem
      BY <1>1, <3>3
    <3>4. CASE mem' = OperatorTold(mem, i)
      <4>1. mem \in Sidecars
        BY <1>1
      <4>2. /\ mem' \in Sidecars /\ \A j \in Cards : j # i => mem'.cards[j] = mem.cards[j]
        BY <3>4, <4>1, EscalatedFacts
      <4>3. QED
        BY <3>2, <4>2
    <3>5. QED
      BY <3>1, <3>3, <3>4
  <2>3. opTold' \in [Cards -> Nat] /\ \A j \in Cards : j # i => opTold'[j] = opTold[j]
    BY <1>5 DEF EscalateToOperator, Sound, TypeOK
  <2>4. TypeOK'
    BY <1>2, <1>3, <2>1, <2>2, <2>3 DEF Sound, TypeOK, world
  <2>5. Visiting'
    BY <1>1, <1>2, <1>3, <2>1, <2>2 DEF Sound, Visiting
  <2>6. QED
    BY <1>0, <1>1, <1>2, <2>1, <2>3, <2>4, <2>5 DEF Sound, Fresh
<1>6. QED
  BY <1>4, <1>5

LEMMA OverSound ==
    ASSUME Sound, EndSweep \/ LoseSweep
    PROVE  Sound'
<1>1. /\ pc' = "idle" /\ mem' = Empty /\ owner' = Nobody /\ todo' = {} /\ pending' = {}
      /\ bucket' = [o \in Owners |-> {}]
      /\ UNCHANGED <<world, repeats, opTold, crTold>>
  BY DEF EndSweep, LoseSweep, Forget, Goto
<1>2. disk' \in Sidecars
  BY PrunedFacts DEF EndSweep, LoseSweep, Sound, TypeOK
<1>3. {} \in Contents
  BY DEF Contents
<1>4. told' \in [Owners -> [content : Contents, floored : BOOLEAN]] /\ doubt' \subseteq Owners
  <2>1. [content |-> {}, floored |-> TRUE] \in [content : Contents, floored : BOOLEAN]
    BY <1>3
  <2>2. doubt' \subseteq Owners
    BY DEF EndSweep, LoseSweep, Untold, Sound, TypeOK
  <2>3. CASE EndSweep
    BY <2>1, <2>2, <2>3 DEF EndSweep, Sound, TypeOK
  <2>4. CASE LoseSweep
    BY <2>2, <2>4 DEF LoseSweep, Sound, TypeOK
  <2>5. QED
    BY <2>3, <2>4
<1>5. lost' \in 0 .. MaxFaults /\ faults' \in 0 .. MaxFaults /\ lost' <= faults'
  BY ReminderAssumption DEF EndSweep, LoseSweep, Fault, Sound, TypeOK, LossesAreFaults
<1>6. TypeOK'
  BY <1>1, <1>2, <1>3, <1>4, <1>5, EmptyFacts DEF Sound, TypeOK, world
<1>7. QED
  BY <1>1, <1>5, <1>6 DEF Sound, Visiting, Fresh, LossesAreFaults

LEMMA WorldSound ==
    ASSUME Sound,
           \/ \E i \in Cards : Touch(i) \/ Idle(i)
           \/ \E o \in Owners : SeenOrNot(o) \/ Wait(o) \/ WaitFloor(o)
    PROVE  Sound'
<1>1. UNCHANGED <<sweep, repeats, opTold, crTold, doubt, lost, faults>>
  BY DEF Touch, Idle, SeenOrNot, Wait, WaitFloor, ghosts
<1>2. board' \in Boards
  <2>1. ASSUME NEW i \in Cards, Touch(i)
        PROVE  board' \in Boards
    BY <2>1, TouchAssumption DEF Touch, Sound, TypeOK, Boards
  <2>2. ASSUME NEW i \in Cards, Idle(i)
        PROVE  board' \in Boards
    <3>1. board' = [board EXCEPT ![i] = [board[i] EXCEPT !.idle = board[i].idle + 1]]
      BY <2>2 DEF Idle, Sound, TypeOK, Boards
    <3>2. board[i] \in CardStates /\ board[i].idle + 1 \in 0 .. MaxIdle
      BY <2>2, IdleAssumption DEF Idle, Sound, TypeOK, Boards, CardStates
    <3>3. [board[i] EXCEPT !.idle = board[i].idle + 1] \in CardStates
      BY <3>2 DEF CardStates
    <3>4. QED
      BY <3>1, <3>3 DEF Sound, TypeOK, Boards
  <2>3. CASE UNCHANGED board
    BY <2>3 DEF Sound, TypeOK
  <2>4. QED
    BY <2>1, <2>2, <2>3 DEF SeenOrNot, Wait, WaitFloor, world
<1>3. alive' \subseteq Registered
  BY DEF Touch, Idle, SeenOrNot, Wait, WaitFloor, world, Sound, TypeOK
<1>4. disk' \in Sidecars
  <2>1. ASSUME NEW o \in Owners, Wait(o) \/ WaitFloor(o)
        PROVE  disk' \in Sidecars
    <3>1. CASE Wait(o)
      <4>1. disk \in Sidecars /\ disk.owners[o].last < 2 /\ disk' = [disk EXCEPT !.owners[o].last = @ + 1]
        BY <3>1 DEF Wait, Sound, TypeOK
      <4>2. QED
        BY <4>1, OutlivedFacts, Zenon
    <3>2. CASE WaitFloor(o)
      <4>1. disk \in Sidecars /\ disk' = [disk EXCEPT !.owners[o].floored = TRUE]
        BY <3>2 DEF WaitFloor, Sound, TypeOK
      <4>2. QED
        BY <4>1, FlooredFacts, Zenon
    <3>3. QED
      BY <2>1, <3>1, <3>2
  <2>2. CASE UNCHANGED disk
    BY <2>2 DEF Sound, TypeOK
  <2>3. QED
    BY <2>1, <2>2 DEF Touch, Idle, SeenOrNot
<1>5. told' \in [Owners -> [content : Contents, floored : BOOLEAN]]
  <2>1. CASE UNCHANGED told
    BY <2>1 DEF Sound, TypeOK
  <2>2. ASSUME NEW o \in Owners, WaitFloor(o)
        PROVE  told' \in [Owners -> [content : Contents, floored : BOOLEAN]]
    <3>1. told \in [Owners -> [content : Contents, floored : BOOLEAN]]
      BY DEF Sound, TypeOK
    <3>2. told' = [told EXCEPT ![o].floored = TRUE]
      BY <2>2 DEF WaitFloor
    <3>3. [told[o] EXCEPT !.floored = TRUE] \in [content : Contents, floored : BOOLEAN]
      BY <3>1
    <3>4. QED
      BY <3>1, <3>2, <3>3
  <2>3. (\E o \in Owners : WaitFloor(o)) \/ UNCHANGED told
    BY DEF Touch, Idle, SeenOrNot, Wait, ghosts
  <2>4. QED
    BY <2>1, <2>2, <2>3
<1>6. TypeOK'
  BY <1>1, <1>2, <1>3, <1>4, <1>5 DEF Sound, TypeOK, sweep
<1>7. QED
  BY <1>1, <1>6 DEF Sound, Visiting, Fresh, LossesAreFaults, sweep

LEMMA SoundStep == Sound /\ [Next]_vars => Sound'
<1> SUFFICES ASSUME Sound, [Next]_vars PROVE Sound'
  OBVIOUS
<1>1. CASE UNCHANGED vars
  BY <1>1 DEF vars, world, sweep, ghosts, Sound, TypeOK, Visiting, Fresh, LossesAreFaults
<1>2. CASE Next
  BY <1>2, StartSound, PickSound, DueSound, EscalateSound, OverSound, WorldSound DEF Next, Sweep
<1>3. QED
  BY <1>1, <1>2

LEMMA SoundInit == Init => Sound
<1> SUFFICES ASSUME Init PROVE Sound
  OBVIOUS
<1>1. board \in Boards
  BY TouchAssumption DEF Init, FreshBoards, Boards
<1>2. {} \in Contents /\ 0 \in 0 .. MaxFaults
  BY ReminderAssumption DEF Contents
<1>3. TypeOK
  BY <1>1, <1>2, EmptyFacts DEF Init, TypeOK
<1>4. QED
  BY <1>3 DEF Init, Sound, Visiting, Fresh, LossesAreFaults

\* The types hold, and what a sweep escalates is stale and not latched yet.
THEOREM TypesHold == Spec => [](TypeOK /\ Visiting /\ Fresh)
<1>1. QED
  BY SoundInit, SoundStep, PTL DEF Spec, Sound

-----------------------------------------------------------------------------
(* The counts.                                                             *)

Counts == Latched /\ Repeated /\ Informed

LEMMA Numbers ==
    ASSUME TypeOK
    PROVE  /\ lost \in Nat /\ opTold \in [Cards -> Nat] /\ crTold \in [Cards -> Nat]
           /\ repeats \in [Owners -> Nat]
           /\ disk \in Sidecars /\ mem \in Sidecars /\ Known \in Sidecars
BY ReminderAssumption DEF TypeOK, Known

\* A step that changes nothing that is known or was told.
LEMMA StillCounts ==
    ASSUME TypeOK, Counts, UNCHANGED <<opTold, crTold, repeats, doubt, lost>>,
           Known'.cards = Known.cards,
           \A o \in Owners :
               /\ told'[o].content = told[o].content
               /\ Known'.owners[o].fingerprint = Known.owners[o].fingerprint
               /\ \/ told'[o].floored
                  \/ /\ told'[o].floored = told[o].floored
                     /\ Known'.owners[o].floored = Known.owners[o].floored
    PROVE  Counts'
<1>1. \A o \in Owners : UpToDate(o) => UpToDate(o)'
  BY DEF UpToDate
<1>2. Repeated'
  <2>1. SUFFICES ASSUME NEW o \in Owners
                 PROVE  repeats[o] + (IF UpToDate(o)' THEN 0 ELSE 1) <= lost
    BY DEF Repeated
  <2>2. CASE UpToDate(o)
    BY <1>1, <2>2 DEF Counts, Repeated
  <2>3. CASE ~UpToDate(o)
    <3>1. repeats[o] + 1 <= lost
      BY <2>3 DEF Counts, Repeated
    <3>2. QED
      BY <3>1, Numbers
  <2>4. QED
    BY <2>2, <2>3
<1>3. QED
  BY <1>2 DEF Counts, Latched, Informed

LEMMA AtMostOne ==
    ASSUME TypeOK, Counts
    PROVE  /\ \A i \in Cards : opTold[i] <= lost + 1 /\ crTold[i] <= lost + 1
           /\ \A o \in Owners : repeats[o] <= lost
<1>1. ASSUME NEW i \in Cards
      PROVE  opTold[i] <= lost + 1 /\ crTold[i] <= lost + 1
  <2>1. /\ opTold[i] <= lost + 0 \/ opTold[i] <= lost + 1
        /\ crTold[i] <= lost + 0 \/ crTold[i] <= lost + 1
    BY DEF Counts, Latched
  <2>2. QED
    BY <2>1, Numbers
<1>2. ASSUME NEW o \in Owners
      PROVE  repeats[o] <= lost
  <2>1. repeats[o] <= lost \/ repeats[o] + 1 <= lost
    BY Numbers DEF Counts, Repeated
  <2>2. QED
    BY <2>1, Numbers
<1>3. QED
  BY <1>1, <1>2

\* A sweep is lost: one more of each may be told again.
LEMMA LossCounts ==
    ASSUME TypeOK, Counts, lost' = lost + 1, UNCHANGED <<told, repeats>>,
           \A i \in Cards : opTold'[i] \in {0, opTold[i]} /\ crTold'[i] \in {0, crTold[i]},
           \A o \in Owners : Known'.owners[o].fingerprint \in {{}, told[o].content} \/ o \in doubt'
    PROVE  Counts'
<1>1. Latched'
  <2>1. SUFFICES ASSUME NEW i \in Cards
                 PROVE  opTold'[i] <= lost + 1 /\ crTold'[i] <= lost + 1
    BY Numbers DEF Latched
  <2>2. QED
    BY AtMostOne, Numbers
<1>2. Repeated'
  BY AtMostOne, Numbers DEF Repeated
<1>3. QED
  BY <1>1, <1>2 DEF Counts, Informed

LEMMA StartCounts ==
    ASSUME Sound, Counts, StartSweep
    PROVE  Counts'
<1>1. /\ pc = "idle" /\ pc' = "pick" /\ UNCHANGED <<told, repeats, doubt>>
      /\ \A i \in Cards : opTold'[i] \in {0, opTold[i]} /\ crTold'[i] \in {0, crTold[i]}
  BY DEF StartSweep, Goto
<1>2. CASE mem' = disk /\ UNCHANGED lost
  <2>1. Known' = Known
    BY <1>1, <1>2 DEF Known
  <2>2. Latched'
    BY <1>1, <1>2, <2>1, Numbers DEF Counts, Latched, Sound
  <2>3. QED
    BY <1>1, <1>2, <2>1, <2>2 DEF Counts, Repeated, Informed, UpToDate
<1>3. CASE mem' = Empty /\ lost' = lost + 1
  <2>1. Known' = Empty
    BY <1>1, <1>3 DEF Known
  <2>2. QED
    BY <1>1, <1>3, <2>1, EmptyFacts, LossCounts DEF Sound
<1>4. QED
  BY <1>2, <1>3 DEF StartSweep

LEMMA QuietCounts ==
    ASSUME Sound, Counts, (\E o \in Owners : Pick(o)) \/ NotDue \/ Suppress
    PROVE  Counts'
<1>1. /\ pc # "idle" /\ pc' # "idle" /\ UNCHANGED <<opTold, crTold, told, repeats, doubt, lost>>
      /\ mem' = mem \/ (owner \in Owners /\ mem' = ticked(mem))
  BY DEF Pick, NotDue, Suppress, AfterDigest, Goto, ghosts, Sound, Visiting
<1>2. Known = mem /\ Known' = mem'
  BY <1>1 DEF Known
<1>3. /\ mem'.cards = mem.cards
      /\ \A o \in Owners : /\ mem'.owners[o].fingerprint = mem.owners[o].fingerprint
                           /\ mem'.owners[o].floored = mem.owners[o].floored
  BY <1>1, Numbers, Ticked DEF Sound
<1>4. QED
  BY <1>1, <1>2, <1>3, StillCounts DEF Sound

LEMMA DigestCounts ==
    ASSUME Sound, Counts, Digest
    PROVE  Counts'
<1>1. /\ owner \in Owners /\ pc = "due" /\ pc' # "idle" /\ bucket[owner] \in Contents
      /\ UNCHANGED <<opTold, crTold, lost>>
      /\ ~suppress(mem.owners[owner], bucket[owner])
  BY BucketType DEF Digest, AfterDigest, Goto, Sound, Visiting
<1>2. Known = mem /\ Known' = mem' /\ mem \in Sidecars
  BY <1>1, Numbers DEF Known, Sound
<1>3. CASE mem' = ticked(mem) /\ UNCHANGED <<told, repeats, doubt>>
  BY <1>1, <1>2, <1>3, Ticked, StillCounts DEF Sound
<1>4. CASE /\ mem' = Noted(ticked(mem))
           /\ told' = [told EXCEPT ![owner] = [content |-> bucket[owner], floored |-> FALSE]]
           /\ repeats' = [repeats EXCEPT ![owner] =
                 IF told[owner].content = bucket[owner] /\ ~told[owner].floored
                   THEN @ + 1 ELSE @]
           /\ doubt' = doubt \ {owner}
  <2>1. /\ mem'.cards = mem.cards
        /\ mem'.owners[owner].fingerprint = bucket[owner] /\ ~mem'.owners[owner].floored
        /\ \A o \in Owners : o # owner =>
              /\ mem'.owners[o].fingerprint = mem.owners[o].fingerprint
              /\ mem'.owners[o].floored = mem.owners[o].floored
    BY <1>1, <1>2, <1>4, Ticked, NotedFacts
  <2>2. /\ told'[owner].content = bucket[owner]
        /\ \A o \in Owners : o # owner => told'[o] = told[o]
    BY <1>1, <1>4 DEF Sound, TypeOK
  <2>3. \A o \in Owners : o = owner \/ UpToDate(o) => UpToDate(o)'
    <3>1. ASSUME NEW o \in Owners, o = owner
          PROVE  UpToDate(o)'
      BY <1>1, <1>2, <2>1, <2>2, <3>1 DEF UpToDate
    <3>2. ASSUME NEW o \in Owners, o # owner, UpToDate(o)
          PROVE  UpToDate(o)'
      BY <1>2, <2>1, <2>2, <3>2 DEF UpToDate
    <3>3. QED
      BY <3>1, <3>2
  <2>4. Latched'
    BY <1>1, <1>2, <2>1 DEF Counts, Latched
  <2>5. Informed'
    BY <1>2, <1>4, <2>1, <2>2 DEF Counts, Informed
  <2>6. repeats'[owner] <= lost
    <3>1. CASE told[owner].content = bucket[owner] /\ ~told[owner].floored
      <4>1. ~UpToDate(owner)
        BY <1>1, <1>2, <3>1 DEF UpToDate, suppress
      <4>2. repeats[owner] + 1 <= lost
        BY <1>1, <4>1 DEF Counts, Repeated
      <4>3. QED
        BY <1>1, <1>4, <3>1, <4>2, Numbers DEF Sound
    <3>2. CASE ~(told[owner].content = bucket[owner] /\ ~told[owner].floored)
      BY <1>1, <1>4, <3>2, Numbers, AtMostOne DEF Sound
    <3>3. QED
      BY <3>1, <3>2
  <2>7. repeats'[owner] \in Nat /\ \A o \in Owners : o # owner => repeats'[o] = repeats[o]
    BY <1>1, <1>4, Numbers DEF Sound
  <2>8. Repeated'
    <3>1. SUFFICES ASSUME NEW o \in Owners
                   PROVE  repeats'[o] + (IF UpToDate(o)' THEN 0 ELSE 1) <= lost
      BY <1>1 DEF Repeated
    <3>2. CASE o = owner
      BY <2>3, <2>6, <2>7, <3>2, Numbers DEF Sound
    <3>3. CASE o # owner
      <4>1. repeats[o] + (IF UpToDate(o) THEN 0 ELSE 1) <= lost
        BY DEF Counts, Repeated
      <4>2. CASE UpToDate(o)
        BY <2>3, <2>7, <3>3, <4>1, <4>2
      <4>3. CASE ~UpToDate(o)
        BY <2>7, <3>3, <4>1, <4>3, Numbers DEF Sound
      <4>4. QED
        BY <4>2, <4>3
    <3>4. QED
      BY <3>2, <3>3
  <2>9. QED
    BY <2>4, <2>5, <2>8 DEF Counts
<1>5. QED
  BY <1>3, <1>4 DEF Digest, Noted

LEMMA EscalateCounts ==
    ASSUME Sound, Counts, NEW i \in Cards, EscalateToCreator(i) \/ EscalateToOperator(i)
    PROVE  Counts'
<1>1. /\ pc # "idle" /\ pc' # "idle" /\ i \in todo /\ mem \in Sidecars
      /\ UNCHANGED <<told, repeats, doubt, lost>>
  BY DEF EscalateToCreator, EscalateToOperator, Goto, Sound, TypeOK
<1>2. Known = mem /\ Known' = mem'
  BY <1>1 DEF Known
<1>3. CASE UNCHANGED <<mem, opTold, crTold>>
  BY <1>1, <1>2, <1>3, StillCounts DEF Sound
<1>4. CASE /\ EscalateToCreator(i) /\ mem' = CreatorTold(mem, i)
           /\ crTold' = [crTold EXCEPT ![i] = @ + 1] /\ UNCHANGED opTold
  <2>1. ~mem.cards[i].creator
    BY <1>1, <1>4 DEF EscalateToCreator, Sound, Visiting
  <2>2. /\ mem'.owners = mem.owners /\ mem'.cards[i].creator = TRUE
        /\ mem'.cards[i].escalated = mem.cards[i].escalated
        /\ \A j \in Cards : j # i => mem'.cards[j] = mem.cards[j]
    <3>1. mem' = CreatorTold(mem, i)
      BY <1>4
    <3>2. /\ mem' \in Sidecars /\ mem'.owners = mem.owners
          /\ mem'.cards[i].creator = TRUE /\ mem'.cards[i].escalated = mem.cards[i].escalated
          /\ \A j \in Cards : j # i => mem'.cards[j] = mem.cards[j]
      <4>1. mem \in Sidecars
        BY <1>1
      <4>2. QED
        BY <3>1, <4>1, CreatorFacts
    <3>3. QED
      BY <3>2
  <2>3. /\ crTold[i] <= lost + 0 /\ crTold'[i] = crTold[i] + 1
        /\ \A j \in Cards : j # i => crTold'[j] = crTold[j]
    BY <1>2, <1>4, <2>1, Numbers DEF Sound, Counts, Latched
  <2>4. Latched'
    BY <1>1, <1>2, <1>4, <2>2, <2>3, Numbers DEF Sound, Counts, Latched
  <2>5. QED
    BY <1>1, <1>2, <2>2, <2>4 DEF Counts, Repeated, Informed, UpToDate
<1>5. CASE /\ EscalateToOperator(i) /\ mem' = OperatorTold(mem, i)
           /\ opTold' = [opTold EXCEPT ![i] = @ + 1] /\ UNCHANGED crTold
  <2>1. ~mem.cards[i].escalated
    BY <1>1, <1>5 DEF EscalateToOperator, Sound, Visiting
  <2>2. /\ mem'.owners = mem.owners /\ mem'.cards[i].escalated = TRUE
        /\ mem'.cards[i].creator = mem.cards[i].creator
        /\ \A j \in Cards : j # i => mem'.cards[j] = mem.cards[j]
    <3>1. mem' = OperatorTold(mem, i)
      BY <1>5
    <3>2. /\ mem' \in Sidecars /\ mem'.owners = mem.owners
          /\ mem'.cards[i].escalated = TRUE /\ mem'.cards[i].creator = mem.cards[i].creator
          /\ \A j \in Cards : j # i => mem'.cards[j] = mem.cards[j]
      <4>1. mem \in Sidecars
        BY <1>1
      <4>2. QED
        BY <3>1, <4>1, EscalatedFacts
    <3>3. QED
      BY <3>2
  <2>3. /\ opTold[i] <= lost + 0 /\ opTold'[i] = opTold[i] + 1
        /\ \A j \in Cards : j # i => opTold'[j] = opTold[j]
    BY <1>2, <1>5, <2>1, Numbers DEF Sound, Counts, Latched
  <2>4. Latched'
    BY <1>1, <1>2, <1>5, <2>2, <2>3, Numbers DEF Sound, Counts, Latched
  <2>5. QED
    BY <1>1, <1>2, <2>2, <2>4 DEF Counts, Repeated, Informed, UpToDate
<1>6. QED
  BY <1>3, <1>4, <1>5 DEF EscalateToCreator, EscalateToOperator, CreatorTold, OperatorTold

LEMMA EndCounts ==
    ASSUME Sound, Counts, EndSweep
    PROVE  Counts'
<1>1. /\ pc = "pick" /\ pc' = "idle" /\ disk' = pruned(mem) /\ mem \in Sidecars
      /\ UNCHANGED <<repeats, opTold, crTold, lost>>
      /\ told' = [o \in Owners |-> IF bucket[o] = {}
                                     THEN [content |-> {}, floored |-> TRUE] ELSE told[o]]
      /\ doubt' = {o \in doubt : bucket[o] # {}}
  BY DEF EndSweep, Forget, Goto, Sound, TypeOK
<1>2. Known = mem /\ Known' = pruned(mem)
  BY <1>1 DEF Known
<1>3. Latched'
  <2>1. SUFFICES ASSUME NEW i \in Cards
        PROVE  /\ opTold[i] <= lost + (IF pruned(mem).cards[i].escalated THEN 1 ELSE 0)
               /\ crTold[i] <= lost + (IF pruned(mem).cards[i].creator THEN 1 ELSE 0)
    BY <1>1, <1>2 DEF Latched
  <2>2. CASE pruned(mem).cards[i] = mem.cards[i]
    BY <1>2, <2>2 DEF Counts, Latched
  <2>3. CASE pruned(mem).cards[i] # mem.cards[i]
    <3>1. opTold[i] = 0 /\ crTold[i] = 0
      BY <1>1, <2>3, PrunedFacts DEF Sound, Fresh
    <3>2. QED
      BY <3>1, Numbers DEF Sound
  <2>4. QED
    BY <2>2, <2>3
<1>4. ASSUME NEW o \in Owners
      PROVE  /\ repeats[o] + (IF UpToDate(o)' THEN 0 ELSE 1) <= lost
             /\ Known'.owners[o].fingerprint \in {{}, told'[o].content} \/ o \in doubt'
  <2>1. CASE bucket[o] = {}
    <3>1. pruned(mem).owners[o] = NoEntry /\ told'[o] = [content |-> {}, floored |-> TRUE]
      BY <1>1, <2>1, PrunedFacts
    <3>2. UpToDate(o)' /\ Known'.owners[o].fingerprint = {}
      BY <1>2, <3>1 DEF UpToDate, NoEntry
    <3>3. QED
      BY <3>2, AtMostOne, Numbers DEF Sound
  <2>2. CASE bucket[o] # {}
    <3>1. /\ pruned(mem).owners[o] = mem.owners[o] /\ told'[o] = told[o]
          /\ o \in doubt => o \in doubt'
      BY <1>1, <2>2, PrunedFacts
    <3>2. UpToDate(o)' <=> UpToDate(o)
      BY <1>2, <3>1 DEF UpToDate
    <3>3. QED
      BY <1>2, <3>1, <3>2 DEF Counts, Repeated, Informed
  <2>3. QED
    BY <2>1, <2>2
<1>5. QED
  BY <1>1, <1>3, <1>4 DEF Counts, Repeated, Informed

LEMMA LoseCounts ==
    ASSUME Sound, Counts, LoseSweep
    PROVE  Counts'
<1>1. /\ pc' = "idle" /\ disk' = disk /\ lost' = lost + 1
      /\ UNCHANGED <<told, repeats, opTold, crTold>>
      /\ doubt' = doubt \cup Untold(disk)
  BY DEF LoseSweep, Forget, Goto
<1>2. Known' = disk
  BY <1>1 DEF Known
<1>3. \A o \in Owners : disk.owners[o].fingerprint \in {{}, told[o].content} \/ o \in doubt'
  BY <1>1 DEF Untold
<1>4. QED
  BY <1>1, <1>2, <1>3, LossCounts DEF Sound

LEMMA WorldCounts ==
    ASSUME Sound, Counts,
           \/ \E i \in Cards : Touch(i) \/ Idle(i)
           \/ \E o \in Owners : SeenOrNot(o) \/ Wait(o) \/ WaitFloor(o)
    PROVE  Counts'
<1>1. UNCHANGED <<sweep, repeats, opTold, crTold, doubt, lost>> /\ disk \in Sidecars
  BY DEF Touch, Idle, SeenOrNot, Wait, WaitFloor, ghosts, Sound, TypeOK
<1>2. CASE UNCHANGED <<disk, told>>
  <2>1. Known' = Known
    BY <1>1, <1>2 DEF Known, sweep
  <2>2. QED
    BY <1>1, <1>2, <2>1, StillCounts DEF Sound
<1>3. ASSUME NEW o \in Owners, Wait(o)
      PROVE  Counts'
  <2>1. pc = "idle" /\ disk' = [disk EXCEPT !.owners[o].last = @ + 1]
        /\ disk.owners[o].last < 2 /\ told' = told
    BY <1>3 DEF Wait, ghosts
  <2>2. /\ disk'.cards = disk.cards
        /\ \A q \in Owners : /\ disk'.owners[q].fingerprint = disk.owners[q].fingerprint
                             /\ disk'.owners[q].floored = disk.owners[q].floored
    <3>1. disk' = [disk EXCEPT !.owners[o].last = @ + 1] /\ disk.owners[o].last < 2
      BY <2>1
    <3>2. QED
      BY <1>1, <3>1, OutlivedFacts
  <2>3. Known = disk /\ Known' = disk'
    BY <1>1, <2>1 DEF Known, sweep
  <2>4. QED
    BY <1>1, <2>1, <2>2, <2>3, StillCounts DEF Sound
<1>4. ASSUME NEW o \in Owners, WaitFloor(o)
      PROVE  Counts'
  <2>1. pc = "idle" /\ disk' = [disk EXCEPT !.owners[o].floored = TRUE]
        /\ told' = [told EXCEPT ![o].floored = TRUE]
    BY <1>4 DEF WaitFloor
  <2>2. /\ disk'.cards = disk.cards
        /\ \A q \in Owners : disk'.owners[q].fingerprint = disk.owners[q].fingerprint
        /\ \A q \in Owners : q # o => disk'.owners[q] = disk.owners[q]
    <3>1. disk' = [disk EXCEPT !.owners[o].floored = TRUE]
      BY <2>1
    <3>2. QED
      BY <1>1, <3>1, FlooredFacts
  <2>3. /\ told'[o].content = told[o].content /\ told'[o].floored
        /\ \A q \in Owners : q # o => told'[q] = told[q]
    BY <2>1 DEF Sound, TypeOK
  <2>4. Known = disk /\ Known' = disk'
    BY <1>1, <2>1 DEF Known, sweep
  <2>5. QED
    BY <1>1, <2>2, <2>3, <2>4, StillCounts DEF Sound
<1>5. QED
  BY <1>2, <1>3, <1>4 DEF Touch, Idle, SeenOrNot, ghosts

LEMMA CountsStep == Sound /\ Counts /\ [Next]_vars => Counts'
<1> SUFFICES ASSUME Sound, Counts, [Next]_vars PROVE Counts'
  OBVIOUS
<1>1. CASE UNCHANGED vars
  <2>1. Known' = Known
    BY <1>1 DEF vars, sweep, Known
  <2>2. QED
    BY <1>1, <2>1, StillCounts DEF Sound, vars, ghosts
<1>2. CASE Next
  BY <1>2, StartCounts, QuietCounts, DigestCounts, EscalateCounts, EndCounts, LoseCounts,
     WorldCounts DEF Next, Sweep
<1>3. QED
  BY <1>1, <1>2

LEMMA CountsInit == Init => Counts
<1> SUFFICES ASSUME Init PROVE Counts
  OBVIOUS
<1>1. Known = Empty
  BY DEF Init, Known
<1>2. Latched
  <2>1. \A i \in Cards : opTold[i] = 0 /\ crTold[i] = 0 /\ lost = 0
    BY DEF Init
  <2>2. QED
    <3>1. SUFFICES ASSUME NEW i \in Cards
          PROVE  /\ opTold[i] <= lost + (IF Empty.cards[i].escalated THEN 1 ELSE 0)
                 /\ crTold[i] <= lost + (IF Empty.cards[i].creator THEN 1 ELSE 0)
      BY <1>1 DEF Latched
    <3>2. /\ (IF Empty.cards[i].escalated THEN 1 ELSE 0) = 0
          /\ (IF Empty.cards[i].creator THEN 1 ELSE 0) = 0
      BY EmptyFacts, Zenon
    <3>3. QED
      BY <2>1, <3>2
<1>3. \A o \in Owners : UpToDate(o) /\ repeats[o] = 0 /\ lost = 0
  BY <1>1, EmptyFacts DEF Init, UpToDate
<1>4. QED
  BY <1>1, <1>2, <1>3, EmptyFacts DEF Counts, Repeated, Informed

LEMMA CountsAlways == Spec => [](Sound /\ Counts)
<1>1. QED
  BY SoundInit, SoundStep, CountsInit, CountsStep, PTL DEF Spec

\* Within a streak the operator hears of a card once, and so does its creator;
\* each lost sweep may add one (_reminders.py, the escalation latches).
THEOREM EscalatedOnce == Spec => []OncePerStreak
<1>1. Sound /\ Counts => OncePerStreak
  <2>1. SUFFICES ASSUME Sound, Counts, NEW i \in Cards
                 PROVE  opTold[i] <= 1 + lost /\ crTold[i] <= 1 + lost
    BY DEF OncePerStreak
  <2>2. 1 + lost = lost + 1
    BY <2>1, Numbers DEF Sound
  <2>3. QED
    BY <2>1, <2>2, AtMostOne DEF Sound
<1>2. QED
  BY <1>1, CountsAlways, PTL

\* A digest is news to the owner it reaches, and one that is held back would
\* not have been (_reminders.py, the fingerprint and the floor).
THEOREM OnlyNewsIsSent == Spec => DigestIsNews
<1>1. Sound /\ Counts => NotRepeated
  BY AtMostOne DEF Sound, NotRepeated
<1>2. Sound /\ Counts /\ Suppress => owner \in doubt \/ told[owner].content = bucket[owner]
  <2>1. SUFFICES ASSUME Sound, Counts, Suppress, owner \notin doubt
                 PROVE  told[owner].content = bucket[owner]
    OBVIOUS
  <2>2. owner \in Owners /\ Known = mem /\ mem.owners[owner].fingerprint = bucket[owner]
    BY <2>1 DEF Suppress, suppress, Sound, Visiting, Known
  <2>3. bucket[owner] \in {{}, told[owner].content}
    BY <2>1, <2>2 DEF Counts, Informed
  <2>4. QED
    BY <2>1, <2>2, <2>3 DEF Suppress, Sound, Visiting
<1>3. Spec => []NotRepeated
  BY <1>1, CountsAlways, PTL
<1>4. Spec => [][NotRepeated']_vars
  BY <1>3, PTL
<1>5. QED
  BY <1>2, <1>4, CountsAlways, PTL DEF DigestIsNews, SilenceIsInformed
=============================================================================
