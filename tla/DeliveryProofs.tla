--------------------------- MODULE DeliveryProofs ---------------------------
(***************************************************************************)
(* Proofs about the delivery passes and their ledger, for any number of    *)
(* daemons, passes and items, any limit on the attempts, and any faults.   *)
(***************************************************************************)
EXTENDS Delivery, WellFoundedInduction, TLAPS

-----------------------------------------------------------------------------
(* The inductive invariant.  An item nobody is to blame for is counted by  *)
(* the ledger: its entry says what was attempted and what was sent, but    *)
(* for the attempt under way, and the one pass under way knows the entry.  *)

\* The item a pass is at.
At(p) == Min(todo[p])
Attempting(p, i) == pc[p] = "record" /\ At(p) = i

\* What stands in an entry, on disk or in memory.
Sane(e) ==
    /\ e.status = "none" => e.attempts = 0
    /\ e.status = "failed" => e.attempts < MaxAttempts
SaneLedgers ==
    /\ \A i \in Items : Sane(disk[i])
    /\ \A p \in Procs, i \in Items : Sane(mem[p][i])

\* A pass records what its entry does not rule out.
Busy ==
    \A p \in Procs :
        /\ pc[p] \in {"record", "warn"} => todo[p] # {}
        /\ pc[p] = "record" => got[p] # "none" /\ ~noop(mem[p][At(p)])

Lonely ==
    \A i \in Items \ blamed : \A p \in Procs, q \in Procs :
        pc[p] \in PassSteps /\ pc[q] \in PassSteps => p = q

Known ==
    \A i \in Items \ blamed : \A p \in Procs :
        pc[p] \in PassSteps =>
            mem[p][i].status = disk[i].status /\ mem[p][i].attempts = disk[i].attempts

Counted ==
    \A i \in Items \ blamed :
        /\ calls[i] = disk[i].attempts + (IF \E p \in Procs : Attempting(p, i) THEN 1 ELSE 0)
        /\ sends[i] = (IF disk[i].status = "sent" THEN 1 ELSE 0)
                      + (IF \E p \in Procs : Attempting(p, i) /\ got[p] = "sent" THEN 1 ELSE 0)

LedgerCounts == SaneLedgers /\ Busy /\ Lonely /\ Known /\ Counted


-----------------------------------------------------------------------------
(* The least item, and the remainder of a division.                        *)

LEMMA LeastIn ==
    ASSUME NEW S \in SUBSET Nat, S # {}
    PROVE  Min(S) \in S
<1>1. PICK x \in S : \A y \in S : ~(<<y, x>> \in OpToRel(<, Nat))
  BY NatLessThanWellFounded, WFMin
<1>2. ASSUME NEW y \in S
      PROVE  x <= y
  <2>1. ASSUME y < x
        PROVE  <<y, x>> \in OpToRel(<, Nat)
    <3>1. <<y, x>> \in Nat \X Nat /\ <<y, x>>[1] < <<y, x>>[2]
      BY <2>1
    <3>2. QED
      BY <3>1, Zenon DEF OpToRel
  <2>2. ~(y < x)
    BY <1>1, <2>1, Zenon
  <2>3. QED
    BY <2>2
<1>3. QED
  BY <1>2 DEF Min

LEMMA AtItem ==
    ASSUME TypeOK, NEW p \in Procs, todo[p] # {}
    PROVE  At(p) \in todo[p] /\ At(p) \in Items
<1>1. todo[p] \in SUBSET Items /\ Items \in SUBSET Nat
  BY CountAssumption DEF TypeOK, Items
<1>2. QED
  BY <1>1, LeastIn DEF At

LEMMA TickType ==
    ASSUME NEW m \in Nat
    PROVE  m % ReportEvery \in 0 .. ReportEvery - 1
BY CountAssumption

\* Where the processes are after one of them moves.
LEMMA Moved ==
    ASSUME TypeOK, NEW p \in Procs, NEW from, NEW to \in Steps, Move(p, from, to)
    PROVE  /\ pc' \in [Procs -> Steps] /\ pc[p] = from /\ pc'[p] = to
           /\ \A q \in Procs : q # p => pc'[q] = pc[q]
BY DEF TypeOK, Move

\* What is recorded of an entry that is not left alone.
LEMMA RecordedEntry ==
    ASSUME NEW old \in Entries, Sane(old), ~noop(old),
           NEW result \in {"sent", "failed"}, NEW e \in recorded(old, result)
    PROVE  /\ e \in Entries /\ Sane(e)
           /\ e.attempts = old.attempts + 1
           /\ e.status = "sent" <=> result = "sent"
<1>1. old.status \in Statuses /\ old.attempts \in 0 .. MaxAttempts /\ old.attempts < MaxAttempts
  BY CountAssumption DEF Entries, Statuses, Sane, noop, already_done, is_terminal,
     has_failure, retry_eligible
<1> DEFINE n == old.attempts + 1
<1>2. CASE result = "sent"
  <2>1. e = [status |-> "sent", attempts |-> n, waiting |-> FALSE]
    BY <1>2 DEF recorded
  <2>2. QED
    BY <1>1, <1>2, <2>1, CountAssumption DEF Entries, Statuses, Sane
<1>3. CASE result = "failed"
  <2>1. CASE n >= MaxAttempts
    <3>1. e = [status |-> "failed_terminal", attempts |-> n, waiting |-> FALSE]
      BY <1>3, <2>1 DEF recorded
    <3>2. QED
      BY <1>1, <1>3, <3>1, CountAssumption DEF Entries, Statuses, Sane
  <2>2. CASE ~(n >= MaxAttempts)
    <3>1. e \in {[status |-> "failed", attempts |-> n, waiting |-> w] : w \in BOOLEAN}
      BY <1>3, <2>2 DEF recorded
    <3>2. PICK w \in BOOLEAN : e = [status |-> "failed", attempts |-> n, waiting |-> w]
      BY <3>1
    <3>3. n \in 0 .. MaxAttempts /\ n < MaxAttempts
      BY <1>1, <2>2, CountAssumption
    <3>4. QED
      BY <1>3, <3>2, <3>3 DEF Entries, Statuses, Sane
  <2>3. QED
    BY <2>1, <2>2
<1>4. QED
  BY <1>2, <1>3

LEMMA FreshEntry == NoLedger \in [Items -> Entries] /\ \A i \in Items : Sane(NoLedger[i])
BY CountAssumption DEF NoLedger, NoEntry, Entries, Statuses, Sane

-----------------------------------------------------------------------------
(* Types and the sanity of the entries.                                    *)

Sound == TypeOK /\ SaneLedgers /\ Busy

LEMMA Forgotten ==
    ASSUME Sound, NEW p \in Procs, Forget(p)
    PROVE  /\ mem' \in [Procs -> [Items -> Entries]]
           /\ \A q \in Procs, i \in Items : Sane(mem'[q][i])
           /\ users' \in [Procs -> SUBSET Users] /\ todo' \in [Procs -> SUBSET Items]
           /\ got' \in [Procs -> {"none", "sent", "failed"}]
           /\ \A q \in Procs : q # p => /\ mem'[q] = mem[q] /\ todo'[q] = todo[q]
                                        /\ got'[q] = got[q]
BY FreshEntry DEF Sound, TypeOK, SaneLedgers, Forget

LEMMA RunSound ==
    ASSUME Sound, NEW p \in Procs, Run(p)
    PROVE  Sound'
<1> USE DEF Steps, PassSteps
<1>1. CASE Load(p)
  <2>1. mem' \in [Procs -> [Items -> Entries]] /\ \A q \in Procs, i \in Items : Sane(mem'[q][i])
    BY <1>1, FreshEntry DEF Sound, TypeOK, SaneLedgers, Load
  <2>2. pc' \in [Procs -> Steps] /\ pc'[p] = "items" /\ \A q \in Procs : q # p => pc'[q] = pc[q]
    BY <1>1, Moved DEF Load, Sound
  <2>3. blamed' \subseteq Items /\ faults' \in 0 .. MaxFaults
    BY <1>1, CountAssumption DEF Load, Fault, Sound, TypeOK
  <2>4. TypeOK'
    BY <1>1, <2>1, <2>2, <2>3 DEF Load, Sound, TypeOK
  <2>5. Busy'
    <3>1. \A q \in Procs : q # p => mem'[q] = mem[q]
      BY <1>1 DEF Load, Sound, TypeOK
    <3>2. QED
      BY <1>1, <2>2, <3>1 DEF Load, Sound, TypeOK, Busy, At
  <2>6. QED
    BY <1>1, <2>1, <2>4, <2>5 DEF Load, Sound, SaneLedgers
<1>2. CASE ReadInbox(p)
  <2>1. users' \in [Procs -> SUBSET Users] /\ todo' \in [Procs -> SUBSET Items]
    BY <1>2 DEF ReadInbox, Sound, TypeOK
  <2>2. faults' \in 0 .. MaxFaults
    BY <1>2, CountAssumption DEF ReadInbox, Fault, Sound, TypeOK
  <2>3. \A q \in Procs : q # p => todo'[q] = todo[q]
    BY <1>2 DEF ReadInbox, Sound, TypeOK
  <2>4. TypeOK'
    BY <1>2, <2>1, <2>2 DEF ReadInbox, Sound, TypeOK, ghosts
  <2>5. pc[p] = "items" /\ UNCHANGED <<pc, got, mem, disk>>
    BY <1>2 DEF ReadInbox
  <2>6. QED
    BY <2>3, <2>4, <2>5 DEF Sound, Busy, At, SaneLedgers
<1>3. CASE PassOver(p)
  <2>1. todo' \in [Procs -> SUBSET Items] /\ \A q \in Procs : q # p => todo'[q] = todo[q]
    BY <1>3 DEF PassOver, Sound, TypeOK
  <2>2. TypeOK'
    BY <1>3, <2>1 DEF PassOver, Sound, TypeOK, ghosts
  <2>3. pc[p] = "items" /\ UNCHANGED <<pc, got, mem, disk>>
    BY <1>3 DEF PassOver
  <2>4. QED
    BY <2>1, <2>2, <2>3 DEF Sound, Busy, At, SaneLedgers
<1>4. CASE Attempt(p)
  <2>1. /\ pc' \in [Procs -> Steps] /\ pc[p] = "items" /\ pc'[p] = "record"
        /\ \A q \in Procs : q # p => pc'[q] = pc[q]
    BY <1>4, Moved DEF Attempt, Sound
  <2>2. /\ got' \in [Procs -> {"none", "sent", "failed"}] /\ got'[p] # "none"
        /\ \A q \in Procs : q # p => got'[q] = got[q]
    BY <1>4 DEF Attempt, deliver, Sound, TypeOK
  <2>3. At(p) \in Items /\ todo[p] # {}
    BY <1>4, AtItem DEF Attempt, Sound
  <2>4. calls' \in [Items -> Nat] /\ sends' \in [Items -> Nat]
    BY <1>4, <2>3 DEF Attempt, At, Sound, TypeOK
  <2>5. TypeOK'
    BY <1>4, <2>1, <2>2, <2>4 DEF Attempt, Sound, TypeOK
  <2>6. ~noop(mem[p][At(p)]) /\ UNCHANGED <<mem, disk, todo>>
    BY <1>4 DEF Attempt, At
  <2>7. QED
    BY <2>1, <2>2, <2>3, <2>5, <2>6 DEF Sound, Busy, At, SaneLedgers
<1>5. CASE Record(p)
  <2>1. todo[p] # {} /\ got[p] \in {"sent", "failed"} /\ ~noop(mem[p][At(p)]) /\ At(p) \in Items
    BY <1>5, AtItem DEF Record, Sound, Busy, TypeOK
  <2>2. PICK e \in recorded(mem[p][At(p)], got[p]) :
          /\ mem' = [mem EXCEPT ![p][At(p)] = e]
          /\ disk' = [mem[p] EXCEPT ![At(p)] = e]
          /\ IF is_terminal(e)
               THEN Move(p, "record", "warn") /\ UNCHANGED todo
               ELSE /\ Move(p, "record", "items")
                    /\ todo' = [todo EXCEPT ![p] = @ \ {At(p)}]
    BY <1>5 DEF Record, At
  <2>3. mem[p] \in [Items -> Entries] /\ mem[p][At(p)] \in Entries /\ Sane(mem[p][At(p)])
    BY <2>1 DEF Sound, TypeOK, SaneLedgers
  <2>4. e \in Entries /\ Sane(e)
    BY <2>1, <2>3, RecordedEntry
  <2>5. disk' \in [Items -> Entries] /\ mem' = [mem EXCEPT ![p] = disk']
    BY <2>2, <2>3, <2>4 DEF Sound, TypeOK
  <2>6. \A i \in Items : Sane(disk'[i])
    BY <2>2, <2>3, <2>4 DEF Sound, SaneLedgers
  <2>7. /\ mem' \in [Procs -> [Items -> Entries]] /\ mem'[p] = disk'
        /\ \A q \in Procs : q # p => mem'[q] = mem[q]
    BY <2>5 DEF Sound, TypeOK
  <2>8. /\ pc' \in [Procs -> Steps] /\ \A q \in Procs : q # p => pc'[q] = pc[q]
        /\ todo' \in [Procs -> SUBSET Items] /\ \A q \in Procs : q # p => todo'[q] = todo[q]
        /\ pc'[p] = "items" \/ (pc'[p] = "warn" /\ todo'[p] = todo[p])
    <3>1. CASE is_terminal(e)
      BY <2>2, <3>1, Moved DEF Sound, TypeOK
    <3>2. CASE ~is_terminal(e)
      <4>1. Move(p, "record", "items") /\ todo' = [todo EXCEPT ![p] = @ \ {At(p)}]
        BY <2>2, <3>2
      <4>2. pc' \in [Procs -> Steps] /\ pc'[p] = "items" /\ \A q \in Procs : q # p => pc'[q] = pc[q]
        BY <4>1, Moved DEF Sound
      <4>3. todo' \in [Procs -> SUBSET Items] /\ \A q \in Procs : q # p => todo'[q] = todo[q]
        BY <4>1 DEF Sound, TypeOK
      <4>4. QED
        BY <4>2, <4>3
    <3>3. QED
      BY <3>1, <3>2
  <2>9. /\ got' \in [Procs -> {"none", "sent", "failed"}]
        /\ \A q \in Procs : q # p => got'[q] = got[q]
    BY <1>5 DEF Record, Sound, TypeOK
  <2>10. TypeOK'
    BY <1>5, <2>5, <2>7, <2>8, <2>9 DEF Record, Sound, TypeOK, ghosts
  <2>11. Busy'
    BY <2>1, <2>7, <2>8, <2>9 DEF Sound, Busy, At
  <2>12. SaneLedgers'
    BY <2>6, <2>7 DEF Sound, SaneLedgers
  <2>13. QED
    BY <2>10, <2>11, <2>12 DEF Sound
<1>6. CASE Warn(p)
  <2>1. /\ pc' \in [Procs -> Steps] /\ pc[p] = "warn" /\ pc'[p] = "items"
        /\ \A q \in Procs : q # p => pc'[q] = pc[q]
    BY <1>6, Moved DEF Warn, Sound
  <2>2. At(p) \in Items
    BY <2>1, AtItem DEF Sound, Busy
  <2>3. /\ todo' \in [Procs -> SUBSET Items] /\ surfaced' \subseteq Items
        /\ \A q \in Procs : q # p => todo'[q] = todo[q]
    BY <1>6, <2>2 DEF Warn, At, Sound, TypeOK
  <2>4. TypeOK'
    BY <1>6, <2>1, <2>3 DEF Warn, Sound, TypeOK
  <2>5. QED
    BY <1>6, <2>1, <2>3, <2>4 DEF Warn, Sound, Busy, At, SaneLedgers
<1>7. CASE EndPass(p)
  <2>1. /\ pc' \in [Procs -> Steps] /\ pc'[p] \in {"report", "down"}
        /\ \A q \in Procs : q # p => pc'[q] = pc[q]
    BY <1>7, Moved DEF EndPass, Sound
  <2>2. Forget(p) /\ UNCHANGED <<inbox, disk, tick, ghosts, faults>>
    BY <1>7 DEF EndPass
  <2>3. TypeOK'
    BY <2>1, <2>2, Forgotten DEF Sound, TypeOK, ghosts
  <2>4. QED
    BY <2>1, <2>2, <2>3, Forgotten DEF Sound, Busy, At, SaneLedgers
<1>8. QED
  BY <1>1, <1>2, <1>3, <1>4, <1>5, <1>6, <1>7 DEF Run

LEMMA DaemonSound ==
    ASSUME Sound, NEW d \in Daemons, Start(d) \/ Sweep(d) \/ Report(d)
    PROVE  Sound'
<1> USE DEF Steps, PassSteps
<1>0. d \in Procs
  BY DEF Procs
<1>1. /\ pc' \in [Procs -> Steps] /\ pc'[d] \in {"sweep", "load"}
      /\ \A q \in Procs : q # d => pc'[q] = pc[q]
  BY <1>0, Moved DEF Start, Sweep, Report, Sound
<1>2. UNCHANGED <<disk, mem, users, todo, got, calls, sends, blamed, faults>>
  BY DEF Start, Sweep, Report, passVars, ghosts
<1>3. inbox' \subseteq Items /\ surfaced' \subseteq Items
  BY DEF Start, Sweep, Report, ghosts, Sound, TypeOK
<1>4. tick' \in [Daemons -> 0 .. ReportEvery - 1]
  <2>1. 1 % ReportEvery \in 0 .. ReportEvery - 1
    BY TickType
  <2>2. tick[d] + 1 \in Nat
    BY CountAssumption DEF Sound, TypeOK
  <2>3. (tick[d] + 1) % ReportEvery \in 0 .. ReportEvery - 1
    BY <2>2, TickType
  <2>4. tick' \in {tick, [tick EXCEPT ![d] = 1 % ReportEvery],
                   [tick EXCEPT ![d] = (tick[d] + 1) % ReportEvery]}
    BY DEF Start, Sweep, Report, NextTick, Sound, TypeOK
  <2>5. QED
    BY <2>1, <2>3, <2>4 DEF Sound, TypeOK
<1>5. TypeOK'
  BY <1>1, <1>2, <1>3, <1>4 DEF Sound, TypeOK
<1>6. QED
  BY <1>1, <1>2, <1>5 DEF Sound, SaneLedgers, Busy, At

LEMMA StartPassSound ==
    ASSUME Sound, NEW p \in Passes, StartPass(p)
    PROVE  Sound'
<1>0. p \in Procs /\ "load" \in Steps
  BY DEF Procs, Steps
<1>1. /\ pc' \in [Procs -> Steps] /\ pc'[p] = "load"
      /\ \A q \in Procs : q # p => pc'[q] = pc[q]
  BY <1>0, Moved DEF StartPass, Sound
<1>2. UNCHANGED <<inbox, disk, mem, users, todo, got, tick, calls, sends, blamed, surfaced>>
  BY DEF StartPass, passVars, ghosts
<1>3. faults' \in 0 .. MaxFaults
  BY CountAssumption DEF StartPass, Fault, Sound, TypeOK
<1>4. QED
  BY <1>1, <1>2, <1>3 DEF Sound, TypeOK, SaneLedgers, Busy, At

LEMMA FaultSound ==
    ASSUME Sound, NEW p \in Procs, SaveFails(p) \/ Die(p)
    PROVE  Sound'
<1> USE DEF Steps, PassSteps
<1>1. /\ pc' \in [Procs -> Steps] /\ pc'[p] \in {"sweep", "down"}
      /\ \A q \in Procs : q # p => pc'[q] = pc[q]
  BY Moved DEF SaveFails, Die, Sound
<1>2. Forget(p) /\ UNCHANGED <<inbox, disk, calls, sends, surfaced>>
  BY DEF SaveFails, Die
<1>3. faults' \in 0 .. MaxFaults
  BY CountAssumption DEF SaveFails, Die, Fault, Sound, TypeOK
<1>4. blamed' \subseteq Items
  <2>1. pc[p] = "record" => At(p) \in Items
    BY AtItem DEF Sound, Busy
  <2>2. blamed' = blamed \/ (pc[p] = "record" /\ blamed' = blamed \cup {At(p)})
    BY DEF SaveFails, Die, Move, At
  <2>3. QED
    BY <2>1, <2>2 DEF Sound, TypeOK
<1>5. tick' \in [Daemons -> 0 .. ReportEvery - 1]
  <2>1. CASE p \in Daemons
    <3>1. tick[p] + 1 \in Nat
      BY <2>1, CountAssumption DEF Sound, TypeOK
    <3>2. (tick[p] + 1) % ReportEvery \in 0 .. ReportEvery - 1
      BY <3>1, TickType
    <3>3. tick' \in {tick, [tick EXCEPT ![p] = (tick[p] + 1) % ReportEvery]}
      BY <2>1 DEF SaveFails, Die, NextTick, Sound, TypeOK
    <3>4. QED
      BY <3>2, <3>3 DEF Sound, TypeOK
  <2>2. CASE p \notin Daemons
    BY <2>2 DEF SaveFails, Die, Sound, TypeOK
  <2>3. QED
    BY <2>1, <2>2
<1>6. TypeOK'
  BY <1>1, <1>2, <1>3, <1>4, <1>5, Forgotten DEF Sound, TypeOK
<1>7. QED
  BY <1>1, <1>2, <1>6, Forgotten DEF Sound, SaneLedgers, Busy, At

LEMMA WorldSound ==
    ASSUME Sound, NEW i \in Items, Enqueue(i) \/ Elapse(i)
    PROVE  Sound'
<1>1. CASE Enqueue(i)
  BY <1>1 DEF Enqueue, Sound, TypeOK, SaneLedgers, Busy, At, passVars, ghosts
<1>2. CASE Elapse(i)
  <2>1. disk' = [disk EXCEPT ![i] = [disk[i] EXCEPT !.waiting = FALSE]]
    BY <1>2 DEF Elapse, Sound, TypeOK
  <2>2. [disk[i] EXCEPT !.waiting = FALSE] \in Entries /\ Sane([disk[i] EXCEPT !.waiting = FALSE])
    BY DEF Entries, Sane, Sound, TypeOK, SaneLedgers
  <2>3. disk' \in [Items -> Entries] /\ \A j \in Items : Sane(disk'[j])
    BY <2>1, <2>2 DEF Sound, TypeOK, SaneLedgers
  <2>4. QED
    BY <1>2, <2>3 DEF Elapse, Sound, TypeOK, SaneLedgers, Busy, At, passVars, ghosts
<1>3. QED
  BY <1>1, <1>2

LEMMA SoundStep == Sound /\ [Next]_vars => Sound'
<1> SUFFICES ASSUME Sound, [Next]_vars PROVE Sound'
  OBVIOUS
<1>1. CASE UNCHANGED vars
  BY <1>1 DEF vars, Sound, TypeOK, SaneLedgers, Busy, At, passVars, ghosts
<1>2. CASE Next
  <2>1. \A d \in Daemons : Daemon(d) => Sound'
    BY DaemonSound, RunSound DEF Daemon, Procs
  <2>2. \A p \in Passes : StartPass(p) \/ Run(p) => Sound'
    BY StartPassSound, RunSound DEF Procs
  <2>3. QED
    BY <1>2, <2>1, <2>2, FaultSound, WorldSound DEF Next
<1>3. QED
  BY <1>1, <1>2

LEMMA SoundInit == Init => Sound
<1> SUFFICES ASSUME Init PROVE Sound
  OBVIOUS
<1>1. 0 \in 0 .. ReportEvery - 1 /\ 0 \in 0 .. MaxFaults
  BY CountAssumption
<1>2. QED
  BY <1>1, FreshEntry DEF Init, Sound, TypeOK, SaneLedgers, Busy, Steps, PassSteps

\* The types hold, no entry says "failed" after its last attempt, and what a
\* pass is about to record is not ruled out by what it knows (_attempt_one).
THEOREM TypesHold == Spec => [](TypeOK /\ SaneLedgers /\ Busy)
<1>1. QED
  BY SoundInit, SoundStep, PTL DEF Spec, Sound

-----------------------------------------------------------------------------
(* The count.                                                              *)

Alone == Lonely /\ Known

\* A step that records nothing, hands nothing over, and lets an attempt end
\* only for an item it blames.
LEMMA StillCounted ==
    ASSUME Counted, blamed \subseteq blamed', UNCHANGED <<calls, sends>>,
           \A i \in Items : /\ disk'[i].status = disk[i].status
                            /\ disk'[i].attempts = disk[i].attempts,
           \A p \in Procs : \/ /\ pc'[p] = "record" <=> pc[p] = "record"
                               /\ pc[p] = "record" => UNCHANGED <<todo[p], got[p]>>
                            \/ /\ pc[p] = "record" /\ pc'[p] # "record"
                               /\ At(p) \in blamed'
    PROVE  Counted'
<1>1. ASSUME NEW i \in Items, i \notin blamed', NEW p \in Procs
      PROVE  /\ Attempting(p, i)' <=> Attempting(p, i)
             /\ Attempting(p, i) => got'[p] = got[p]
  BY <1>1 DEF Attempting, At
<1>2. QED
  BY <1>1 DEF Counted

\* A step that lets nobody into a pass.
LEMMA StillAlone ==
    ASSUME Alone, blamed \subseteq blamed',
           \A i \in Items : /\ disk'[i].status = disk[i].status
                            /\ disk'[i].attempts = disk[i].attempts,
           \A p \in Procs : pc'[p] \in PassSteps =>
                                pc[p] \in PassSteps /\ UNCHANGED mem[p]
    PROVE  Alone'
BY DEF Alone, Lonely, Known

LEMMA LoadCounts ==
    ASSUME Sound, Alone, Counted, NEW p \in Procs, Load(p)
    PROVE  Alone' /\ Counted'
<1>1. /\ pc[p] = "load" /\ pc'[p] = "items" /\ \A q \in Procs : q # p => pc'[q] = pc[q]
      /\ UNCHANGED <<disk, todo, got, calls, sends>>
  BY Moved DEF Load, Sound, Steps, PassSteps
<1>2. blamed \subseteq blamed'
  BY DEF Load, Sound, TypeOK
<1>3. Counted'
  BY <1>1, <1>2, StillCounted
<1>4. ASSUME NEW i \in Items \ blamed'
      PROVE  /\ \A q \in Procs : q # p => pc'[q] \notin PassSteps
             /\ mem'[p] = disk
  BY <1>1, <1>4 DEF Load, Sound, TypeOK
<1>5. QED
  BY <1>1, <1>3, <1>4 DEF Alone, Lonely, Known

LEMMA AttemptCounts ==
    ASSUME Sound, Alone, Counted, NEW p \in Procs, Attempt(p)
    PROVE  Alone' /\ Counted'
<1>1. /\ pc[p] = "items" /\ pc'[p] = "record" /\ \A q \in Procs : q # p => pc'[q] = pc[q]
      /\ UNCHANGED <<disk, mem, todo, blamed>>
  BY Moved DEF Attempt, Sound, Steps, PassSteps
<1>2. \A q \in Procs : q # p => got'[q] = got[q]
  BY DEF Attempt, Sound, TypeOK
<1>3. At(p) \in Items /\ ~noop(mem[p][At(p)])
  BY AtItem DEF Attempt, At, Sound
<1>4. Alone'
  BY <1>1, StillAlone DEF PassSteps
<1>5. ASSUME NEW i \in Items \ blamed, i # At(p)
      PROVE  /\ calls'[i] = calls[i] /\ sends'[i] = sends[i]
             /\ \A q \in Procs : /\ Attempting(q, i)' <=> Attempting(q, i)
                                 /\ Attempting(q, i) => got'[q] = got[q]
  <2>1. calls'[i] = calls[i] /\ sends'[i] = sends[i]
    BY <1>3, <1>5 DEF Attempt, At, Sound, TypeOK
  <2>2. QED
    BY <1>1, <1>2, <1>5, <2>1 DEF Attempting, At
<1>6. ASSUME NEW i \in Items \ blamed, i = At(p)
      PROVE  /\ calls[i] = disk[i].attempts /\ disk[i].status # "sent"
             /\ sends[i] = 0
             /\ \A q \in Procs : Attempting(q, i)' <=> q = p
  <2>1. \A q \in Procs : q # p => pc[q] \notin PassSteps
    BY <1>1, <1>6 DEF Alone, Lonely, PassSteps
  <2>2. \A q \in Procs : ~Attempting(q, i)
    BY <1>1, <2>1 DEF Attempting, PassSteps
  <2>3. disk[i].status # "sent"
    BY <1>1, <1>3, <1>6 DEF Alone, Known, PassSteps, noop, already_done
  <2>4. \A q \in Procs : Attempting(q, i)' <=> q = p
    BY <1>1, <1>6, <2>1 DEF Attempting, At, PassSteps
  <2>5. calls[i] = disk[i].attempts /\ sends[i] = 0
    <3>1. disk[i].attempts \in Nat
      BY CountAssumption DEF Sound, TypeOK, Entries
    <3>2. calls[i] = disk[i].attempts + 0 /\ sends[i] = 0 + 0
      BY <1>6, <2>2, <2>3 DEF Counted
    <3>3. QED
      BY <3>1, <3>2
  <2>6. QED
    BY <2>3, <2>4, <2>5
<1>7. ASSUME NEW i \in Items \ blamed, i = At(p)
      PROVE  /\ calls'[i] = disk[i].attempts + 1
             /\ sends'[i] = IF got'[p] = "sent" THEN 1 ELSE 0
  BY <1>3, <1>6, <1>7 DEF Attempt, At, Sound, TypeOK
<1>8. Counted'
  <2>1. SUFFICES ASSUME NEW i \in Items \ blamed
        PROVE
        /\ calls'[i] = disk[i].attempts + (IF \E q \in Procs : Attempting(q, i)' THEN 1 ELSE 0)
        /\ sends'[i] = (IF disk[i].status = "sent" THEN 1 ELSE 0)
              + (IF \E q \in Procs : Attempting(q, i)' /\ got'[q] = "sent" THEN 1 ELSE 0)
    BY <1>1 DEF Counted
  <2>2. CASE i # At(p)
    BY <1>5, <2>2 DEF Counted
  <2>3. CASE i = At(p)
    <3>1. \E q \in Procs : Attempting(q, i)'
      BY <1>6, <2>3
    <3>2. (\E q \in Procs : Attempting(q, i)' /\ got'[q] = "sent") <=> got'[p] = "sent"
      BY <1>6, <2>3
    <3>3. disk[i].status # "sent"
      BY <1>6, <2>3
    <3>4. QED
      BY <1>7, <2>3, <3>1, <3>2, <3>3
  <2>4. QED
    BY <2>2, <2>3
<1>9. QED
  BY <1>4, <1>8

LEMMA RecordCounts ==
    ASSUME Sound, Alone, Counted, NEW p \in Procs, Record(p)
    PROVE  Alone' /\ Counted'
<1>1. /\ pc[p] = "record" /\ todo[p] # {} /\ got[p] \in {"sent", "failed"}
      /\ ~noop(mem[p][At(p)]) /\ At(p) \in Items
  BY AtItem DEF Record, Sound, Busy, TypeOK
<1>2. PICK e \in recorded(mem[p][At(p)], got[p]) :
        /\ mem' = [mem EXCEPT ![p][At(p)] = e]
        /\ disk' = [mem[p] EXCEPT ![At(p)] = e]
        /\ \/ Move(p, "record", "warn") /\ UNCHANGED todo
           \/ /\ Move(p, "record", "items")
              /\ todo' = [todo EXCEPT ![p] = @ \ {At(p)}]
  BY DEF Record, At
<1>3. mem[p] \in [Items -> Entries] /\ mem[p][At(p)] \in Entries /\ Sane(mem[p][At(p)])
  BY <1>1 DEF Sound, TypeOK, SaneLedgers
<1>4. e.attempts = mem[p][At(p)].attempts + 1 /\ (e.status = "sent" <=> got[p] = "sent")
  BY <1>1, <1>3, RecordedEntry
<1>5. /\ pc'[p] \in {"warn", "items"} /\ \A q \in Procs : q # p => pc'[q] = pc[q]
      /\ \A q \in Procs : q # p => todo'[q] = todo[q]
  <2>1. CASE Move(p, "record", "warn") /\ UNCHANGED todo
    BY <2>1, Moved DEF Sound, Steps, PassSteps
  <2>2. CASE Move(p, "record", "items") /\ todo' = [todo EXCEPT ![p] = @ \ {At(p)}]
    <3>1. pc'[p] = "items" /\ \A q \in Procs : q # p => pc'[q] = pc[q]
      BY <2>2, Moved DEF Sound, Steps, PassSteps
    <3>2. \A q \in Procs : q # p => todo'[q] = todo[q]
      BY <2>2 DEF Sound, TypeOK
    <3>3. QED
      BY <3>1, <3>2
  <2>3. QED
    BY <1>2, <2>1, <2>2
<1>6. /\ UNCHANGED <<calls, sends, blamed>>
      /\ \A q \in Procs : q # p => got'[q] = got[q]
  BY DEF Record, ghosts, Sound, TypeOK
<1>7. mem'[p] = disk' /\ disk'[At(p)] = e /\ \A i \in Items : i # At(p) => disk'[i] = mem[p][i]
  BY <1>1, <1>2, <1>3 DEF Sound, TypeOK
<1>8. ASSUME NEW i \in Items \ blamed, NEW q \in Procs, q # p
      PROVE  pc[q] \notin PassSteps /\ pc'[q] \notin PassSteps
  BY <1>1, <1>5, <1>8 DEF Alone, Lonely, PassSteps
<1>9. Alone'
  BY <1>5, <1>6, <1>7, <1>8 DEF Alone, Lonely, Known
<1>10. ASSUME NEW i \in Items \ blamed
       PROVE  /\ calls'[i] = disk'[i].attempts + (IF \E q \in Procs : Attempting(q, i)' THEN 1 ELSE 0)
              /\ sends'[i] = (IF disk'[i].status = "sent" THEN 1 ELSE 0)
                  + (IF \E q \in Procs : Attempting(q, i)' /\ got'[q] = "sent" THEN 1 ELSE 0)
  <2>1. \A q \in Procs : ~Attempting(q, i)'
    BY <1>5, <1>8 DEF Attempting, PassSteps
  <2>2. \A q \in Procs : Attempting(q, i) => q = p /\ i = At(p)
    BY <1>8 DEF Attempting, PassSteps
  <2>3. mem[p][i].status = disk[i].status /\ mem[p][i].attempts = disk[i].attempts
    BY <1>1 DEF Alone, Known, PassSteps
  <2>4. CASE i # At(p)
    BY <1>6, <1>7, <2>1, <2>2, <2>3, <2>4 DEF Counted
  <2>5. CASE i = At(p)
    <3>1. Attempting(p, i) /\ disk[i].status # "sent"
      BY <1>1, <2>3, <2>5 DEF Attempting, noop, already_done
    <3>2. /\ calls[i] = disk[i].attempts + 1
          /\ sends[i] = IF got[p] = "sent" THEN 1 ELSE 0
      BY <2>2, <3>1 DEF Counted
    <3>3. calls[i] = disk'[i].attempts /\ sends[i] = IF disk'[i].status = "sent" THEN 1 ELSE 0
      BY <1>4, <1>7, <2>3, <2>5, <3>2
    <3>4. calls[i] \in Nat /\ sends[i] \in Nat
      BY DEF Sound, TypeOK
    <3>5. QED
      BY <1>6, <2>1, <3>3, <3>4
  <2>6. QED
    BY <2>4, <2>5
<1>11. QED
  BY <1>6, <1>9, <1>10 DEF Counted

LEMMA RunCounts ==
    ASSUME Sound, Alone, Counted, NEW p \in Procs, Run(p)
    PROVE  Alone' /\ Counted'
<1>1. CASE ReadInbox(p) \/ PassOver(p)
  <2>1. /\ pc[p] = "items" /\ UNCHANGED <<pc, disk, mem, got, calls, sends, blamed>>
        /\ \A q \in Procs : q # p => todo'[q] = todo[q]
    BY <1>1 DEF ReadInbox, PassOver, ghosts, Sound, TypeOK
  <2>2. QED
    BY <2>1, StillCounted, StillAlone
<1>2. CASE Warn(p) \/ EndPass(p)
  <2>1. /\ pc[p] \in {"warn", "items"} /\ pc'[p] \in {"items", "report", "down"}
        /\ pc'[p] = "items" => mem'[p] = mem[p]
        /\ \A q \in Procs : q # p => pc'[q] = pc[q]
    BY <1>2, Moved DEF Warn, EndPass, Sound, Steps, PassSteps
  <2>2. \A q \in Procs : q # p => UNCHANGED <<todo[q], got[q], mem[q]>>
    BY <1>2, Forgotten DEF Warn, EndPass, Sound, TypeOK
  <2>3. UNCHANGED <<disk, calls, sends, blamed>>
    BY <1>2 DEF Warn, EndPass, ghosts
  <2>4. QED
    BY <2>1, <2>2, <2>3, StillCounted, StillAlone DEF PassSteps
<1>3. QED
  BY <1>1, <1>2, LoadCounts, AttemptCounts, RecordCounts DEF Run

LEMMA OtherCounts ==
    ASSUME Sound, Alone, Counted,
           \/ \E d \in Daemons : Start(d) \/ Sweep(d) \/ Report(d)
           \/ \E p \in Passes : StartPass(p)
           \/ \E i \in Items : Enqueue(i) \/ Elapse(i)
    PROVE  Alone' /\ Counted'
<1>1. UNCHANGED <<mem, todo, got, calls, sends, blamed>>
  BY DEF Start, Sweep, Report, StartPass, Enqueue, Elapse, passVars, ghosts
<1>2. \A i \in Items : disk'[i].status = disk[i].status /\ disk'[i].attempts = disk[i].attempts
  <2>1. CASE UNCHANGED disk
    BY <2>1
  <2>2. ASSUME NEW i \in Items, Elapse(i)
        PROVE  \A j \in Items : disk'[j].status = disk[j].status /\ disk'[j].attempts = disk[j].attempts
    <3>1. disk' = [disk EXCEPT ![i] = [disk[i] EXCEPT !.waiting = FALSE]]
      BY <2>2 DEF Elapse, Sound, TypeOK
    <3>2. disk[i] \in Entries
      BY DEF Sound, TypeOK
    <3>3. QED
      BY <3>1, <3>2 DEF Entries, Sound, TypeOK
  <2>3. QED
    BY <2>1, <2>2 DEF Start, Sweep, Report, StartPass, Enqueue
<1>3. \A p \in Procs :
          \/ pc'[p] = pc[p]
          \/ pc[p] \in {"down", "sweep", "report"} /\ pc'[p] \in {"sweep", "load"}
  <2>1. ASSUME NEW d \in Procs, NEW from \in {"down", "sweep", "report"}, NEW to \in {"sweep", "load"},
               Move(d, from, to), NEW p \in Procs
        PROVE  pc'[p] = pc[p] \/ (pc[p] = from /\ pc'[p] = to)
    <3>1. to \in Steps
      BY <2>1 DEF Steps
    <3>2. pc[d] = from /\ pc'[d] = to /\ \A q \in Procs : q # d => pc'[q] = pc[q]
      BY <2>1, <3>1, Moved DEF Sound
    <3>3. QED
      BY <3>2
  <2>2. CASE UNCHANGED pc
    BY <2>2
  <2>3. CASE \E d \in Procs : \/ Move(d, "down", "sweep") \/ Move(d, "sweep", "load")
                             \/ Move(d, "report", "sweep") \/ Move(d, "down", "load")
    BY <2>1, <2>3
  <2>4. QED
    BY <2>2, <2>3 DEF Start, Sweep, Report, StartPass, Enqueue, Elapse, passVars, Procs
<1>4. QED
  BY <1>1, <1>2, <1>3, StillCounted, StillAlone DEF PassSteps

LEMMA FaultCounts ==
    ASSUME Sound, Alone, Counted, NEW p \in Procs, SaveFails(p) \/ Die(p)
    PROVE  Alone' /\ Counted'
<1>1. /\ pc'[p] \in {"sweep", "down"} /\ \A q \in Procs : q # p => pc'[q] = pc[q]
      /\ pc[p] = "record" => At(p) \in blamed'
      /\ blamed \subseteq blamed'
  BY Moved DEF SaveFails, Die, At, Sound, Steps, PassSteps
<1>2. \A q \in Procs : q # p => UNCHANGED <<todo[q], got[q], mem[q]>>
  BY Forgotten DEF SaveFails, Die
<1>3. UNCHANGED <<disk, calls, sends>>
  BY DEF SaveFails, Die
<1>4. QED
  BY <1>1, <1>2, <1>3, StillCounted, StillAlone DEF PassSteps

LEMMA CountStep == Sound /\ Alone /\ Counted /\ [Next]_vars => Alone' /\ Counted'
<1> SUFFICES ASSUME Sound, Alone, Counted, [Next]_vars PROVE Alone' /\ Counted'
  OBVIOUS
<1>1. CASE UNCHANGED vars
  BY <1>1 DEF vars, Alone, Lonely, Known, Counted, Attempting, At, passVars, ghosts
<1>2. CASE Next
  BY <1>2, RunCounts, OtherCounts, FaultCounts DEF Next, Daemon, Procs
<1>3. QED
  BY <1>1, <1>2

LEMMA CountInit == Init => Alone /\ Counted
BY DEF Init, Alone, Lonely, Known, Counted, Attempting, PassSteps, NoLedger, NoEntry

\* For an item nobody is to blame for, the ledger's count is the true one.
LEMMA CountBounds == Sound /\ Alone /\ Counted => NoResend
<1> SUFFICES ASSUME Sound, Alone, Counted, NEW i \in Items, i \notin blamed
             PROVE  sends[i] <= 1 /\ calls[i] <= MaxAttempts
  BY CountAssumption DEF NoResend, Sound, TypeOK
<1>1. /\ disk[i] \in Entries /\ Sane(disk[i])
  BY DEF Sound, TypeOK, SaneLedgers
<1>2. \A p \in Procs : Attempting(p, i) => disk[i].status # "sent" /\ disk[i].attempts < MaxAttempts
  <2>1. SUFFICES ASSUME NEW p \in Procs, Attempting(p, i)
                 PROVE  disk[i].status # "sent" /\ disk[i].attempts < MaxAttempts
    OBVIOUS
  <2>2. mem[p][i].status = disk[i].status /\ mem[p][i].attempts = disk[i].attempts /\ ~noop(mem[p][i])
    BY <2>1 DEF Attempting, PassSteps, Alone, Known, Sound, Busy
  <2>3. QED
    BY <1>1, <2>2, CountAssumption DEF Entries, Statuses, Sane, noop, already_done, is_terminal,
       has_failure, retry_eligible
<1>3. disk[i].attempts \in 0 .. MaxAttempts
  BY <1>1 DEF Entries
<1>4. CASE \E p \in Procs : Attempting(p, i)
  <2>1. disk[i].status # "sent" /\ disk[i].attempts < MaxAttempts
    BY <1>2, <1>4
  <2>2. calls[i] = disk[i].attempts + 1
    BY <1>4 DEF Counted
  <2>3. sends[i] = 0 + (IF \E p \in Procs : Attempting(p, i) /\ got[p] = "sent" THEN 1 ELSE 0)
    BY <2>1 DEF Counted
  <2>4. QED
    BY <1>3, <2>1, <2>2, <2>3, CountAssumption
<1>5. CASE ~\E p \in Procs : Attempting(p, i)
  <2>1. calls[i] = disk[i].attempts + 0 /\ sends[i] = (IF disk[i].status = "sent" THEN 1 ELSE 0) + 0
    BY <1>5 DEF Counted
  <2>2. QED
    BY <1>3, <2>1, CountAssumption
<1>6. QED
  BY <1>4, <1>5

\* Nobody is sent the same notification twice over one channel, and nothing is
\* attempted more than MAX_ATTEMPTS times, but for what a fault or an overlap
\* is to blame for (_ledger.py, _dispatch.py).
THEOREM SentOnce == Spec => []NoResend
<1>1. Spec => [](Sound /\ Alone /\ Counted)
  BY SoundInit, SoundStep, CountInit, CountStep, PTL DEF Spec
<1>2. QED
  BY <1>1, CountBounds, PTL
=============================================================================
