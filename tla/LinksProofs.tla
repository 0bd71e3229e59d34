---------------------------- MODULE LinksProofs ----------------------------
(***************************************************************************)
(* Proofs about the closing of cards whose pull request has merged, for    *)
(* any number of cards, PRs and sweepers, any edits and any faults; and    *)
(* about the chain of plugins, for any plugins and any priorities.         *)
(***************************************************************************)
EXTENDS Links, FiniteSetTheorems, SequenceTheorems, TLAPS

-----------------------------------------------------------------------------

LEMMA SeqOf ==
    ASSUME NEW S, NEW n \in Nat, NEW f, DOMAIN f = 1 .. n,
           f = [m \in DOMAIN f |-> f[m]], \A m \in 1 .. n : f[m] \in S
    PROVE  f \in Seq(S) /\ Len(f) = n
<1>1. f \in [1 .. n -> S]
  OBVIOUS
<1>2. f \in Seq(S)
  BY <1>1, SeqDef
<1>3. QED
  BY <1>2, LenProperties

(* Types.                                                                  *)

\* A pass under way has a row it is at, a done event under way is of a PR
\* that has merged.
Passes == [at : {"idle", "scan", "close", "announce"}, rest : Seq(Rows)]
RowsLeft == \A s \in Sweepers : sweep[s].at # "idle" => sweep[s].rest # <<>>
HookMerged == hook.at # "idle" => hook.pr \in merged
Busy == RowsLeft /\ HookMerged

LEMMA RowType ==
    ASSUME TypeOK, Busy, NEW s \in Sweepers, sweep[s].at # "idle"
    PROVE  /\ sweep[s].rest \in Seq(Rows) /\ sweep[s].rest # <<>>
           /\ Row(s) \in Rows /\ Row(s) = sweep[s].rest[1]
           /\ 1 \in DOMAIN sweep[s].rest
<1>1. sweep[s].rest \in Seq(Rows) /\ sweep[s].rest # <<>>
  BY DEF TypeOK, Busy, RowsLeft
<1>2. Len(sweep[s].rest) \in Nat \ {0} /\ DOMAIN sweep[s].rest = 1 .. Len(sweep[s].rest)
  BY <1>1
<1>3. QED
  BY <1>1, <1>2 DEF Row

\* Going on leaves the rows not visited yet, and stops when there are none.
LEMMA OnwardFacts ==
    ASSUME TypeOK, Busy, NEW s \in Sweepers, sweep[s].at # "idle", Onward(s)
    PROVE  \E at \in {"idle", "scan"}, rest \in Seq(Rows) :
             /\ sweep' = [sweep EXCEPT ![s] = [at |-> at, rest |-> rest]]
             /\ at # "idle" => rest # <<>>
             /\ \A n \in DOMAIN rest : \E m \in DOMAIN sweep[s].rest : rest[n] = sweep[s].rest[m]
<1> DEFINE old == sweep[s].rest
<1>1. old \in Seq(Rows) /\ old # <<>>
  BY RowType
<1>2. Tail(old) \in Seq(Rows) /\ Len(Tail(old)) = Len(old) - 1 /\ Len(old) \in Nat \ {0}
  BY <1>1
<1>3. \A n \in DOMAIN Tail(old) : n + 1 \in DOMAIN old /\ Tail(old)[n] = old[n + 1]
  BY <1>1
<1>4. Len(old) # 1 => Tail(old) # <<>>
  <2>1. Len(<<>>) = 0
    OBVIOUS
  <2>2. Tail(old) = <<>> => Len(Tail(old)) = 0
    BY <2>1
  <2>3. QED
    BY <1>2, <2>2
<1>5. sweep' = [sweep EXCEPT ![s] = [at |-> IF Len(old) = 1 THEN "idle" ELSE "scan",
                                     rest |-> Tail(old)]]
  BY DEF Onward, Goes
<1>6. QED
  BY <1>2, <1>3, <1>4, <1>5

LEMMA CompletedType ==
    ASSUME TypeOK, NEW i \in Ids, complete_task(i)
    PROVE  /\ card' \in [Ids -> Cards]
           /\ \A j \in Ids : card'[j].pr = card[j].pr
           /\ \A j \in Ids \ {i} : card'[j] = card[j]
<1>1. /\ [card[i] EXCEPT !.status = "done"] \in Cards
      /\ [card[i] EXCEPT !.status = "done"].pr = card[i].pr
  BY DEF TypeOK, Cards, Statuses
<1>2. card' = [card EXCEPT ![i] = [card[i] EXCEPT !.status = "done"]]
  BY DEF complete_task
<1>3. QED
  BY <1>1, <1>2 DEF TypeOK

LEMMA RelinkedType ==
    ASSUME TypeOK, NEW i \in Ids, NEW pr \in Prs, card' = [card EXCEPT ![i].pr = pr]
    PROVE  /\ card' \in [Ids -> Cards]
           /\ \A j \in Ids : card'[j].pr = IF j = i THEN pr ELSE card[j].pr
           /\ \A j \in Ids : card'[j].status = card[j].status
<1>1. /\ [card[i] EXCEPT !.pr = pr] \in Cards
      /\ [card[i] EXCEPT !.pr = pr].pr = pr
      /\ [card[i] EXCEPT !.pr = pr].status = card[i].status
  BY DEF TypeOK, Cards
<1>2. card' = [card EXCEPT ![i] = [card[i] EXCEPT !.pr = pr]]
  OBVIOUS
<1>3. QED
  BY <1>1, <1>2 DEF TypeOK

LEMMA EditedType ==
    ASSUME TypeOK, NEW i \in Ids, NEW status \in Statuses, NEW blocker \in BOOLEAN,
           card' = [card EXCEPT ![i].status = status, ![i].blocker = blocker]
    PROVE  /\ card' \in [Ids -> Cards]
           /\ \A j \in Ids : card'[j].pr = card[j].pr
           /\ \A j \in Ids : card'[j].status = IF j = i THEN status ELSE card[j].status
<1> DEFINE edited == [card[i] EXCEPT !.status = status, !.blocker = blocker]
<1>1. edited \in Cards /\ edited.pr = card[i].pr /\ edited.status = status
  BY DEF TypeOK, Cards
<1>2. card' = [card EXCEPT ![i] = edited] /\ card \in [Ids -> Cards]
  BY DEF TypeOK
<1> HIDE DEF edited
<1>3. \A j \in Ids : card'[j] = IF j = i THEN edited ELSE card[j]
  BY <1>2
<1>4. card' \in [Ids -> Cards]
  BY <1>1, <1>2
<1>5. QED
  BY <1>1, <1>3, <1>4

\* An edit completes no card; a card it gives a PR was linked to it.
LEMMA EditFacts ==
    ASSUME TypeOK, NEW i \in Ids, Edit(i)
    PROVE  /\ card' \in [Ids -> Cards] /\ linked' \in [Ids -> SUBSET Prs]
           /\ \A j \in Ids : linked[j] \subseteq linked'[j]
           /\ \A j \in Ids : card'[j].pr = card[j].pr \/ card'[j].pr \in linked'[j]
           /\ \A j \in Ids : card'[j].status = "done" => card[j].status = "done"
<1>1. CASE \E pr \in Prs : /\ card' = [card EXCEPT ![i].pr = pr]
                           /\ linked' = [linked EXCEPT ![i] = @ \cup {pr}]
  <2>1. PICK pr \in Prs : /\ card' = [card EXCEPT ![i].pr = pr]
                          /\ linked' = [linked EXCEPT ![i] = @ \cup {pr}]
    BY <1>1
  <2>2. /\ linked' \in [Ids -> SUBSET Prs] /\ pr \in linked'[i]
        /\ \A j \in Ids : linked[j] \subseteq linked'[j]
    BY <2>1 DEF TypeOK
  <2>3. /\ card' \in [Ids -> Cards]
        /\ \A j \in Ids : card'[j].pr = IF j = i THEN pr ELSE card[j].pr
        /\ \A j \in Ids : card'[j].status = card[j].status
    BY <2>1, RelinkedType
  <2>4. QED
    BY <2>2, <2>3
<1>2. CASE /\ \E status \in Statuses \ {"done"}, blocker \in BOOLEAN :
                 card' = [card EXCEPT ![i].status = status, ![i].blocker = blocker]
           /\ UNCHANGED linked
  <2>1. PICK status \in Statuses \ {"done"}, blocker \in BOOLEAN :
          card' = [card EXCEPT ![i].status = status, ![i].blocker = blocker]
    BY <1>2
  <2>2. /\ card' \in [Ids -> Cards]
        /\ \A j \in Ids : card'[j].pr = card[j].pr
        /\ \A j \in Ids : card'[j].status = IF j = i THEN status ELSE card[j].status
    BY <2>1, EditedType
  <2>3. linked' = linked /\ linked \in [Ids -> SUBSET Prs]
    BY <1>2 DEF TypeOK
  <2>4. QED
    BY <2>1, <2>2, <2>3
<1>3. QED
  BY <1>1, <1>2 DEF Edit

\* A pass goes somewhere.
LEMMA PassType ==
    ASSUME TypeOK, Busy, NEW s \in Sweepers,
           NEW at \in {"idle", "scan", "close", "announce"}, NEW rest \in Seq(Rows),
           at # "idle" => rest # <<>>,
           sweep' = [sweep EXCEPT ![s] = [at |-> at, rest |-> rest]]
    PROVE  sweep' \in [Sweepers -> Passes] /\ RowsLeft'
<1>1. [at |-> at, rest |-> rest] \in Passes
  BY DEF Passes
<1>2. sweep \in [Sweepers -> Passes]
  BY DEF TypeOK, Passes
<1>3. sweep' \in [Sweepers -> Passes]
  BY <1>1, <1>2
<1>4. ASSUME NEW t \in Sweepers, sweep'[t].at # "idle"
      PROVE  sweep'[t].rest # <<>>
  <2>1. CASE t = s
    BY <1>2, <1>4, <2>1
  <2>2. CASE t # s
    BY <1>2, <1>4, <2>2 DEF Busy, RowsLeft
  <2>3. QED
    BY <2>1, <2>2
<1>5. QED
  BY <1>3, <1>4 DEF RowsLeft

\* The steps of a sweeper.
LEMMA SweeperTypes ==
    ASSUME TypeOK, Busy, NEW s \in Sweepers, Sweep(s) \/ Die(s)
    PROVE  TypeOK' /\ Busy'
<1> USE DEF TypeOK, Passes
<1>1. CASE Load(s)
  <2> DEFINE snap == [n \in DOMAIN Order |-> [id |-> Order[n], was |-> card[Order[n]]]]
  <2>1. Len(Order) \in Nat \ {0} /\ DOMAIN Order = 1 .. Len(Order)
    BY OrderAssumption, EmptySeq
  <2>2. \A n \in DOMAIN Order : [id |-> Order[n], was |-> card[Order[n]]] \in Rows
    BY DEF Rows, Ids
  <2>3. snap \in Seq(Rows) /\ Len(snap) = Len(Order)
    <3>1. DOMAIN snap = 1 .. Len(Order) /\ snap = [m \in DOMAIN snap |-> snap[m]]
      BY <2>1
    <3>2. \A m \in 1 .. Len(Order) : snap[m] \in Rows
      BY <2>1, <2>2
    <3> HIDE DEF snap
    <3>3. QED
      BY <2>1, <3>1, <3>2, SeqOf
  <2>4. snap # <<>>
    BY <2>1, <2>3
  <2>5. sweep' = [sweep EXCEPT ![s] = [at |-> "scan", rest |-> snap]]
    BY <1>1 DEF Load, Goes
  <2> HIDE DEF snap
  <2>6. sweep' \in [Sweepers -> Passes] /\ RowsLeft'
    BY <2>3, <2>4, <2>5, PassType
  <2>7. QED
    BY <1>1, <2>6 DEF Load, Busy, HookMerged
<1>2. CASE Skip(s) \/ _apply_close(s)
  <2>1. sweep[s].at # "idle" /\ Onward(s)
    BY <1>2 DEF Skip, _apply_close
  <2>2. sweep' \in [Sweepers -> Passes] /\ RowsLeft'
    BY <2>1, OnwardFacts, PassType
  <2>3. QED
    BY <1>2, <2>2 DEF Skip, _apply_close, Busy, HookMerged
<1>3. CASE Decide(s)
  <2>1. sweep[s].at = "scan" /\ sweep[s].rest \in Seq(Rows) /\ sweep[s].rest # <<>>
    BY <1>3, RowType DEF Decide
  <2>2. faults' \in 0 .. MaxFaults
    BY <1>3, BoundAssumption DEF Decide
  <2>3. Goes(s, "close", sweep[s].rest) \/ Onward(s)
    BY <1>3 DEF Decide
  <2>4. sweep' \in [Sweepers -> Passes] /\ RowsLeft'
    <3>1. CASE Goes(s, "close", sweep[s].rest)
      BY <2>1, <3>1, PassType DEF Goes
    <3>2. CASE Onward(s)
      BY <2>1, <3>2, OnwardFacts, PassType
    <3>3. QED
      BY <2>3, <3>1, <3>2
  <2>5. QED
    BY <1>3, <2>2, <2>4 DEF Decide, Busy, HookMerged
<1>4. CASE Close(s)
  <2>1. sweep[s].rest \in Seq(Rows) /\ sweep[s].rest # <<>> /\ Row(s).id \in Ids
    BY <1>4, RowType DEF Close, Rows
  <2>2. sweep' \in [Sweepers -> Passes] /\ RowsLeft'
    <3>1. <<>> \in Seq(Rows)
      BY EmptySeq
    <3>2. Goes(s, "idle", <<>>) \/ Goes(s, "announce", sweep[s].rest)
      BY <1>4 DEF Close
    <3>3. QED
      BY <2>1, <3>1, <3>2, PassType DEF Goes
  <2>3. card' \in [Ids -> Cards]
    BY <1>4, <2>1, CompletedType DEF Close
  <2>4. QED
    BY <1>4, <2>2, <2>3 DEF Close, Busy, HookMerged
<1>5. CASE Die(s)
  <2>1. <<>> \in Seq(Rows)
    BY EmptySeq
  <2>2. sweep' \in [Sweepers -> Passes] /\ RowsLeft'
    BY <1>5, <2>1, PassType DEF Die, Goes
  <2>3. faults' \in 0 .. MaxFaults
    BY <1>5, BoundAssumption DEF Die
  <2>4. QED
    BY <1>5, <2>2, <2>3 DEF Die, Busy, HookMerged
<1>6. QED
  BY <1>1, <1>2, <1>3, <1>4, <1>5 DEF Sweep

\* The event hook, sync-github and people do not touch the passes.
LEMMA OtherTypes ==
    ASSUME TypeOK, Busy,
           \/ Stamp \/ Complete
           \/ \E i \in Ids : Edit(i) \/ \E pr \in Prs : _handle_done(i, pr)
           \/ sync_github_cmd \/ SyncEnds \/ \E x \in todo : SyncDone(x)
           \/ \E pr \in Prs : Merge(pr)
    PROVE  TypeOK' /\ Busy'
<1> USE DEF TypeOK, Busy
<1>1. CASE Stamp
  <2>1. CASE Absent(hook.card)
    <3>1. NoHook \in [at : {"idle"}, card : Ids, pr : Prs \cup {NoPr}]
      BY OrderAssumption, EmptySeq DEF NoHook, Ids
    <3>2. QED
      BY <1>1, <2>1, <3>1 DEF Stamp, RowsLeft, HookMerged
  <2>2. CASE ~Absent(hook.card)
    <3>1. hook.pr \in merged /\ hook.pr \in Prs /\ hook.card \in Ids
      BY <1>1 DEF Stamp, HookMerged
    <3>2. card' \in [Ids -> Cards]
      BY <1>1, <2>2, <3>1, RelinkedType DEF Stamp
    <3>3. linked' \in [Ids -> SUBSET Prs]
      BY <1>1, <2>2, <3>1 DEF Stamp
    <3>4. hook' \in [at : {"complete"}, card : Ids, pr : merged] /\ hook'.pr \in Prs
      BY <1>1, <2>2, <3>1 DEF Stamp
    <3>5. QED
      BY <1>1, <3>2, <3>3, <3>4 DEF Stamp, RowsLeft, HookMerged
  <2>3. QED
    BY <2>1, <2>2
<1>2. CASE Complete
  <2>1. hook' \in [at : {"idle"}, card : Ids, pr : Prs \cup {NoPr}]
    BY <1>2, OrderAssumption, EmptySeq DEF Complete, NoHook, Ids
  <2>2. card' \in [Ids -> Cards]
    BY <1>2, CompletedType DEF Complete
  <2>3. QED
    BY <1>2, <2>1, <2>2 DEF Complete, RowsLeft, HookMerged
<1>3. CASE \E i \in Ids : Edit(i)
  <2>1. PICK i \in Ids : Edit(i)
    BY <1>3
  <2>2. card' \in [Ids -> Cards] /\ linked' \in [Ids -> SUBSET Prs]
    BY <2>1, EditFacts
  <2>3. edits' \in 0 .. MaxEdits
    BY <2>1, BoundAssumption DEF Edit
  <2>4. QED
    BY <2>1, <2>2, <2>3 DEF Edit, RowsLeft, HookMerged
<1>4. CASE \E i \in Ids, pr \in Prs : _handle_done(i, pr)
  BY <1>4 DEF _handle_done, RowsLeft, HookMerged
<1>5. CASE sync_github_cmd
  BY <1>5 DEF sync_github_cmd, RowsLeft, HookMerged
<1>6. CASE SyncEnds
  BY <1>6 DEF SyncEnds, RowsLeft, HookMerged
<1>7. CASE \E x \in todo : SyncDone(x)
  <2>1. PICK x \in todo : SyncDone(x)
    BY <1>7
  <2>2. x[2] \in Ids /\ todo' \subseteq todo
    BY <2>1 DEF SyncDone
  <2>3. card' \in [Ids -> Cards]
    BY <2>1, <2>2, CompletedType DEF SyncDone
  <2>4. QED
    BY <2>1, <2>2, <2>3 DEF SyncDone, RowsLeft, HookMerged
<1>8. CASE \E pr \in Prs : Merge(pr)
  BY <1>8 DEF Merge, RowsLeft, HookMerged
<1>9. QED
  BY <1>1, <1>2, <1>3, <1>4, <1>5, <1>6, <1>7, <1>8

LEMMA InitTypes == Init => TypeOK /\ Busy
<1> SUFFICES ASSUME Init PROVE TypeOK /\ Busy
  OBVIOUS
<1>1. NoHook \in [at : {"idle"}, card : Ids, pr : Prs \cup {NoPr}]
  BY OrderAssumption, EmptySeq DEF NoHook, Ids
<1>2. Resting \in Passes /\ Resting.at = "idle"
  BY EmptySeq DEF Resting, Passes
<1>3. card \in [Ids -> Cards]
  BY DEF Init
<1>4. linked \in [Ids -> SUBSET Prs]
  BY <1>3 DEF Init, Cards
<1>5. sweep \in [Sweepers -> Passes] /\ RowsLeft
  BY <1>2 DEF Init, RowsLeft
<1>6. QED
  BY <1>1, <1>3, <1>4, <1>5, BoundAssumption DEF Init, TypeOK, Busy, HookMerged, Passes

LEMMA StepTypes == TypeOK /\ Busy /\ [Next]_vars => TypeOK' /\ Busy'
<1> SUFFICES ASSUME TypeOK, Busy, [Next]_vars PROVE TypeOK' /\ Busy'
  OBVIOUS
<1>1. CASE Next
  BY <1>1, SweeperTypes, OtherTypes DEF Next
<1>2. CASE UNCHANGED vars
  BY <1>2 DEF vars, TypeOK, Busy, RowsLeft, HookMerged
<1>3. QED
  BY <1>1, <1>2

\* Every variable keeps its type; a pass under way is at a row of its
\* snapshot, and the PR of a done event under way has merged
\* (reconcile_merged_prs, _handle_done).
THEOREM TypesHold == Spec => [](TypeOK /\ Busy)
<1>1. Init => TypeOK /\ Busy
  BY InitTypes
<1>2. TypeOK /\ Busy /\ [Next]_vars => TypeOK' /\ Busy'
  BY StepTypes
<1>3. QED
  BY <1>1, <1>2, PTL DEF Spec

-----------------------------------------------------------------------------
(* A card is closed only for a PR it was linked to and that has merged.    *)
(* What the passes and sync-github carry may be old, what it says of a     *)
(* link or of a merge stays true: links are remembered, merges final.      *)

CardsLinked == \A i \in Ids : card[i].pr # NoPr => card[i].pr \in linked[i]
RowsLinked ==
    \A s \in Sweepers : \A n \in DOMAIN sweep[s].rest :
        LET row == sweep[s].rest[n]
        IN  row.was.pr # NoPr => row.was.pr \in linked[row.id]
CloseMerged ==
    \A s \in Sweepers : sweep[s].at = "close" => Row(s).was.pr \in merged \ {NoPr}
HookLinked == hook.at = "complete" => hook.pr \in linked[hook.card]
TodoLinked == \A x \in todo : x[1] \in linked[x[2]]

ClosedForMerged == CardsLinked /\ RowsLinked /\ CloseMerged /\ HookLinked /\ TodoLinked

LEMMA RowLinked ==
    ASSUME TypeOK, Busy, RowsLinked, NEW s \in Sweepers, sweep[s].at # "idle",
           Row(s).was.pr # NoPr
    PROVE  Row(s).was.pr \in linked[Row(s).id] /\ Row(s).id \in Ids
BY RowType DEF RowsLinked, Rows

\* A pass that keeps some of its rows, and only these, keeps RowsLinked.
LEMMA RowsKept ==
    ASSUME RowsLinked, UNCHANGED linked, NEW s \in Sweepers,
           \A t \in Sweepers \ {s} : sweep'[t] = sweep[t],
           \A n \in DOMAIN sweep'[s].rest :
               \E m \in DOMAIN sweep[s].rest : sweep'[s].rest[n] = sweep[s].rest[m]
    PROVE  RowsLinked'
<1>1. ASSUME NEW t \in Sweepers, NEW n \in DOMAIN sweep'[t].rest,
             sweep'[t].rest[n].was.pr # NoPr
      PROVE  sweep'[t].rest[n].was.pr \in linked'[sweep'[t].rest[n].id]
  <2>1. PICK m \in DOMAIN sweep[t].rest : sweep'[t].rest[n] = sweep[t].rest[m]
    OBVIOUS
  <2>2. QED
    BY <1>1, <2>1 DEF RowsLinked
<1>2. QED
  BY <1>1 DEF RowsLinked

\* What a sweeper goes on with is what it had.
LEMMA SweeperKeepsRows ==
    ASSUME TypeOK, Busy, ClosedForMerged, NEW s \in Sweepers,
           Skip(s) \/ Decide(s) \/ Close(s) \/ _apply_close(s) \/ Die(s)
    PROVE  RowsLinked'
<1>1. UNCHANGED linked /\ RowsLinked
  BY DEF Skip, Decide, Close, _apply_close, Die, ClosedForMerged
<1>2. /\ \A t \in Sweepers \ {s} : sweep'[t] = sweep[t]
      /\ \A n \in DOMAIN sweep'[s].rest :
            \E m \in DOMAIN sweep[s].rest : sweep'[s].rest[n] = sweep[s].rest[m]
  <2>1. CASE Onward(s) /\ sweep[s].at # "idle"
    <3>1. PICK at \in {"idle", "scan"}, rest \in Seq(Rows) :
            /\ sweep' = [sweep EXCEPT ![s] = [at |-> at, rest |-> rest]]
            /\ at # "idle" => rest # <<>>
            /\ \A n \in DOMAIN rest :
                  \E m \in DOMAIN sweep[s].rest : rest[n] = sweep[s].rest[m]
      BY <2>1, OnwardFacts
    <3>2. QED
      BY <3>1 DEF TypeOK
  <2>2. CASE Goes(s, "close", sweep[s].rest) \/ Goes(s, "announce", sweep[s].rest)
    BY <2>2 DEF Goes, TypeOK
  <2>3. CASE Goes(s, "idle", <<>>)
    <3>1. /\ \A t \in Sweepers \ {s} : sweep'[t] = sweep[t]
          /\ sweep'[s].rest = <<>>
      BY <2>3 DEF Goes, TypeOK
    <3>2. DOMAIN <<>> = {}
      OBVIOUS
    <3>3. QED
      BY <3>1, <3>2
  <2>4. QED
    BY <2>1, <2>2, <2>3 DEF Skip, Decide, Close, _apply_close, Die
<1>3. QED
  BY <1>1, <1>2, RowsKept

LEMMA DecidesMerged ==
    ASSUME NEW pr, "merged" \in default_merge_state_fn(pr)
    PROVE  pr \in merged
BY DEF default_merge_state_fn, _gh_merge_state, _rest_merge_state, Truth

LEMMA SweeperClosesMerged ==
    ASSUME TypeOK, Busy, ClosedForMerged, NEW s \in Sweepers, Sweep(s) \/ Die(s)
    PROVE  ClosedForMerged'
<1>1. /\ UNCHANGED <<hook, todo, linked, merged>>
      /\ TypeOK' /\ Busy'
  BY SweeperTypes DEF Sweep, Load, Skip, Decide, Close, _apply_close, Die
<1>2. HookLinked' /\ TodoLinked'
  BY <1>1 DEF ClosedForMerged, HookLinked, TodoLinked
<1>3. CardsLinked'
  <2>1. \A i \in Ids : card'[i].pr = card[i].pr
    <3>1. CASE Close(s)
      BY <3>1, RowType DEF Close, complete_task, TypeOK, Cards, Rows
    <3>2. CASE ~Close(s)
      BY <3>2 DEF Sweep, Load, Skip, Decide, _apply_close, Die
    <3>3. QED
      BY <3>1, <3>2
  <2>2. QED
    BY <1>1, <2>1 DEF ClosedForMerged, CardsLinked
<1>4. RowsLinked'
  <2>1. CASE Load(s)
    <3>1. sweep' = [sweep EXCEPT ![s] = [at |-> "scan",
            rest |-> [n \in DOMAIN Order |-> [id |-> Order[n], was |-> card[Order[n]]]]]]
      BY <2>1 DEF Load, Goes
    <3>2. ASSUME NEW t \in Sweepers, NEW n \in DOMAIN sweep'[t].rest,
                 sweep'[t].rest[n].was.pr # NoPr
          PROVE  sweep'[t].rest[n].was.pr \in linked'[sweep'[t].rest[n].id]
      <4>1. CASE t = s
        BY <1>1, <3>1, <3>2, <4>1 DEF TypeOK, ClosedForMerged, CardsLinked, Ids
      <4>2. CASE t # s
        BY <1>1, <3>1, <3>2, <4>2 DEF TypeOK, ClosedForMerged, RowsLinked
      <4>3. QED
        BY <4>1, <4>2
    <3>3. QED
      BY <3>2 DEF RowsLinked
  <2>2. QED
    BY <2>1, SweeperKeepsRows DEF Sweep
<1>5. CloseMerged'
  <2>1. ASSUME NEW t \in Sweepers, sweep'[t].at = "close"
        PROVE  Row(t)'.was.pr \in merged' \ {NoPr}
    <3>1. CASE t # s
      BY <1>1, <2>1, <3>1
         DEF Sweep, Load, Skip, Decide, Close, _apply_close, Die, Onward, Goes,
             Row, ClosedForMerged, CloseMerged, TypeOK
    <3>2. CASE t = s
      <4>1. Decide(s) /\ Goes(s, "close", sweep[s].rest)
        BY <2>1, <3>2
           DEF Sweep, Load, Skip, Decide, Close, _apply_close, Die, Onward, Goes, TypeOK
      <4>2. Row(s)' = Row(s)
        BY <4>1 DEF Goes, Row, TypeOK
      <4>3. ~Onward(s)
        BY <2>1, <3>2 DEF Onward, Goes, TypeOK
      <4>4. Row(s).was.pr # NoPr /\ "merged" \in default_merge_state_fn(Row(s).was.pr)
        BY <4>1, <4>3 DEF Decide, Candidate, Closes
      <4>5. QED
        BY <1>1, <3>2, <4>2, <4>4, DecidesMerged
    <3>3. QED
      BY <3>1, <3>2
  <2>2. QED
    BY <2>1 DEF CloseMerged
<1>6. QED
  BY <1>2, <1>3, <1>4, <1>5 DEF ClosedForMerged

LEMMA OtherClosesMerged ==
    ASSUME TypeOK, Busy, ClosedForMerged,
           \/ Stamp \/ Complete
           \/ \E i \in Ids : Edit(i) \/ \E pr \in Prs : _handle_done(i, pr)
           \/ sync_github_cmd \/ SyncEnds \/ \E x \in todo : SyncDone(x)
           \/ \E pr \in Prs : Merge(pr)
    PROVE  ClosedForMerged'
<1>1. /\ UNCHANGED sweep /\ merged \subseteq merged'
      /\ \A i \in Ids : linked[i] \subseteq linked'[i]
  BY DEF Stamp, Complete, Edit, _handle_done, sync_github_cmd, SyncEnds, SyncDone, Merge, TypeOK
<1>2. CloseMerged'
  BY <1>1 DEF ClosedForMerged, CloseMerged, Row
<1>3. RowsLinked'
  <2>1. ASSUME NEW t \in Sweepers, NEW n \in DOMAIN sweep[t].rest
        PROVE  sweep[t].rest[n].id \in Ids
    <3>1. sweep[t].rest \in Seq(Rows)
      BY DEF TypeOK
    <3>2. sweep[t].rest[n] \in Rows
      BY <3>1, ElementOfSeq, LenProperties
    <3>3. QED
      BY <3>2 DEF Rows
  <2>2. QED
    BY <1>1, <2>1 DEF ClosedForMerged, RowsLinked
<1>4. CardsLinked'
  <2>1. ASSUME NEW i \in Ids, card'[i].pr # NoPr
        PROVE  card'[i].pr \in linked'[i]
    <3>1. CASE card'[i].pr = card[i].pr
      BY <1>1, <2>1, <3>1 DEF ClosedForMerged, CardsLinked
    <3>2. CASE Stamp
      BY <1>1, <2>1, <3>2 DEF Stamp, TypeOK, Cards, ClosedForMerged, CardsLinked
    <3>3. CASE Complete \/ \E x \in todo : SyncDone(x)
      <4>1. card'[i].pr = card[i].pr
        <5>1. CASE UNCHANGED card
          BY <5>1
        <5>2. CASE \E j \in Ids : complete_task(j)
          BY <5>2, CompletedType
        <5>3. QED
          BY <3>3, <5>1, <5>2 DEF Complete, SyncDone, TypeOK
      <4>2. QED
        BY <3>1, <4>1
    <3>4. CASE \E j \in Ids : Edit(j)
      BY <2>1, <3>1, <3>4, EditFacts
    <3>5. CASE UNCHANGED card
      BY <3>1, <3>5
    <3>6. QED
      BY <3>2, <3>3, <3>4, <3>5 DEF _handle_done, sync_github_cmd, SyncEnds, Merge
  <2>2. QED
    BY <2>1 DEF CardsLinked
<1>5. HookLinked'
  BY <1>1 DEF Stamp, Complete, Edit, _handle_done, sync_github_cmd, SyncEnds, SyncDone, Merge,
              TypeOK, NoHook, ClosedForMerged, HookLinked
<1>6. TodoLinked'
  <2>1. CASE todo' \subseteq todo
    BY <1>1, <2>1 DEF ClosedForMerged, TodoLinked, TypeOK
  <2>2. CASE sync_github_cmd
    <3>1. ASSUME NEW x \in todo'
          PROVE  x[1] \in linked'[x[2]]
      <4>1. x \in Prs \X Ids /\ x[2] \in LastOf(by_pr_url(x[1]))
        BY <2>2, <3>1 DEF sync_github_cmd
      <4>2. card[x[2]].pr = x[1]
        BY <4>1 DEF LastOf, by_pr_url
      <4>3. QED
        BY <1>1, <4>1, <4>2, NoPrAssumption DEF ClosedForMerged, CardsLinked
    <3>2. QED
      BY <3>1 DEF TodoLinked
  <2>3. QED
    BY <2>1, <2>2 DEF Stamp, Complete, Edit, _handle_done, SyncEnds, SyncDone, Merge
<1>7. QED
  BY <1>2, <1>3, <1>4, <1>5, <1>6 DEF ClosedForMerged

LEMMA InitClosesMerged == Init => ClosedForMerged
BY EmptySeq DEF Init, ClosedForMerged, CardsLinked, RowsLinked, CloseMerged, HookLinked,
               TodoLinked, Resting, NoHook

LEMMA StepClosesMerged ==
    TypeOK /\ Busy /\ ClosedForMerged /\ [Next]_vars => ClosedForMerged'
<1> SUFFICES ASSUME TypeOK, Busy, ClosedForMerged, [Next]_vars PROVE ClosedForMerged'
  OBVIOUS
<1>1. CASE Next
  BY <1>1, SweeperClosesMerged, OtherClosesMerged DEF Next
<1>2. CASE UNCHANGED vars
  BY <1>2 DEF vars, ClosedForMerged, CardsLinked, RowsLinked, CloseMerged, HookLinked,
              TodoLinked, Row
<1>3. QED
  BY <1>1, <1>2

\* A card that a step completes was linked to a PR that has merged.
LEMMA CompletesMerged ==
    ASSUME TypeOK, Busy, ClosedForMerged, Next, NEW i \in Ids,
           card'[i].status = "done", card[i].status # "done"
    PROVE  linked[i] \cap merged # {}
<1>1. ASSUME NEW s \in Sweepers, Close(s)
      PROVE  linked[i] \cap merged # {}
  <2>1. i = Row(s).id
    BY <1>1 DEF Close, complete_task, TypeOK
  <2>2. QED
    BY <1>1, <2>1, RowLinked DEF Close, ClosedForMerged, CloseMerged
<1>2. CASE Complete
  <2>1. i = hook.card /\ hook.at = "complete"
    BY <1>2 DEF Complete, complete_task, TypeOK
  <2>2. QED
    BY <2>1 DEF ClosedForMerged, HookLinked, Busy, HookMerged
<1>3. CASE \E x \in todo : SyncDone(x)
  <2>1. PICK x \in todo : SyncDone(x)
    BY <1>3
  <2>2. i = x[2]
    BY <2>1 DEF SyncDone, complete_task, TypeOK
  <2>3. QED
    BY <2>1, <2>2 DEF SyncDone, ClosedForMerged, TodoLinked
<1>4. CASE Stamp
  BY <1>4 DEF Stamp, TypeOK, Cards
<1>5. CASE \E j \in Ids : Edit(j)
  BY <1>5, EditFacts
<1>6. CASE UNCHANGED card
  BY <1>6
<1>7. QED
  BY <1>1, <1>2, <1>3, <1>4, <1>5, <1>6
     DEF Next, Sweep, Load, Skip, Decide, _apply_close, Die, _handle_done, sync_github_cmd,
         SyncEnds, Merge

\* A card is completed only when a PR it was linked to has merged, whatever
\* the passes, sync-github and the done event carry from earlier loads
\* (_reconcile_prs.py, "We NEVER wrongly close").
THEOREM OnlyMergedIsClosed == Spec => NeverWronglyClosed
<1>1. Init => ClosedForMerged
  BY InitClosesMerged
<1>2. TypeOK /\ Busy /\ ClosedForMerged /\ [Next]_vars => ClosedForMerged'
  BY StepClosesMerged
<1>3. TypeOK /\ Busy /\ ClosedForMerged /\ [Next]_vars
        => [\A i \in Ids : card'[i].status = "done" /\ card[i].status # "done"
               => linked[i] \cap merged # {}]_vars
  BY CompletesMerged
<1>4. QED
  BY <1>1, <1>2, <1>3, TypesHold, PTL DEF Spec, NeverWronglyClosed

-----------------------------------------------------------------------------
(* The chain of plugins.                                                   *)

LEMMA PluginSteps == LinkSpec => Plugins!Init /\ [][Plugins!Next]_pluginVars
<1>1. [LinkNext]_linkVars => [Plugins!Next]_pluginVars
  BY DEF LinkNext, Dispatches, Sweeps, Polls, linkVars, pluginVars
<1>2. QED
  BY <1>1, PTL DEF LinkSpec, LinkInit

\* The dispatcher's position separates the handlers called from the rest of
\* the chain, which comes after them in the order.
PluginTypes ==
    /\ priority \in [Names -> Priorities] /\ critical \subseteq Names
    /\ chain \in Seq(Names)
    /\ main \in [at : {"load", "call", "join", "done", "aborted"}, fn : Names \cup {0}]
    /\ worker \in [Names -> {"none", "running", "returned", "raised"}]
    /\ event \subseteq Names
    /\ saw \in [Names -> SUBSET Names]
StillToCall ==
    /\ Plugins!Sorted(chain)
    /\ \A k \in 1 .. Len(chain) :
          /\ ~Plugins!Called(chain[k])
          /\ \A n \in Names : Plugins!Called(n) => Plugins!Earlier(n, chain[k])
    /\ main.at = "load" => \A n \in Names : ~Plugins!Called(n)
\* What the chain has left behind: while it goes on, every critical handler
\* before the one in hand has returned, and its field is in the event.
InHand ==
    main.at = "join" => /\ main.fn \in Names
                        /\ \A n \in Names : Plugins!Called(n) => n = main.fn \/ Plugins!Earlier(n, main.fn)
CriticalAreOver ==
    /\ \A c \in critical : main.at = "call" /\ Plugins!Called(c) => worker[c] = "returned"
    /\ \A c \in critical :
          main.at = "join" /\ Plugins!Called(c) /\ c # main.fn => worker[c] = "returned"
ReturnsAreWritten == \A n \in Names : worker[n] = "returned" => n \in event
Chained ==
    /\ PluginTypes /\ StillToCall /\ InHand /\ CriticalAreOver
    /\ ReturnsAreWritten /\ CriticalComesFirst

LEMMA ChainedInit == Plugins!Init => Chained
<1> SUFFICES ASSUME Plugins!Init PROVE Chained
  OBVIOUS
<1>1. <<>> \in Seq(Names) /\ Len(<<>>) = 0 /\ DOMAIN <<>> = {}
  BY EmptySeq
<1>2. PluginTypes
  BY <1>1 DEF Plugins!Init, PluginTypes, Plugins!Nobody
<1>3. StillToCall /\ InHand /\ CriticalAreOver /\ ReturnsAreWritten /\ CriticalComesFirst
  BY <1>1 DEF Plugins!Init, StillToCall, Plugins!Sorted, InHand, CriticalAreOver,
     ReturnsAreWritten, CriticalComesFirst, Plugins!CriticalComesFirst, Plugins!Called
<1>4. QED
  BY <1>2, <1>3 DEF Chained

\* Two handlers are in one order only, whatever their priorities.
LEMMA OneOrder ==
    ASSUME PluginTypes, NEW m \in Names, NEW n \in Names, Plugins!Earlier(m, n)
    PROVE  m # n /\ ~Plugins!Earlier(n, m)
<1>1. priority[m] \in Int /\ priority[n] \in Int /\ m \in Nat /\ n \in Nat
  BY PluginAssumption DEF PluginTypes
<1>2. QED
  BY <1>1 DEF Plugins!Earlier

LEMMA ChainedDiscover == Chained /\ Plugins!Discover => Chained'
<1> SUFFICES ASSUME Chained, Plugins!Discover PROVE Chained'
  OBVIOUS
<1>1. PICK loaded \in SUBSET Names :
        \E handlers \in [1 .. Plugins!Cardinality(loaded) -> loaded] :
            Plugins!Sorted(handlers) /\ chain' = handlers
  BY DEF Plugins!Discover
<1>2. Plugins!Sorted(chain')
  BY <1>1
<1>3. main.at = "load" /\ main' = [at |-> "call", fn |-> 0]
      /\ UNCHANGED <<priority, critical, bounded, worker, event, saw>>
  BY DEF Plugins!Discover, Plugins!At, Plugins!Nobody
<1>4. \A n \in Names : ~Plugins!Called(n) /\ worker[n] = "none"
  BY <1>3 DEF Chained, StillToCall, Plugins!Called
<1>5. chain' \in Seq(Names)
  <2>1. Plugins!Cardinality(loaded) \in Nat
    <3>1. Cardinality(loaded) \in Nat
      BY PluginAssumption, FS_Subset, FS_CardinalityType
    <3>2. QED
      BY <3>1 DEF Plugins!Cardinality, Cardinality
  <2>2. chain' \in [1 .. Plugins!Cardinality(loaded) -> Names]
    BY <1>1
  <2>3. QED
    BY <2>1, <2>2, SeqDef
<1>6. PluginTypes'
  BY <1>3, <1>5 DEF Chained, PluginTypes
<1>7. StillToCall'
  <2>1. \A k \in 1 .. Len(chain') : chain'[k] \in Names
    BY <1>5
  <2>2. Plugins!Sorted(chain)'
    BY <1>2, <1>3 DEF Plugins!Sorted, Plugins!Earlier
  <2>3. QED
    BY <1>3, <1>4, <2>1, <2>2 DEF StillToCall, Plugins!Called
<1>8. InHand' /\ CriticalAreOver' /\ ReturnsAreWritten'
  BY <1>3, <1>4 DEF Chained, PluginTypes, InHand, CriticalAreOver, ReturnsAreWritten, Plugins!Called
<1>9. CriticalComesFirst'
  BY <1>3, <1>4 DEF Chained, PluginTypes, CriticalComesFirst, Plugins!CriticalComesFirst, Plugins!Called
<1>10. QED
  BY <1>6, <1>7, <1>8, <1>9 DEF Chained

\* The handler that is called comes after all that were called: what is
\* critical among them has returned, and its field is in the event it finds.
LEMMA ChainedCall == Chained /\ Plugins!Call => Chained'
<1> SUFFICES ASSUME Chained, Plugins!Call PROVE Chained'
  OBVIOUS
<1> DEFINE fn == chain[1]
<1>1. /\ main.at = "call" /\ chain # <<>> /\ chain \in Seq(Names)
      /\ main' = [at |-> "join", fn |-> fn]
      /\ worker' = [worker EXCEPT ![fn] = "running"]
      /\ saw' = [saw EXCEPT ![fn] = event]
      /\ chain' = Tail(chain)
      /\ UNCHANGED <<priority, critical, bounded, event>>
  BY DEF Plugins!Call, Plugins!At, Chained, PluginTypes
<1>2. Len(chain) \in Nat \ {0} /\ 1 \in 1 .. Len(chain) /\ DOMAIN chain = 1 .. Len(chain) /\ fn \in Names
  BY <1>1
<1>3. /\ chain' \in Seq(Names) /\ Len(chain') = Len(chain) - 1
      /\ DOMAIN chain' = 1 .. Len(chain')
      /\ \A k \in 1 .. Len(chain') : /\ chain'[k] = chain[k + 1] /\ k + 1 \in 1 .. Len(chain)
                                     /\ chain'[k] \in Names /\ Plugins!Earlier(fn, chain'[k])
  <2>1. /\ chain' \in Seq(Names) /\ Len(chain') = Len(chain) - 1
        /\ \A k \in 1 .. Len(chain') : chain'[k] = chain[k + 1]
    BY <1>1, <1>2, HeadTailProperties
  <2>2. \A k \in 1 .. Len(chain') : k + 1 \in 1 .. Len(chain) /\ 1 < k + 1
    BY <1>2, <2>1
  <2>3. \A k \in 1 .. Len(chain') : Plugins!Earlier(fn, chain[k + 1])
    BY <1>2, <2>2 DEF Chained, StillToCall, Plugins!Sorted
  <2>4. QED
    BY <1>1, <1>2, <2>1, <2>2, <2>3
<1>4. /\ worker \in [Names -> {"none", "running", "returned", "raised"}]
      /\ saw \in [Names -> SUBSET Names] /\ event \subseteq Names /\ critical \subseteq Names
  BY DEF Chained, PluginTypes
<1>5. ~Plugins!Called(fn) /\ \A n \in Names : Plugins!Called(n) => Plugins!Earlier(n, fn)
  BY <1>2 DEF Chained, StillToCall
<1>6. \A n \in Names : Plugins!Called(n)' <=> Plugins!Called(n) \/ n = fn
  BY <1>1, <1>2, <1>4 DEF Plugins!Called
<1>7. PluginTypes'
  BY <1>1, <1>2, <1>3, <1>4 DEF Chained, PluginTypes
<1>8. \A m, n : Plugins!Earlier(m, n)' <=> Plugins!Earlier(m, n)
  BY <1>1 DEF Plugins!Earlier
<1>9. StillToCall'
  <2>1. \A i, j \in 1 .. Len(chain') : i < j => Plugins!Earlier(chain'[i], chain'[j])
    <3>1. SUFFICES ASSUME NEW i \in 1 .. Len(chain'), NEW j \in 1 .. Len(chain'), i < j
                   PROVE  Plugins!Earlier(chain[i + 1], chain[j + 1])
      BY <1>3
    <3>2. i + 1 \in DOMAIN chain /\ j + 1 \in DOMAIN chain /\ i + 1 < j + 1
      BY <1>2, <1>3, <3>1
    <3>3. QED
      BY <3>2 DEF Chained, StillToCall, Plugins!Sorted
  <2>2. Plugins!Sorted(chain)'
    BY <1>3, <1>8, <2>1 DEF Plugins!Sorted
  <2>3. \A k \in 1 .. Len(chain') : chain'[k] # fn /\ ~Plugins!Called(chain[k + 1])
                                    /\ \A n \in Names : Plugins!Called(n) => Plugins!Earlier(n, chain[k + 1])
    BY <1>2, <1>3, OneOrder DEF Chained, StillToCall
  <2>4. \A k \in 1 .. Len(chain') :
           /\ worker'[chain'[k]] = "none"
           /\ \A n \in Names : Plugins!Called(n)' => Plugins!Earlier(n, chain'[k])
    <3>1. SUFFICES ASSUME NEW k \in 1 .. Len(chain')
                   PROVE  /\ worker'[chain'[k]] = "none"
                          /\ \A n \in Names : Plugins!Called(n)' => Plugins!Earlier(n, chain'[k])
      OBVIOUS
    <3>2. chain'[k] = chain[k + 1] /\ chain'[k] \in Names /\ Plugins!Earlier(fn, chain'[k])
      BY <1>3
    <3>3. worker'[chain'[k]] = "none"
      BY <1>1, <1>2, <1>4, <2>3, <3>2 DEF Plugins!Called
    <3>4. QED
      BY <1>6, <2>3, <3>2, <3>3
  <2>5. /\ \A k \in 1 .. Len(chain') : \A n \in Names : Plugins!Called(n)' => (Plugins!Earlier(n, chain[k]))'
        /\ main'.at # "load"
    BY <1>1, <1>8, <2>4
  <2>6. QED
    BY <2>2, <2>4, <2>5 DEF StillToCall, Plugins!Called
<1>10. InHand'
  BY <1>1, <1>2, <1>5, <1>6, <1>8 DEF InHand
<1>11. CriticalAreOver' /\ ReturnsAreWritten'
  BY <1>1, <1>2, <1>4, <1>6 DEF Chained, CriticalAreOver, ReturnsAreWritten
<1>12. CriticalComesFirst'
  <2>1. SUFFICES ASSUME NEW c \in critical, NEW n \in Names,
                        Plugins!Called(c)', Plugins!Called(n)', Plugins!Earlier(c, n)
                 PROVE  worker'[c] = "returned" /\ c \in saw'[n]
    BY <1>1, <1>8 DEF CriticalComesFirst, Plugins!CriticalComesFirst
  <2>2. c \in Names /\ c # n
    BY <1>4, <2>1, OneOrder DEF Chained
  <2>3. CASE n = fn
    <3>1. Plugins!Called(c) /\ worker[c] = "returned" /\ c \in event
      BY <1>1, <1>6, <2>1, <2>2, <2>3 DEF Chained, CriticalAreOver, ReturnsAreWritten
    <3>2. QED
      BY <1>1, <1>2, <1>4, <2>2, <2>3, <3>1
  <2>4. CASE n # fn /\ c # fn
    <3>1. Plugins!Called(c) /\ Plugins!Called(n)
      BY <1>6, <2>1, <2>2, <2>4
    <3>2. worker[c] = "returned" /\ c \in saw[n]
      BY <2>1, <3>1 DEF Chained, CriticalComesFirst, Plugins!CriticalComesFirst
    <3>3. QED
      BY <1>1, <1>4, <2>2, <2>4, <3>2
  <2>5. CASE n # fn /\ c = fn
    <3>1. Plugins!Earlier(n, fn)
      BY <1>5, <1>6, <2>1, <2>5
    <3>2. QED
      BY <1>2, <2>1, <2>5, <3>1, OneOrder DEF Chained
  <2>6. QED
    BY <2>3, <2>4, <2>5
<1>13. QED
  BY <1>7, <1>9, <1>10, <1>11, <1>12 DEF Chained

\* The dispatcher goes on only when the handler in hand has returned or is not
\* critical.
LEMMA ChainedOnward ==
    Chained /\ (Plugins!NoneLeft \/ Plugins!Join \/ Plugins!TimesOut) => Chained'
<1> SUFFICES ASSUME Chained, Plugins!NoneLeft \/ Plugins!Join \/ Plugins!TimesOut PROVE Chained'
  OBVIOUS
<1>1. UNCHANGED <<priority, critical, chain, worker, event, saw>>
  BY DEF Plugins!NoneLeft, Plugins!Join, Plugins!TimesOut
<1>2. main'.at \in {"call", "done", "aborted"} /\ main' = [at |-> main'.at, fn |-> 0] /\ main.at # "load"
  BY DEF Plugins!NoneLeft, Plugins!Join, Plugins!TimesOut, Plugins!Fails, Plugins!At, Plugins!Nobody
<1>3. main'.at = "call" =>
        main.at = "join" /\ (worker[main.fn] = "returned" \/ main.fn \notin critical)
  BY DEF Plugins!NoneLeft, Plugins!Join, Plugins!TimesOut, Plugins!Fails, Plugins!At
<1>4. PluginTypes'
  BY <1>1, <1>2 DEF Chained, PluginTypes
<1>5. StillToCall' /\ InHand' /\ ReturnsAreWritten' /\ CriticalComesFirst'
  BY <1>1, <1>2 DEF Chained, StillToCall, InHand, ReturnsAreWritten, CriticalComesFirst,
     Plugins!CriticalComesFirst, Plugins!Called, Plugins!Sorted, Plugins!Earlier
<1>6. CriticalAreOver'
  BY <1>1, <1>2, <1>3 DEF Chained, CriticalAreOver, Plugins!Called
<1>7. QED
  BY <1>4, <1>5, <1>6 DEF Chained

\* A handler, abandoned or not, writes its field before it returns and stays
\* where it ended.
LEMMA ChainedHandle == ASSUME Chained, NEW fn \in Names, Plugins!Handle(fn) PROVE Chained'
<1>1. /\ worker[fn] = "running"
      /\ UNCHANGED <<priority, critical, chain, main, saw>>
      /\ \/ event' = event \cup {fn} /\ worker' = worker
         \/ event' = event /\ fn \in event /\ worker' = [worker EXCEPT ![fn] = "returned"]
         \/ event' = event /\ worker' = [worker EXCEPT ![fn] = "raised"]
  BY DEF Plugins!Handle
<1>2. worker \in [Names -> {"none", "running", "returned", "raised"}] /\ event \subseteq Names
      /\ critical \subseteq Names
  BY DEF Chained, PluginTypes
<1>3. \A n \in Names : /\ worker'[n] = "none" <=> worker[n] = "none"
                       /\ worker[n] = "returned" => worker'[n] = "returned"
                       /\ worker'[n] = "returned" => worker[n] = "returned" \/ n \in event'
                       /\ n \in event => n \in event'
  BY <1>1, <1>2
<1>4. PluginTypes'
  BY <1>1, <1>2 DEF Chained, PluginTypes
<1>5. \A n \in Names : Plugins!Called(n)' <=> Plugins!Called(n)
  BY <1>3 DEF Plugins!Called
<1>6. StillToCall'
  <2>1. \A k \in 1 .. Len(chain) : chain[k] \in Names
    BY DEF Chained, PluginTypes
  <2>2. Plugins!Sorted(chain)'
    BY <1>1 DEF Chained, StillToCall, Plugins!Sorted, Plugins!Earlier
  <2>3. \A m, n : Plugins!Earlier(m, n)' <=> Plugins!Earlier(m, n)
    BY <1>1 DEF Plugins!Earlier
  <2>4. /\ \A k \in 1 .. Len(chain) : worker'[chain[k]] = "none"
        /\ \A k \in 1 .. Len(chain) : \A n \in Names : Plugins!Called(n)' => Plugins!Earlier(n, chain[k])
        /\ main.at = "load" => \A n \in Names : ~Plugins!Called(n)'
    <3>1. \A k \in 1 .. Len(chain) : ~Plugins!Called(chain[k])
      BY DEF Chained, StillToCall
    <3>2. \A k \in 1 .. Len(chain) : worker'[chain[k]] = "none"
      BY <1>3, <2>1, <3>1 DEF Plugins!Called
    <3>3. QED
      BY <1>5, <3>2 DEF Chained, StillToCall
  <2>5. QED
    BY <1>1, <2>2, <2>3, <2>4 DEF StillToCall, Plugins!Called
<1>7. InHand'
  BY <1>1, <1>5 DEF Chained, InHand, Plugins!Earlier, Plugins!Called
<1>8. CriticalAreOver' /\ ReturnsAreWritten'
  BY <1>1, <1>2, <1>3 DEF Chained, CriticalAreOver, ReturnsAreWritten, Plugins!Called
<1>9. CriticalComesFirst'
  BY <1>1, <1>2, <1>3 DEF Chained, CriticalComesFirst, Plugins!CriticalComesFirst, Plugins!Called, Plugins!Earlier
<1>10. QED
  BY <1>4, <1>6, <1>7, <1>8, <1>9 DEF Chained

LEMMA ChainedStep == Chained /\ [Plugins!Next]_pluginVars => Chained'
<1>1. CASE UNCHANGED pluginVars
  BY <1>1 DEF pluginVars, Chained, PluginTypes, StillToCall, InHand, CriticalAreOver, ReturnsAreWritten,
     CriticalComesFirst, Plugins!CriticalComesFirst, Plugins!Called, Plugins!Sorted, Plugins!Earlier
<1>2. QED
  BY <1>1, ChainedDiscover, ChainedCall, ChainedOnward, ChainedHandle DEF Plugins!Next, Plugins!Dispatcher

\* Before a handler is called every critical one that sorts before it and was
\* called has returned, and the handler finds what it wrote, whichever load,
\* raise, hang or are abandoned (_hooks/_plugins.py _run_plugins).
THEOREM CriticalIsFirst == LinkSpec => []CriticalComesFirst
<1>1. Chained => CriticalComesFirst
  BY DEF Chained
<1>2. QED
  BY <1>1, PluginSteps, ChainedInit, ChainedStep, PTL

=============================================================================
