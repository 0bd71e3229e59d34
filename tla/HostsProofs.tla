---------------------------- MODULE HostsProofs ----------------------------
(***************************************************************************)
(* Proofs about what runs beside the store on a host: commits and pushes   *)
(* on the cards they name, then each of the other parts, for any cards,    *)
(* processes, names and faults.                                            *)
(***************************************************************************)
EXTENDS Hosts, SequenceTheorems, FiniteSetTheorems, TLAPS

-----------------------------------------------------------------------------
(* The git hooks (GitEvents): the inductive invariant.                     *)

\* A handler at work has an event, and a card it is at.
Busy ==
    \A h \in Hooks : run[h].at # "idle" => run[h].sha \in Shas /\ run[h].rest # <<>>

Appending(h, i, s) == run[h].at = "append" /\ Card(h) = i /\ run[h].sha = s

\* Who is about to write found no comment, and is the only one.
WritesOnce ==
    \A i \in Ids, s \in Shas : <<i, s>> \notin blind =>
        /\ comments[i][s] <= 1
        /\ \A h \in Hooks : Appending(h, i, s) => comments[i][s] = 0
        /\ \A h \in Hooks, g \in Hooks : Appending(h, i, s) /\ Appending(g, i, s) => h = g

\* Each event, and each one about to be emitted, has a comment of its own.
Emitting(i, s) == {h \in Hooks : run[h].at = "emit" /\ Card(h) = i /\ run[h].sha = s}
HasComment ==
    \A i \in Ids, s \in Shas : emitted[i][s] + Cardinality(Emitting(i, s)) <= comments[i][s]

Mentioned ==
    \A i \in Ids, s \in Shas :
        <<i, s>> \in settled => comments[i][s] > 0 \/ <<i, s>> \in quoted

Linked == WritesOnce /\ HasComment /\ Mentioned

-----------------------------------------------------------------------------
(* Types.                                                                  *)

Runs == [at : {"idle", "check", "append", "emit"}, sha : Shas \cup {Nothing}, rest : Seq(Ids)]
Sound == TypeOK /\ Busy

\* What a handler may become.
Fit(r) == r \in Runs /\ (r.at # "idle" => r.sha \in Shas /\ r.rest # <<>>)

LEMMA RunFit ==
    ASSUME Sound, NEW h \in Hooks
    PROVE  Fit(run[h]) /\ run \in [Hooks -> Runs]
BY DEF Sound, TypeOK, Busy, Fit, Runs

LEMMA RestingFit == Fit(Resting) /\ Resting.at = "idle"
<1>1. <<>> \in Seq(Ids)
  OBVIOUS
<1>2. QED
  BY <1>1 DEF Fit, Resting, Runs

LEMMA AtCard ==
    ASSUME Sound, NEW h \in Hooks, run[h].at # "idle"
    PROVE  Card(h) \in Ids /\ run[h].sha \in Shas /\ Link(h) \in Links
<1>1. run[h].rest \in Seq(Ids) /\ run[h].rest # <<>> /\ run[h].sha \in Shas
  BY RunFit DEF Fit, Runs
<1>2. QED
  BY <1>1 DEF Card, Link, Links

LEMMA GoneTo ==
    ASSUME Sound, NEW h \in Hooks, run[h].at # "idle",
           NEW at \in {"append", "emit"}, Goes(h, at)
    PROVE  /\ run' \in [Hooks -> Runs] /\ Fit(run'[h])
           /\ run'[h].at = at /\ run'[h].sha = run[h].sha /\ run'[h].rest = run[h].rest
           /\ \A g \in Hooks : g # h => run'[g] = run[g]
<1> DEFINE r == [run[h] EXCEPT !.at = at]
<1>1. run[h] \in Runs /\ run[h].sha \in Shas /\ run[h].rest # <<>>
  BY RunFit DEF Fit
<1>2. r \in Runs /\ r.at = at /\ r.sha = run[h].sha /\ r.rest = run[h].rest
  BY <1>1 DEF Runs
<1>3. run' = [run EXCEPT ![h] = r]
  BY DEF Goes
<1> HIDE DEF r
<1>4. QED
  BY <1>1, <1>2, <1>3, RunFit DEF Fit

LEMMA GoneOn ==
    ASSUME Sound, NEW h \in Hooks, run[h].at # "idle", Onward(h)
    PROVE  /\ run' \in [Hooks -> Runs] /\ Fit(run'[h]) /\ run'[h].at \in {"idle", "check"}
           /\ \A g \in Hooks : g # h => run'[g] = run[g]
           /\ settled' = IF Card(h) \in Found THEN settled \cup {Link(h)} ELSE settled
<1> DEFINE next == [at |-> "check", sha |-> run[h].sha, rest |-> Tail(run[h].rest)]
           r == IF Len(run[h].rest) = 1 THEN Resting ELSE next
<1>1. /\ run[h] \in Runs /\ run[h].sha \in Shas
      /\ run[h].rest \in Seq(Ids) /\ run[h].rest # <<>>
  BY RunFit DEF Fit, Runs
<1>2. run' = [run EXCEPT ![h] = r]
  BY DEF Onward
<1>3. ASSUME Len(run[h].rest) # 1
      PROVE  Fit(next) /\ next.at = "check"
  <2>1. Tail(run[h].rest) \in Seq(Ids) /\ Tail(run[h].rest) # <<>>
    <3> DEFINE q == run[h].rest
    <3>1. q \in Seq(Ids) /\ q # <<>> /\ Len(q) # 1
      BY <1>1, <1>3
    <3> HIDE DEF q
    <3>2. Tail(q) \in Seq(Ids) /\ Len(Tail(q)) = Len(q) - 1 /\ Len(q) # 0
      BY <3>1, EmptySeq, HeadTailProperties
    <3>3. Tail(q) # <<>>
      BY <3>1, <3>2, EmptySeq, LenProperties
    <3>4. QED
      BY <3>2, <3>3 DEF q
  <2>2. QED
    BY <1>1, <2>1 DEF Fit, Runs
<1>4. Fit(r) /\ r.at \in {"idle", "check"}
  BY <1>3, RestingFit
<1> HIDE DEF r
<1>5. QED
  BY <1>2, <1>4, RunFit DEF Onward, Fit

\* Any event a handler takes on names cards.
LEMMA Dispatched ==
    ASSUME Sound, NEW h \in Hooks, NEW p,
           p.card_ids \in {<<>>, <<Nothing>>} \cup {<<i>> : i \in Ids} \cup Ids \X Ids,
           p.sha \in Shas \cup {Nothing}, dispatch_event(h, p)
    PROVE  /\ run[h].at = "idle"
           /\ run' \in [Hooks -> Runs] /\ Fit(run'[h]) /\ run'[h].at = "check"
           /\ \A g \in Hooks : g # h => run'[g] = run[g]
           /\ UNCHANGED <<world, comments, emitted, blind, settled, faults>>
<1> DEFINE r == [at |-> "check", sha |-> p.sha, rest |-> p.card_ids]
<1>1. p.sha \in Shas /\ p.card_ids # <<>> /\ \A n \in DOMAIN p.card_ids : p.card_ids[n] \in Ids
  BY DEF dispatch_event, _parse_event, event_validate
<1>2. p.card_ids \in Seq(Ids)
  <2>1. CASE p.card_ids = <<Nothing>>
    BY <1>1, <2>1
  <2>2. ASSUME NEW i \in Ids, p.card_ids = <<i>>
        PROVE  p.card_ids \in Seq(Ids)
    BY <2>2
  <2>3. ASSUME NEW i \in Ids, NEW j \in Ids, p.card_ids = <<i, j>>
        PROVE  p.card_ids \in Seq(Ids)
    BY <2>3
  <2>4. QED
    BY <1>1, <2>1, <2>2, <2>3
<1>3. run' = [run EXCEPT ![h] = r]
  BY DEF dispatch_event
<1>4. Fit(r) /\ r.at = "check"
  BY <1>1, <1>2 DEF Fit, Runs
<1> HIDE DEF r
<1>5. QED
  BY <1>3, <1>4, RunFit DEF dispatch_event, Fit

LEMMA Taken ==
    ASSUME Sound, NEW h \in Hooks, GitHook(h) \/ hook_push_view(h)
    PROVE  /\ run[h].at = "idle"
           /\ run' \in [Hooks -> Runs] /\ Fit(run'[h]) /\ run'[h].at = "check"
           /\ \A g \in Hooks : g # h => run'[g] = run[g]
           /\ UNCHANGED <<world, comments, emitted, blind, settled, faults>>
<1>1. PICK p : /\ p.card_ids \in {<<>>, <<Nothing>>} \cup {<<i>> : i \in Ids} \cup Ids \X Ids
               /\ p.sha \in Shas \cup {Nothing} /\ dispatch_event(h, p)
  <2>1. CASE hook_push_view(h)
    BY <2>1 DEF hook_push_view, Payloads
  <2>2. ASSUME NEW s \in Shas, NEW trigger \in {"commit", "push"},
               NEW p \in build_push_event(s, trigger), dispatch_event(h, p)
        PROVE  /\ p.card_ids \in {<<>>, <<Nothing>>} \cup {<<i>> : i \in Ids} \cup Ids \X Ids
               /\ p.sha \in Shas \cup {Nothing}
    <3>1. PICK i \in {resolve_card_id(named[s])} \ {Nothing} :
            p = [kind |-> "push", sha |-> s, trigger |-> trigger, card_ids |-> <<i>>]
      BY <2>2 DEF build_push_event
    <3>2. p.sha = s /\ p.card_ids = <<i>>
      BY <3>1
    <3>3. i \in Ids
      <4>1. 1 \in DOMAIN p.card_ids /\ p.card_ids[1] = i
        BY <3>2
      <4>2. QED
        BY <2>2, <4>1 DEF dispatch_event, _parse_event, event_validate
    <3>4. QED
      BY <3>2, <3>3
  <2>3. QED
    BY <2>1, <2>2 DEF GitHook
<1>2. QED
  BY <1>1, Dispatched

\* One more comment, or event, of a card and a commit.
LEMMA CountedUp ==
    ASSUME NEW c \in [Ids -> [Shas -> Nat]], NEW i \in Ids, NEW s \in Shas
    PROVE  /\ [c EXCEPT ![i][s] = @ + 1] \in [Ids -> [Shas -> Nat]]
           /\ [c EXCEPT ![i][s] = @ + 1][i][s] = c[i][s] + 1
           /\ \A j \in Ids, t \in Shas : <<j, t>> # <<i, s>> =>
                  [c EXCEPT ![i][s] = @ + 1][j][t] = c[j][t]
<1> DEFINE d == [c[i] EXCEPT ![s] = @ + 1]
<1>1. /\ d \in [Shas -> Nat] /\ d[s] = c[i][s] + 1
      /\ \A t \in Shas : t # s => d[t] = c[i][t]
  OBVIOUS
<1>2. [c EXCEPT ![i][s] = @ + 1] = [c EXCEPT ![i] = d]
  OBVIOUS
<1> HIDE DEF d
<1>3. QED
  BY <1>1, <1>2

LEMMA SoundStep == Sound /\ [Next]_vars => Sound'
<1> SUFFICES ASSUME Sound, [Next]_vars PROVE Sound'
  OBVIOUS
<1>1. CASE UNCHANGED vars
  BY <1>1 DEF vars, Sound, TypeOK, Busy
<1>2. ASSUME NEW h \in Hooks, Hook(h)
      PROVE  Sound'
  <2>1. /\ run' \in [Hooks -> Runs] /\ Fit(run'[h])
        /\ \A g \in Hooks : g # h => run'[g] = run[g]
    <3>1. CASE Fails(h)
      BY <3>1, RunFit, RestingFit DEF Fails, Fit
    <3>2. CASE AlreadyRecorded(h) \/ CardNotFound(h) \/ _emit_git_event(h)
      BY <3>2, GoneOn DEF AlreadyRecorded, CardNotFound, _emit_git_event
    <3>3. CASE NotRecorded(h) \/ AppendComment(h)
      BY <3>3, GoneTo DEF NotRecorded, AppendComment
    <3>4. QED
      BY <1>2, <3>1, <3>2, <3>3, Taken DEF Hook
  <2>2. Busy'
    BY <2>1 DEF Sound, Busy, Fit
  <2>3. CASE GitHook(h) \/ hook_push_view(h)
    BY <2>1, <2>2, <2>3, Taken DEF Sound, TypeOK, Runs, world
  <2>4. CASE AlreadyRecorded(h) \/ CardNotFound(h)
    <3>1. settled' \subseteq Links
      BY <2>4, AtCard, GoneOn DEF AlreadyRecorded, CardNotFound, Sound, TypeOK
    <3>2. QED
      BY <2>1, <2>2, <2>4, <3>1 DEF AlreadyRecorded, CardNotFound, Sound, TypeOK, Runs, world
  <2>5. CASE NotRecorded(h)
    <3>1. blind' \subseteq Links
      BY <2>5, AtCard DEF NotRecorded, Sound, TypeOK
    <3>2. QED
      BY <2>1, <2>2, <2>5, <3>1 DEF NotRecorded, Sound, TypeOK, Runs, world
  <2>6. CASE AppendComment(h)
    <3>1. comments' \in [Ids -> [Shas -> Nat]]
      BY <2>6, AtCard, CountedUp DEF AppendComment, Sound, TypeOK
    <3>2. QED
      BY <2>1, <2>2, <2>6, <3>1 DEF AppendComment, Sound, TypeOK, Runs, world
  <2>7. CASE _emit_git_event(h)
    <3>1. settled' \subseteq Links
      BY <2>7, AtCard, GoneOn DEF _emit_git_event, Sound, TypeOK
    <3>2. emitted' \in [Ids -> [Shas -> Nat]]
      <4>1. [emitted EXCEPT ![Card(h)][run[h].sha] = @ + 1] \in [Ids -> [Shas -> Nat]]
        BY <2>7, AtCard, CountedUp DEF _emit_git_event, Sound, TypeOK
      <4>2. QED
        BY <2>7, <4>1 DEF _emit_git_event, Sound, TypeOK
    <3>3. faults' \in 0 .. MaxFaults
      BY <2>7, FaultAssumption DEF _emit_git_event, Fault, Sound, TypeOK
    <3>4. QED
      BY <2>1, <2>2, <2>7, <3>1, <3>2, <3>3 DEF _emit_git_event, Sound, TypeOK, Runs, world
  <2>8. CASE Fails(h)
    BY <2>1, <2>2, <2>8, FaultAssumption DEF Fails, Fault, Sound, TypeOK, Runs, world
  <2>9. QED
    BY <1>2, <2>3, <2>4, <2>5, <2>6, <2>7, <2>8 DEF Hook
<1>3. ASSUME NEW i \in Ids, delete_task(i) \/ restore_task(i)
      PROVE  Sound'
  BY <1>3 DEF delete_task, restore_task, Sound, TypeOK, Busy
<1>4. QED
  BY <1>1, <1>2, <1>3 DEF Next

LEMMA SoundInit == Init => Sound
<1> SUFFICES ASSUME Init PROVE Sound
  OBVIOUS
<1>1. run \in [Hooks -> Runs] /\ \A h \in Hooks : run[h].at = "idle"
  BY RestingFit DEF Init, Fit
<1>2. QED
  BY <1>1, FaultAssumption DEF Init, Sound, TypeOK, Busy, None, Runs

\* The types hold, and a handler at work has a commit and a card.
THEOREM TypesHold == Spec => [](TypeOK /\ Busy)
<1>1. QED
  BY SoundInit, SoundStep, PTL DEF Spec, Sound

-----------------------------------------------------------------------------
(* One comment and one event.                                              *)

\* A step of one handler moves it alone.
Moves(h) == \A g \in Hooks : g # h => run'[g] = run[g]

\* The events about to be emitted for a card and a commit, when h moves.
LEMMA EmittingFewer ==
    ASSUME Sound, NEW h \in Hooks, Moves(h), run'[h].at # "emit",
           NEW i \in Ids, NEW s \in Shas
    PROVE  /\ Cardinality(Emitting(i, s)) \in Nat /\ Cardinality(Emitting(i, s)') \in Nat
           /\ Cardinality(Emitting(i, s)') <= Cardinality(Emitting(i, s))
           /\ h \in Emitting(i, s) =>
                  Cardinality(Emitting(i, s)') + 1 <= Cardinality(Emitting(i, s))
<1> DEFINE E == Emitting(i, s)
           F == Emitting(i, s)'
<1>1. F = E \ {h} /\ E \subseteq Hooks
  BY DEF Emitting, Card, Moves
<1>2. IsFiniteSet(E)
  BY <1>1, HookAssumption, FS_Subset
<1> HIDE DEF E, F
<1>3. IsFiniteSet(F) /\ Cardinality(E) \in Nat
      /\ Cardinality(F) = IF h \in E THEN Cardinality(E) - 1 ELSE Cardinality(E)
  BY <1>1, <1>2, FS_RemoveElement, FS_CardinalityType
<1>4. Cardinality(F) \in Nat
  BY <1>3, FS_CardinalityType
<1>5. QED
  BY <1>3, <1>4 DEF E, F

LEMMA EmittingMore ==
    ASSUME Sound, NEW h \in Hooks, Moves(h), run[h].at = "append", Goes(h, "emit"),
           NEW i \in Ids, NEW s \in Shas
    PROVE  /\ Cardinality(Emitting(i, s)) \in Nat /\ Cardinality(Emitting(i, s)') \in Nat
           /\ Cardinality(Emitting(i, s)') <= Cardinality(Emitting(i, s)) + 1
           /\ <<i, s>> # Link(h) => Cardinality(Emitting(i, s)') = Cardinality(Emitting(i, s))
<1> DEFINE E == Emitting(i, s)
           F == Emitting(i, s)'
<1>1. run'[h].at = "emit" /\ run'[h].sha = run[h].sha /\ run'[h].rest = run[h].rest
  BY GoneTo
<1>2. /\ F = IF <<i, s>> = Link(h) THEN E \cup {h} ELSE E
      /\ E \subseteq Hooks
  BY <1>1 DEF Emitting, Card, Moves, Link
<1>3. IsFiniteSet(E)
  BY <1>2, HookAssumption, FS_Subset
<1> HIDE DEF E, F
<1>4. /\ Cardinality(E) \in Nat /\ IsFiniteSet(E \cup {h})
      /\ Cardinality(E \cup {h}) = IF h \in E THEN Cardinality(E) ELSE Cardinality(E) + 1
  BY <1>3, FS_AddElement, FS_CardinalityType
<1>5. CASE <<i, s>> = Link(h)
  BY <1>2, <1>4, <1>5 DEF E, F
<1>6. CASE <<i, s>> # Link(h)
  BY <1>2, <1>4, <1>6 DEF E, F
<1>7. QED
  BY <1>5, <1>6

\* A handler about to emit for its card has its comment there.
LEMMA EmitterHasComment ==
    ASSUME Sound, HasComment, NEW h \in Hooks, run[h].at = "emit"
    PROVE  comments[Card(h)][run[h].sha] > 0
<1> DEFINE i == Card(h)
           s == run[h].sha
           E == Emitting(i, s)
<1>1. i \in Ids /\ s \in Shas
  BY AtCard
<1>2. h \in E /\ E \subseteq Hooks
  BY DEF Emitting
<1>3. IsFiniteSet(E)
  BY <1>2, HookAssumption, FS_Subset
<1>4. Cardinality(E) \in Nat /\ Cardinality(E) # 0
  BY <1>2, <1>3, FS_CardinalityType, FS_EmptySet
<1>5. /\ emitted[i][s] \in Nat /\ comments[i][s] \in Nat
      /\ emitted[i][s] + Cardinality(E) <= comments[i][s]
  BY <1>1 DEF HasComment, Sound, TypeOK
<1> HIDE DEF i, s, E
<1>6. QED
  BY <1>4, <1>5 DEF i, s

\* A step that writes no comment and starts no write.
LEMMA WritesNothing ==
    ASSUME Sound, WritesOnce, NEW h \in Hooks, Moves(h), run'[h].at # "append",
           UNCHANGED <<comments, blind>>
    PROVE  WritesOnce'
<1>1. \A g \in Hooks, i \in Ids, s \in Shas : Appending(g, i, s)' => Appending(g, i, s)
  BY DEF Appending, Card, Moves
<1>2. QED
  BY <1>1 DEF WritesOnce

\* A step that writes no comment and leaves nothing more to emit.
LEMMA EmitsNothing ==
    ASSUME Sound, HasComment, NEW h \in Hooks, Moves(h), run'[h].at # "emit",
           UNCHANGED <<comments, emitted>>
    PROVE  HasComment'
<1> SUFFICES ASSUME NEW i \in Ids, NEW s \in Shas
             PROVE  emitted[i][s] + Cardinality(Emitting(i, s)') <= comments[i][s]
  BY DEF HasComment
<1>1. emitted[i][s] \in Nat /\ comments[i][s] \in Nat
  BY DEF Sound, TypeOK
<1>2. emitted[i][s] + Cardinality(Emitting(i, s)) <= comments[i][s]
  BY DEF HasComment
<1>3. QED
  BY <1>1, <1>2, EmittingFewer

LEMMA LinkedTaken ==
    ASSUME Sound, Linked, NEW h \in Hooks, GitHook(h) \/ hook_push_view(h)
    PROVE  Linked'
<1>1. /\ Moves(h) /\ run'[h].at = "check"
      /\ UNCHANGED <<quoted, comments, emitted, blind, settled>>
  BY Taken DEF Moves, world
<1>2. QED
  BY <1>1, WritesNothing, EmitsNothing DEF Linked, Mentioned

LEMMA LinkedDone ==
    ASSUME Sound, Linked, NEW h \in Hooks, AlreadyRecorded(h) \/ CardNotFound(h)
    PROVE  Linked'
<1>1. /\ run[h].at # "idle" /\ Onward(h)
      /\ UNCHANGED <<quoted, comments, emitted, blind>>
  BY DEF AlreadyRecorded, CardNotFound, world
<1>2. Moves(h) /\ run'[h].at # "append" /\ run'[h].at # "emit"
  BY <1>1, GoneOn DEF Moves
<1>3. settled' = settled
      \/ /\ settled' = settled \cup {Link(h)}
         /\ comments[Card(h)][run[h].sha] > 0 \/ Link(h) \in quoted
  BY <1>1, GoneOn DEF AlreadyRecorded, CardNotFound, _push_already_recorded, Link
<1>4. Mentioned'
  BY <1>1, <1>3 DEF Linked, Mentioned, Link
<1>5. QED
  BY <1>1, <1>2, <1>4, WritesNothing, EmitsNothing DEF Linked

LEMMA LinkedLook ==
    ASSUME Sound, Linked, NEW h \in Hooks, NotRecorded(h)
    PROVE  Linked'
<1>1. /\ run[h].at = "check" /\ Goes(h, "append")
      /\ UNCHANGED <<quoted, comments, emitted, settled>>
  BY DEF NotRecorded, world
<1>2. /\ Moves(h) /\ run'[h].at = "append"
      /\ run'[h].sha = run[h].sha /\ run'[h].rest = run[h].rest
  BY <1>1, GoneTo DEF Moves
<1>3. WritesOnce'
  <2> SUFFICES ASSUME NEW i \in Ids, NEW s \in Shas, <<i, s>> \notin blind'
               PROVE  /\ comments[i][s] <= 1
                      /\ \A g \in Hooks : Appending(g, i, s)' => comments[i][s] = 0
                      /\ \A f \in Hooks, g \in Hooks :
                            Appending(f, i, s)' /\ Appending(g, i, s)' => f = g
    BY <1>1 DEF WritesOnce
  <2>1. <<i, s>> \notin blind /\ comments[i][s] \in Nat
    BY DEF NotRecorded, Sound, TypeOK
  <2>2. \A g \in Hooks \ {h} : Appending(g, i, s)' <=> Appending(g, i, s)
    BY <1>2 DEF Moves, Appending, Card
  <2>3. Appending(h, i, s)' <=> <<i, s>> = Link(h)
    BY <1>2 DEF Appending, Card, Link
  <2>4. CASE <<i, s>> # Link(h)
    BY <2>1, <2>2, <2>3, <2>4 DEF Linked, WritesOnce
  <2>5. CASE <<i, s>> = Link(h)
    <3>1. i = Card(h) /\ s = run[h].sha
      BY <2>5 DEF Link
    <3>2. i \in Found /\ \A g \in Hooks \ {h} : ~(run[g].at = "append" /\ Link(g) = Link(h))
      BY <2>5, <3>1 DEF NotRecorded
    <3>3. comments[i][s] = 0
      BY <2>1, <3>1, <3>2 DEF NotRecorded, _push_already_recorded
    <3>4. \A g \in Hooks \ {h} : ~Appending(g, i, s)
      BY <3>1, <3>2 DEF Appending, Link
    <3>5. QED
      BY <2>2, <3>3, <3>4
  <2>6. QED
    BY <2>4, <2>5
<1>4. QED
  BY <1>1, <1>2, <1>3, EmitsNothing DEF Linked, Mentioned

LEMMA LinkedComment ==
    ASSUME Sound, Linked, NEW h \in Hooks, AppendComment(h)
    PROVE  Linked'
<1> DEFINE i0 == Card(h)
           s0 == run[h].sha
<1>1. /\ run[h].at = "append" /\ Goes(h, "emit")
      /\ comments' = [comments EXCEPT ![i0][s0] = @ + 1]
      /\ UNCHANGED <<quoted, emitted, blind, settled>>
  BY DEF AppendComment, world
<1>2. Moves(h) /\ run'[h].at = "emit" /\ i0 \in Ids /\ s0 \in Shas
  BY <1>1, GoneTo, AtCard DEF Moves
<1>3. /\ comments \in [Ids -> [Shas -> Nat]] /\ emitted \in [Ids -> [Shas -> Nat]]
      /\ comments'[i0][s0] = comments[i0][s0] + 1
      /\ \A j \in Ids, t \in Shas : <<j, t>> # <<i0, s0>> => comments'[j][t] = comments[j][t]
  BY <1>1, <1>2, CountedUp DEF Sound, TypeOK
<1>4. Link(h) = <<i0, s0>> /\ Appending(h, i0, s0)
  BY <1>1 DEF Link, Appending
<1> HIDE DEF i0, s0
<1>5. WritesOnce'
  <2> SUFFICES ASSUME NEW i \in Ids, NEW s \in Shas, <<i, s>> \notin blind
               PROVE  /\ comments'[i][s] <= 1
                      /\ \A g \in Hooks : Appending(g, i, s)' => comments'[i][s] = 0
                      /\ \A f \in Hooks, g \in Hooks :
                            Appending(f, i, s)' /\ Appending(g, i, s)' => f = g
    BY <1>1 DEF WritesOnce
  <2>1. \A g \in Hooks : Appending(g, i, s)' => g # h /\ Appending(g, i, s)
    BY <1>2 DEF Moves, Appending, Card
  <2>2. /\ comments[i][s] <= 1
        /\ \A g \in Hooks : Appending(g, i, s) => comments[i][s] = 0
        /\ \A f \in Hooks, g \in Hooks : Appending(f, i, s) /\ Appending(g, i, s) => f = g
    BY DEF Linked, WritesOnce
  <2>3. CASE <<i, s>> # <<i0, s0>>
    BY <1>3, <2>1, <2>2, <2>3
  <2>4. CASE <<i, s>> = <<i0, s0>>
    <3>1. Appending(h, i, s) /\ comments[i][s] = 0
      BY <1>4, <2>2, <2>4
    <3>2. \A g \in Hooks : ~Appending(g, i, s)'
      BY <2>1, <2>2, <3>1
    <3>3. comments'[i][s] = 1
      BY <1>3, <2>4, <3>1
    <3>4. QED
      BY <3>2, <3>3
  <2>5. QED
    BY <2>3, <2>4
<1>6. HasComment'
  <2> SUFFICES ASSUME NEW i \in Ids, NEW s \in Shas
               PROVE  emitted[i][s] + Cardinality(Emitting(i, s)') <= comments'[i][s]
    BY <1>1 DEF HasComment
  <2>1. emitted[i][s] + Cardinality(Emitting(i, s)) <= comments[i][s]
    BY DEF Linked, HasComment
  <2>2. emitted[i][s] \in Nat /\ comments[i][s] \in Nat
    BY <1>3
  <2>3. /\ Cardinality(Emitting(i, s)) \in Nat /\ Cardinality(Emitting(i, s)') \in Nat
        /\ Cardinality(Emitting(i, s)') <= Cardinality(Emitting(i, s)) + 1
        /\ <<i, s>> # <<i0, s0>> => Cardinality(Emitting(i, s)') = Cardinality(Emitting(i, s))
    BY <1>1, <1>2, <1>4, EmittingMore
  <2>4. CASE <<i, s>> # <<i0, s0>>
    BY <1>3, <2>1, <2>2, <2>3, <2>4
  <2>5. CASE <<i, s>> = <<i0, s0>>
    <3>1. comments'[i][s] = comments[i][s] + 1
      BY <1>3, <2>5
    <3>2. QED
      BY <2>1, <2>2, <2>3, <3>1
  <2>6. QED
    BY <2>4, <2>5
<1>7. Mentioned'
  <2> SUFFICES ASSUME NEW i \in Ids, NEW s \in Shas, <<i, s>> \in settled
               PROVE  comments'[i][s] > 0 \/ <<i, s>> \in quoted
    BY <1>1 DEF Mentioned
  <2>1. comments[i][s] > 0 \/ <<i, s>> \in quoted
    BY DEF Linked, Mentioned
  <2>2. comments[i][s] \in Nat
    BY <1>3
  <2>3. comments'[i][s] = comments[i][s] \/ comments'[i][s] = comments[i][s] + 1
    BY <1>3
  <2>4. QED
    BY <2>1, <2>2, <2>3
<1>8. QED
  BY <1>5, <1>6, <1>7 DEF Linked

LEMMA LinkedEmit ==
    ASSUME Sound, Linked, NEW h \in Hooks, _emit_git_event(h)
    PROVE  Linked'
<1> DEFINE i0 == Card(h)
           s0 == run[h].sha
<1>1. /\ run[h].at = "emit" /\ Onward(h)
      /\ emitted' = [emitted EXCEPT ![i0][s0] = @ + 1] \/ UNCHANGED emitted
      /\ UNCHANGED <<quoted, comments, blind>>
  BY DEF _emit_git_event, world
<1>2. /\ Moves(h) /\ run'[h].at # "append" /\ run'[h].at # "emit"
      /\ i0 \in Ids /\ s0 \in Shas
  BY <1>1, GoneOn, AtCard DEF Moves
<1>3. comments[i0][s0] > 0 /\ h \in Emitting(i0, s0) /\ Link(h) = <<i0, s0>>
  BY <1>1, EmitterHasComment DEF Linked, Emitting, Link
<1>4. settled' \subseteq settled \cup {<<i0, s0>>}
  BY <1>1, <1>3, GoneOn
<1> HIDE DEF i0, s0
<1>5. HasComment'
  <2>1. CASE UNCHANGED emitted
    BY <1>1, <1>2, <2>1, EmitsNothing DEF Linked
  <2>2. CASE emitted' = [emitted EXCEPT ![i0][s0] = @ + 1]
    <3> SUFFICES ASSUME NEW i \in Ids, NEW s \in Shas
                 PROVE  emitted'[i][s] + Cardinality(Emitting(i, s)') <= comments[i][s]
      BY <1>1 DEF HasComment
    <3>1. emitted[i][s] + Cardinality(Emitting(i, s)) <= comments[i][s]
      BY DEF Linked, HasComment
    <3>2. emitted[i][s] \in Nat /\ comments[i][s] \in Nat
      BY DEF Sound, TypeOK
    <3>3. /\ Cardinality(Emitting(i, s)) \in Nat /\ Cardinality(Emitting(i, s)') \in Nat
          /\ Cardinality(Emitting(i, s)') <= Cardinality(Emitting(i, s))
          /\ h \in Emitting(i, s) =>
                 Cardinality(Emitting(i, s)') + 1 <= Cardinality(Emitting(i, s))
      BY <1>2, EmittingFewer
    <3>4. /\ <<i, s>> # <<i0, s0>> => emitted'[i][s] = emitted[i][s]
          /\ <<i, s>> = <<i0, s0>> => emitted'[i][s] = emitted[i][s] + 1
      BY <1>2, <2>2, CountedUp DEF Sound, TypeOK
    <3>5. CASE <<i, s>> # <<i0, s0>>
      BY <3>1, <3>2, <3>3, <3>4, <3>5
    <3>6. CASE <<i, s>> = <<i0, s0>>
      <4>1. h \in Emitting(i, s)
        BY <1>3, <3>6
      <4>2. QED
        BY <3>1, <3>2, <3>3, <3>4, <3>6, <4>1
    <3>7. QED
      BY <3>5, <3>6
  <2>3. QED
    BY <1>1, <2>1, <2>2
<1>6. Mentioned'
  BY <1>1, <1>3, <1>4 DEF Linked, Mentioned
<1>7. QED
  BY <1>1, <1>2, <1>5, <1>6, WritesNothing DEF Linked

LEMMA LinkedFails ==
    ASSUME Sound, Linked, NEW h \in Hooks, Fails(h)
    PROVE  Linked'
<1>1. /\ run' = [run EXCEPT ![h] = Resting]
      /\ UNCHANGED <<quoted, comments, emitted, blind, settled>>
  BY DEF Fails, world
<1>2. Moves(h) /\ run'[h].at = "idle"
  BY <1>1, RunFit, RestingFit DEF Moves
<1>3. QED
  BY <1>1, <1>2, WritesNothing, EmitsNothing DEF Linked, Mentioned

LEMMA LinkedStep == Sound /\ Linked /\ [Next]_vars => Linked'
<1> SUFFICES ASSUME Sound, Linked, [Next]_vars PROVE Linked'
  OBVIOUS
<1>1. ASSUME UNCHANGED <<run, comments, quoted, emitted, blind, settled>> PROVE Linked'
  BY <1>1 DEF Linked, WritesOnce, HasComment, Mentioned, Appending, Emitting, Card
<1>2. ASSUME NEW h \in Hooks, Hook(h)
      PROVE  Linked'
  BY <1>2, LinkedTaken, LinkedDone, LinkedLook, LinkedComment, LinkedEmit, LinkedFails DEF Hook
<1>3. QED
  BY <1>1, <1>2 DEF Next, vars, delete_task, restore_task

LEMMA LinkedInit == Init => Linked
<1> SUFFICES ASSUME Init PROVE Linked
  OBVIOUS
<1>1. /\ \A h \in Hooks : run[h].at = "idle"
      /\ \A i \in Ids, s \in Shas : comments[i][s] = 0 /\ emitted[i][s] = 0
      /\ settled = {}
  BY RestingFit DEF Init, None
<1>2. \A i \in Ids, s \in Shas : Emitting(i, s) = {}
  BY <1>1 DEF Emitting
<1>3. \A i \in Ids, s \in Shas : Cardinality(Emitting(i, s)) = 0
  BY <1>2, FS_EmptySet
<1>4. WritesOnce /\ Mentioned
  BY <1>1 DEF WritesOnce, Mentioned, Appending
<1>5. HasComment
  BY <1>1, <1>3 DEF HasComment
<1>6. QED
  BY <1>4, <1>5 DEF Linked

\* A repeated link leaves one comment and one event, whatever handlers run
\* and whoever fails, but for a look that could not see the comment; and what
\* was dealt with is mentioned on its card.
THEOREM OnlyOneLink == Spec => []LinkedOnce
<1>1. Sound /\ Linked => LinkedOnce
  <2> SUFFICES ASSUME Sound, Linked, NEW i \in Ids, NEW s \in Shas
               PROVE  /\ emitted[i][s] <= comments[i][s]
                      /\ comments[i][s] > 1 => <<i, s>> \in blind
                      /\ <<i, s>> \in settled => comments[i][s] > 0 \/ <<i, s>> \in quoted
    BY DEF LinkedOnce
  <2>1. emitted[i][s] \in Nat /\ comments[i][s] \in Nat
    BY DEF Sound, TypeOK
  <2>2. Cardinality(Emitting(i, s)) \in Nat
    <3>1. Emitting(i, s) \subseteq Hooks
      BY DEF Emitting
    <3>2. QED
      BY <3>1, HookAssumption, FS_Subset, FS_CardinalityType
  <2>3. emitted[i][s] + Cardinality(Emitting(i, s)) <= comments[i][s]
    BY DEF Linked, HasComment
  <2>4. <<i, s>> \notin blind => comments[i][s] <= 1
    BY DEF Linked, WritesOnce
  <2>5. QED
    BY <2>1, <2>2, <2>3, <2>4 DEF Linked, Mentioned
<1>2. QED
  BY <1>1, SoundInit, SoundStep, LinkedInit, LinkedStep, PTL DEF Spec

-----------------------------------------------------------------------------
(* The parts of a host: a step of the host is one of the part's own or     *)
(* leaves its variables alone.                                             *)

LEMMA MigSteps == HostSpec => Mig!Init /\ [][Mig!Next]_migVars
<1>1. [HostNext]_hostVars => [Mig!Next]_migVars
  BY DEF HostNext, hostVars
<1>2. QED
  BY <1>1, PTL DEF HostSpec, HostInit

LEMMA SearchSteps == HostSpec => Search!Init /\ [][Search!Next]_searchVars
<1>1. [HostNext]_hostVars => [Search!Next]_searchVars
  BY DEF HostNext, hostVars
<1>2. QED
  BY <1>1, PTL DEF HostSpec, HostInit

LEMMA RegSteps == HostSpec => Reg!Init /\ [][Reg!Next]_regVars
<1>1. [HostNext]_hostVars => [Reg!Next]_regVars
  BY DEF HostNext, hostVars
<1>2. QED
  BY <1>1, PTL DEF HostSpec, HostInit

LEMMA WakeSteps == HostSpec => Wake!Init /\ [][Wake!Next]_wakeVars
<1>1. [HostNext]_hostVars => [Wake!Next]_wakeVars
  BY DEF HostNext, hostVars
<1>2. QED
  BY <1>1, PTL DEF HostSpec, HostInit

-----------------------------------------------------------------------------
(* The migration.  The one at work has the rows of the store, which nobody *)
(* changes while it holds the lock; a row it has stripped is in the        *)
(* README; and a text that is in no row any more is.                       *)

Migration == [at : {"idle", "rows", "save", "commit"}, doc : [Ids -> SUBSET Texts],
              left : SUBSET Ids, new : [Ids -> SUBSET Texts], updated : BOOLEAN]
MigTypes ==
    /\ rows \in [Ids -> SUBSET Texts] /\ readme \in [Ids -> SUBSET Texts] /\ dir \subseteq Ids
    /\ storeLock \in Migrators \cup {Nobody}
    /\ mig \in [Migrators -> Migration]
    /\ had \in [Ids -> SUBSET Texts] /\ regrown \subseteq Ids
    /\ migFaults \in 0 .. MigrationFaults

AtWork(m) == mig[m].at \in {"rows", "save"}
Stripped(m, i) ==
    mig[m].new[i] = {} /\ i \in dir /\ (i \notin regrown => had[i] \subseteq readme[i])
WorksOnTheStore ==
    \A m \in Migrators : AtWork(m) =>
        /\ storeLock = m /\ mig[m].doc = rows
        /\ \A i \in Ids : mig[m].new[i] = rows[i] \/ (i \notin mig[m].left /\ Stripped(m, i))
Placed ==
    \A i \in Ids \ regrown :
        \/ had[i] \subseteq rows[i]
        \/ had[i] \subseteq readme[i] /\ rows[i] = {} /\ i \in dir
Migrated == MigTypes /\ WorksOnTheStore /\ Placed

LEMMA MigratedInit == Mig!Init => Migrated
<1> SUFFICES ASSUME Mig!Init PROVE Migrated
  OBVIOUS
<1>1. Mig!Resting \in Migration /\ Mig!Resting.at = "idle"
  BY DEF Mig!Resting, Mig!NoRows, Migration
<1>2. \A m \in Migrators : ~AtWork(m)
  BY <1>1 DEF Mig!Init, AtWork
<1>3. MigTypes
  BY <1>1, HostBounds DEF Mig!Init, MigTypes, Mig!NoRows
<1>4. QED
  BY <1>2, <1>3 DEF Mig!Init, Migrated, WorksOnTheStore, Placed

\* Two migrations are not at work at once.
LEMMA AloneAtWork ==
    ASSUME Migrated, NEW m \in Migrators, NEW k \in Migrators, AtWork(m), AtWork(k)
    PROVE  m = k
BY DEF Migrated, WorksOnTheStore

LEMMA MigratedOnward ==
    ASSUME Migrated, NEW m \in Migrators, NEW i \in Ids,
           \/ Mig!KeepCanonical(m, i) \/ Mig!MigrateRow(m, i) \/ Mig!SkipRow(m, i)
    PROVE  Migrated'
<1>0. /\ MigTypes /\ mig[m].at = "rows" /\ AtWork(m) /\ storeLock = m /\ mig[m].doc = rows
      /\ UNCHANGED <<rows, storeLock, had, regrown>>
  BY DEF Mig!KeepCanonical, Mig!MigrateRow, Mig!SkipRow, Mig!AtRow, AtWork, Migrated, WorksOnTheStore
<1>1. PICK new \in SUBSET Texts, updated \in BOOLEAN :
         /\ Mig!Onward(m, i, new, updated)
         /\ \/ new = rows[i]
            \/ new = {} /\ Mig!MigrateRow(m, i)
  BY <1>0 DEF MigTypes, Mig!KeepCanonical, Mig!MigrateRow, Mig!SkipRow, Mig!_strip_migrated_fields
<1>2. /\ mig' \in [Migrators -> Migration]
      /\ mig'[m].doc = rows /\ mig'[m].new[i] = new /\ i \notin mig'[m].left
      /\ \A j \in Ids \ {i} : mig'[m].new[j] = mig[m].new[j] /\ (j \in mig'[m].left => j \in mig[m].left)
      /\ \A k \in Migrators \ {m} : mig'[k] = mig[k]
  <2>1. mig[m] \in Migration
    BY <1>0 DEF MigTypes
  <2> DEFINE next == [at |-> IF mig[m].left = {i} THEN "save" ELSE "rows", doc |-> mig[m].doc,
                      left |-> mig[m].left \ {i}, new |-> [mig[m].new EXCEPT ![i] = new],
                      updated |-> mig[m].updated \/ updated]
  <2>2. (mig[m].updated \/ updated) \in BOOLEAN
    BY <2>1 DEF Migration
  <2>3. next \in Migration
    BY <2>1, <2>2 DEF Migration
  <2>4. mig' = [mig EXCEPT ![m] = next]
    BY <1>1 DEF Mig!Onward
  <2>5. QED
    BY <1>0, <2>1, <2>3, <2>4 DEF MigTypes, Migration
<1>3. /\ readme' \in [Ids -> SUBSET Texts] /\ dir \subseteq dir' /\ dir' \subseteq Ids
      /\ migFaults' \in 0 .. MigrationFaults
      /\ \A j \in Ids \ {i} : readme'[j] = readme[j]
      /\ readme'[i] \in {readme[i], rows[i]}
  <2>1. rows[i] \in SUBSET Texts
    BY <1>0 DEF MigTypes
  <2>2. CASE Mig!KeepCanonical(m, i)
    BY <1>0, <2>2 DEF MigTypes, Mig!KeepCanonical
  <2>3. CASE Mig!MigrateRow(m, i)
    BY <1>0, <2>1, <2>3 DEF MigTypes, Mig!MigrateRow, Mig!_build_readme_content
  <2>4. CASE Mig!SkipRow(m, i)
    <3>1. migFaults' \in 0 .. MigrationFaults
      BY <1>0, <2>4, HostBounds DEF MigTypes, Mig!SkipRow
    <3>2. readme' = readme \/ readme' = [readme EXCEPT ![i] = rows[i]]
      BY <1>0, <2>4 DEF Mig!SkipRow, Mig!_build_readme_content
    <3>3. dir \subseteq dir' /\ dir' \subseteq Ids
      BY <1>0, <2>4 DEF MigTypes, Mig!SkipRow
    <3>4. QED
      BY <1>0, <2>1, <3>1, <3>2, <3>3 DEF MigTypes
  <2>5. QED
    BY <2>2, <2>3, <2>4
<1>4. MigTypes'
  BY <1>0, <1>2, <1>3 DEF MigTypes
<1>5. readme'[i] = readme[i] \/ i \in regrown \/ had[i] \subseteq rows[i]
  BY <1>0 DEF Migrated, Placed, Mig!KeepCanonical, Mig!MigrateRow, Mig!SkipRow, Mig!canonical
<1>6. Placed'
  BY <1>0, <1>3, <1>5 DEF Migrated, Placed
<1>7. ASSUME NEW j \in Ids
      PROVE  mig'[m].new[j] = rows[j] \/ (j \notin mig'[m].left /\ Stripped(m, j)')
  <2>1. CASE j # i
    BY <1>0, <1>2, <1>3, <2>1 DEF Migrated, WorksOnTheStore, Stripped
  <2>2. CASE j = i /\ new = {} /\ Mig!MigrateRow(m, i)
    <3>1. readme'[i] = rows[i] /\ i \in dir' /\ (i \notin regrown => had[i] \subseteq rows[i])
      BY <1>0, <2>2 DEF MigTypes, Migrated, Placed, Mig!MigrateRow, Mig!canonical, Mig!_build_readme_content
    <3>2. QED
      BY <1>0, <1>2, <2>2, <3>1 DEF Stripped
  <2>3. QED
    BY <1>1, <1>2, <2>1, <2>2
<1>8. WorksOnTheStore'
  <2>1. \A k \in Migrators : AtWork(k)' => k = m
    BY <1>0, <1>2, AloneAtWork DEF AtWork
  <2>2. QED
    BY <1>0, <1>2, <1>7, <2>1 DEF WorksOnTheStore
<1>9. QED
  BY <1>4, <1>6, <1>8 DEF Migrated

LEMMA MigratedStep == Migrated /\ [Mig!Next]_migVars => Migrated'
<1> SUFFICES ASSUME Migrated, [Mig!Next]_migVars PROVE Migrated'
  OBVIOUS
<1>0. MigTypes
  BY DEF Migrated
<1>1. ASSUME NEW m \in Migrators, Mig!apply_lane(m)
      PROVE  Migrated'
  <2>1. \A k \in Migrators : ~AtWork(k)
    BY <1>1, NobodyAssumption DEF Mig!apply_lane, Migrated, WorksOnTheStore
  <2>2. [at |-> "rows", doc |-> rows, left |-> Ids, new |-> rows, updated |-> FALSE] \in Migration
    BY <1>0 DEF MigTypes, Migration
  <2>3. MigTypes'
    BY <1>0, <1>1, <2>2 DEF Mig!apply_lane, MigTypes
  <2>4. WorksOnTheStore'
    BY <1>0, <1>1, <2>1 DEF Mig!apply_lane, MigTypes, WorksOnTheStore, AtWork
  <2>5. Placed'
    BY <1>1 DEF Mig!apply_lane, Migrated, Placed
  <2>6. QED
    BY <2>3, <2>4, <2>5 DEF Migrated
<1>2. ASSUME NEW m \in Migrators, Mig!Save(m)
      PROVE  Migrated'
  <2>1. AtWork(m) /\ mig[m].at = "save" /\ storeLock = m
    BY <1>2 DEF Mig!Save, AtWork, Migrated, WorksOnTheStore
  <2>2. mig[m] \in Migration /\ Mig!Resting \in Migration
    BY <1>0 DEF MigTypes, Mig!Resting, Mig!NoRows, Migration
  <2>3. [mig[m] EXCEPT !.at = "commit"] \in Migration
    BY <2>2 DEF Migration
  <2>4. MigTypes'
    BY <1>0, <1>2, <2>2, <2>3 DEF Mig!Save, MigTypes, Migration
  <2>5. \A k \in Migrators : ~AtWork(k)'
    BY <1>0, <1>2, <2>1, <2>2, AloneAtWork DEF Mig!Save, MigTypes, Migration, AtWork, Mig!Resting
  <2>6. \A i \in Ids : rows'[i] = rows[i] \/ (rows'[i] = {} /\ i \in dir /\ (i \notin regrown => had[i] \subseteq readme[i]))
    BY <1>2, <2>1 DEF Mig!Save, Migrated, WorksOnTheStore, Stripped
  <2>7. Placed'
    BY <1>2, <2>6 DEF Mig!Save, Migrated, Placed
  <2>8. QED
    BY <2>4, <2>5, <2>7 DEF Migrated, WorksOnTheStore
<1>3. ASSUME NEW m \in Migrators, Mig!_git_commit_lane(m) \/ Mig!Die(m)
      PROVE  Migrated'
  <2>1. mig' = [mig EXCEPT ![m] = Mig!Resting] /\ UNCHANGED <<rows, dir, readme, had, regrown>>
    BY <1>3 DEF Mig!_git_commit_lane, Mig!Die
  <2>2. Mig!Resting \in Migration /\ Mig!Resting.at = "idle"
    BY DEF Mig!Resting, Mig!NoRows, Migration
  <2>3. /\ mig' \in [Migrators -> Migration] /\ mig'[m].at = "idle"
        /\ \A k \in Migrators \ {m} : mig'[k] = mig[k]
    BY <1>0, <2>1, <2>2 DEF MigTypes
  <2>4. /\ storeLock' \in Migrators \cup {Nobody}
        /\ migFaults' \in 0 .. MigrationFaults
        /\ storeLock # m => storeLock' = storeLock
    BY <1>0, <1>3, HostBounds DEF MigTypes, Mig!_git_commit_lane, Mig!Die
  <2>5. MigTypes'
    BY <1>0, <2>1, <2>3, <2>4 DEF MigTypes
  <2>6. WorksOnTheStore'
    BY <2>1, <2>3, <2>4 DEF Migrated, WorksOnTheStore, AtWork, Stripped
  <2>7. Placed'
    BY <2>1 DEF Migrated, Placed
  <2>8. QED
    BY <2>5, <2>6, <2>7 DEF Migrated
<1>4. ASSUME NEW i \in Ids, NEW t \in Texts, Mig!Write(i, t)
      PROVE  Migrated'
  <2>1. \A k \in Migrators : ~AtWork(k)
    BY <1>4, NobodyAssumption DEF Mig!Write, Migrated, WorksOnTheStore
  <2>2. MigTypes'
    BY <1>0, <1>4 DEF MigTypes, Mig!Write
  <2>3. WorksOnTheStore'
    BY <1>4, <2>1 DEF Mig!Write, WorksOnTheStore, AtWork
  <2>4. Placed'
    BY <1>0, <1>4 DEF MigTypes, Mig!Write, Migrated, Placed
  <2>5. QED
    BY <2>2, <2>3, <2>4 DEF Migrated
<1>5. CASE UNCHANGED migVars
  BY <1>5 DEF migVars, Migrated, MigTypes, WorksOnTheStore, AtWork, Stripped, Placed
<1>6. QED
  BY <1>1, <1>2, <1>3, <1>4, <1>5, MigratedOnward DEF Mig!Next

\* A long text is in the store or in the card's README, whatever fails or dies
\* in between and however often and by how many the migration is run
\* (_migration/_migrate.py apply_lane).
THEOREM NoTextLost == HostSpec => []TextKept
<1>1. Migrated => TextKept
  BY DEF Migrated, Placed, TextKept, Mig!TextKept
<1>2. QED
  BY <1>1, MigSteps, MigratedInit, MigratedStep, PTL

-----------------------------------------------------------------------------
(* The search index.  A stamp is older than the card's in the store, or    *)
(* the card was removed; one rebuild at a time has the write lock, and one *)
(* that read the store has each card at least as new as the index has it.  *)

Rebuild == [at : {"idle", "global", "lanes"}, rows : Search!Rows, left : 0 .. Lanes, failed : BOOLEAN]
IndexTypes ==
    /\ cards \in Search!Rows /\ index \in Search!Rows /\ clock \in 0 .. MaxRowChanges
    /\ purged \subseteq Ids
    /\ rebuilder \in Rebuilders \cup {Nobody}
    /\ rebuild \in [Rebuilders -> Rebuild]
    /\ indexFaults \in 0 .. IndexFaults

OneRebuild == \A r \in Rebuilders : rebuild[r].at # "idle" => rebuilder = r
OlderThanCard(i, stamp) == stamp <= clock /\ (stamp <= cards[i] \/ (cards[i] = 0 /\ i \in purged))
NoNewer ==
    \A i \in Ids :
        /\ cards[i] <= clock /\ OlderThanCard(i, index[i])
        /\ \A r \in Rebuilders : OlderThanCard(i, rebuild[r].rows[i])
NotBehind(r, i) == rebuild[r].rows[i] >= index[i] \/ (rebuild[r].rows[i] = 0 /\ i \in purged)
Forward ==
    \A r \in Rebuilders, i \in Ids :
        /\ rebuild[r].at = "global" => rebuild[r].rows[i] = 0
        /\ rebuild[r].at = "lanes" /\ ~rebuild[r].failed => NotBehind(r, i)
Indexed == IndexTypes /\ OneRebuild /\ NoNewer /\ Forward

LEMMA RestingRebuild ==
    /\ Search!Resting \in Rebuild /\ Search!Resting.at = "idle"
    /\ \A i \in Ids : Search!Resting.rows[i] = 0
BY HostBounds DEF Search!Resting, Search!NoRows, Search!Rows, Rebuild

LEMMA IndexedInit == Search!Init => Indexed
<1> SUFFICES ASSUME Search!Init PROVE Indexed
  OBVIOUS
<1>1. IndexTypes
  BY RestingRebuild, HostBounds DEF Search!Init, IndexTypes, Search!NoRows, Search!Rows
<1>2. /\ clock = 0 /\ \A i \in Ids : cards[i] = 0 /\ index[i] = 0
      /\ \A r \in Rebuilders : rebuild[r].at = "idle" /\ \A i \in Ids : rebuild[r].rows[i] = 0
  BY RestingRebuild DEF Search!Init, Search!NoRows
<1>3. OneRebuild /\ Forward
  BY <1>2 DEF OneRebuild, Forward
<1>4. NoNewer
  BY <1>2 DEF NoNewer, OlderThanCard
<1>5. QED
  BY <1>1, <1>3, <1>4 DEF Indexed

\* One rebuild takes a step, and keeps to itself.
LEMMA RebuildGoes ==
    ASSUME Indexed, NEW r \in Rebuilders, NEW to \in Rebuild,
           rebuild' = [rebuild EXCEPT ![r] = to], rebuild[r].at = "idle" => rebuilder = Nobody,
           UNCHANGED <<cards, clock, purged>>,
           index' \in Search!Rows, rebuilder' \in Rebuilders \cup {Nobody},
           indexFaults' \in 0 .. IndexFaults,
           to.at # "idle" => rebuilder' = r /\ UNCHANGED index,
           \A i \in Ids : OlderThanCard(i, to.rows[i]) /\ OlderThanCard(i, index'[i]),
           to.at = "global" => \A i \in Ids : to.rows[i] = 0,
           to.at = "lanes" /\ ~to.failed =>
               \A i \in Ids : to.rows[i] >= index[i] \/ (to.rows[i] = 0 /\ i \in purged)
    PROVE  Indexed'
<1>0. IndexTypes
  BY DEF Indexed
<1>1. /\ rebuild' \in [Rebuilders -> Rebuild] /\ rebuild'[r] = to
      /\ \A q \in Rebuilders \ {r} : rebuild'[q] = rebuild[q]
  BY <1>0 DEF IndexTypes
<1>2. \A q \in Rebuilders \ {r} : rebuild[q].at = "idle"
  BY <1>0, NobodyAssumption DEF Indexed, OneRebuild, IndexTypes
<1>3. IndexTypes'
  BY <1>0, <1>1 DEF IndexTypes
<1>4. OneRebuild'
  BY <1>1, <1>2 DEF OneRebuild
<1>5. NoNewer'
  BY <1>1 DEF Indexed, NoNewer, OlderThanCard
<1>6. Forward'
  BY <1>1, <1>2 DEF Forward, NotBehind
<1>7. QED
  BY <1>3, <1>4, <1>5, <1>6 DEF Indexed

\* What a load inserts.
LEMMA Inserted ==
    ASSUME Indexed, NEW r \in Rebuilders, rebuild[r].at # "idle"
    PROVE  /\ Search!_insert_task(r) \in Search!Rows
           /\ \A i \in Ids :
                 /\ OlderThanCard(i, Search!_insert_task(r)[i])
                 /\ OlderThanCard(i, rebuild[r].rows[i]) /\ OlderThanCard(i, index[i])
                 /\ rebuild[r].at = "global" \/ NotBehind(r, i) =>
                       \/ Search!_insert_task(r)[i] >= index[i]
                       \/ Search!_insert_task(r)[i] = 0 /\ i \in purged
<1>1. /\ rebuild[r] \in Rebuild /\ clock \in Nat
      /\ \A i \in Ids : cards[i] \in 0 .. MaxRowChanges /\ index[i] \in 0 .. MaxRowChanges
                          /\ rebuild[r].rows[i] \in 0 .. MaxRowChanges
  BY HostBounds DEF Indexed, IndexTypes, Rebuild, Search!Rows
<1>2. \A i \in Ids : Search!_insert_task(r)[i] = IF cards[i] > 0 THEN cards[i] ELSE rebuild[r].rows[i]
  BY DEF Search!_insert_task
<1>3. Search!_insert_task(r) \in Search!Rows
  BY <1>1 DEF Search!_insert_task, Search!Rows
<1>4. QED
  BY <1>1, <1>2, <1>3, HostBounds DEF Indexed, NoNewer, OlderThanCard, Forward, NotBehind

LEMMA IndexedStep == Indexed /\ [Search!Next]_searchVars => Indexed'
<1> SUFFICES ASSUME Indexed, [Search!Next]_searchVars PROVE Indexed'
  OBVIOUS
<1>0. IndexTypes /\ \A r \in Rebuilders : rebuild[r] \in Rebuild
  BY DEF Indexed, IndexTypes
<1>1. ASSUME NEW i \in Ids, Search!Change(i)
      PROVE  Indexed'
  <2>1. /\ clock \in Nat /\ MaxRowChanges \in Nat
        /\ \A j \in Ids : cards[j] \in 0 .. MaxRowChanges /\ index[j] \in 0 .. MaxRowChanges
        /\ \A j \in Ids, r \in Rebuilders : rebuild[r].rows[j] \in 0 .. MaxRowChanges
    BY <1>0, HostBounds DEF IndexTypes, Search!Rows, Rebuild
  <2>2. /\ clock' = clock + 1 /\ clock' \in 0 .. MaxRowChanges /\ purged \subseteq purged' /\ purged' \subseteq Ids
        /\ UNCHANGED <<index, rebuilder, rebuild, indexFaults>>
    BY <1>0, <1>1, <2>1 DEF Search!Change, IndexTypes
  <2>3. /\ cards' \in Search!Rows
        /\ \A j \in Ids \ {i} : cards'[j] = cards[j]
        /\ cards'[i] = clock + 1 \/ (cards'[i] = 0 /\ i \in purged')
    BY <1>0, <1>1, <2>1, <2>2 DEF Search!Change, IndexTypes, Search!Rows
  <2>4. IndexTypes'
    BY <1>0, <2>2, <2>3 DEF IndexTypes
  <2>5. ASSUME NEW j \in Ids, NEW stamp \in 0 .. MaxRowChanges, OlderThanCard(j, stamp)
        PROVE  OlderThanCard(j, stamp)'
    <3>1. CASE j = i
      BY <2>1, <2>2, <2>3, <2>5, <3>1 DEF OlderThanCard
    <3>2. CASE j # i
      BY <2>1, <2>2, <2>3, <2>5, <3>2 DEF OlderThanCard
    <3>3. QED
      BY <3>1, <3>2
  <2>8. \A j \in Ids : cards'[j] <= clock'
    BY <2>1, <2>2, <2>3 DEF Indexed, NoNewer
  <2>9. NoNewer'
    BY <2>1, <2>2, <2>5, <2>8 DEF Indexed, NoNewer
  <2>6. OneRebuild' /\ Forward'
    BY <2>2 DEF Indexed, OneRebuild, Forward, NotBehind
  <2>7. QED
    BY <2>4, <2>6, <2>9 DEF Indexed
<1>2. ASSUME NEW r \in Rebuilders, Search!Delete(r)
      PROVE  Indexed'
  <2> DEFINE to == [Search!Resting EXCEPT !.at = "global", !.left = Lanes]
  <2>1. to \in Rebuild /\ to.at = "global" /\ \A i \in Ids : to.rows[i] = 0
    <3>1. Lanes \in 0 .. Lanes
      BY HostBounds
    <3>2. QED
      BY <3>1, RestingRebuild DEF Rebuild
  <2>2. \A i \in Ids : OlderThanCard(i, 0) /\ OlderThanCard(i, index[i])
    BY <1>0, HostBounds DEF Indexed, IndexTypes, NoNewer, OlderThanCard, Search!Rows
  <2>3. rebuild' = [rebuild EXCEPT ![r] = to]
    BY <1>2 DEF Search!Delete, Search!Begin
  <2> HIDE DEF to
  <2>4. QED
    BY <1>0, <1>2, <2>1, <2>2, <2>3, RebuildGoes DEF Search!Delete, IndexTypes
<1>3. ASSUME NEW r \in Rebuilders, Search!LoadGlobal(r) \/ Search!LoadLane(r)
      PROVE  Indexed'
  <2>1. /\ rebuild[r].at \in {"global", "lanes"} /\ rebuilder = r
        /\ rebuild[r].at = "lanes" => rebuild[r].left > 0
        /\ UNCHANGED <<cards, clock, purged, index, rebuilder>>
    BY <1>3 DEF Search!LoadGlobal, Search!LoadLane, Indexed, OneRebuild
  <2>2. indexFaults' \in 0 .. IndexFaults
    BY <1>0, <1>3, HostBounds DEF Search!LoadGlobal, Search!LoadLane, Search!Fault, IndexTypes
  <2> DEFINE left == IF rebuild[r].at = "global" THEN rebuild[r].left ELSE rebuild[r].left - 1
             read == [at |-> "lanes", rows |-> Search!_insert_task(r), left |-> left,
                      failed |-> rebuild[r].failed]
             unread == [at |-> "lanes", rows |-> rebuild[r].rows, left |-> left, failed |-> TRUE]
  <2>3. left \in 0 .. Lanes
    BY <1>0, <2>1, HostBounds DEF Rebuild
  <2>4. read \in Rebuild /\ unread \in Rebuild
    BY <1>0, <2>1, <2>3, Inserted DEF Rebuild
  <2>5. rebuild' = [rebuild EXCEPT ![r] = read] \/ rebuild' = [rebuild EXCEPT ![r] = unread]
    <3>1. CASE Search!LoadGlobal(r)
      BY <1>0, <3>1 DEF Search!LoadGlobal, IndexTypes, Rebuild
    <3>2. CASE Search!LoadLane(r)
      BY <1>0, <3>2 DEF Search!LoadLane, IndexTypes, Rebuild
    <3>3. QED
      BY <1>3, <3>1, <3>2
  <2>6. \A i \in Ids : ~rebuild[r].failed => rebuild[r].at = "global" \/ NotBehind(r, i)
    BY <2>1 DEF Indexed, Forward
  <2>7. read.at = "lanes" /\ unread.at = "lanes" /\ unread.failed /\ read.failed = rebuild[r].failed
        /\ read.rows = Search!_insert_task(r) /\ unread.rows = rebuild[r].rows
    OBVIOUS
  <2> HIDE DEF read, unread, left
  <2>8. CASE rebuild' = [rebuild EXCEPT ![r] = read]
    <3>1. /\ \A i \in Ids : OlderThanCard(i, read.rows[i]) /\ OlderThanCard(i, index'[i])
          /\ ~read.failed =>
                \A i \in Ids : read.rows[i] >= index[i] \/ (read.rows[i] = 0 /\ i \in purged)
      BY <2>1, <2>6, <2>7, Inserted
    <3>2. QED
      BY <1>0, <2>1, <2>2, <2>4, <2>7, <2>8, <3>1, RebuildGoes DEF IndexTypes
  <2>9. CASE rebuild' = [rebuild EXCEPT ![r] = unread]
    BY <1>0, <2>1, <2>2, <2>4, <2>7, <2>9, Inserted, RebuildGoes DEF IndexTypes
  <2>10. QED
    BY <2>5, <2>8, <2>9
<1>4. ASSUME NEW r \in Rebuilders, Search!Commit(r) \/ Search!Die(r)
      PROVE  Indexed'
  <2>1. /\ rebuild[r].at # "idle" /\ rebuilder' = Nobody /\ UNCHANGED <<cards, clock, purged>>
        /\ rebuild' = [rebuild EXCEPT ![r] = Search!Resting]
        /\ index' = index \/ index' = rebuild[r].rows
    BY <1>4 DEF Search!Commit, Search!Die
  <2>2. indexFaults' \in 0 .. IndexFaults /\ index' \in Search!Rows
    BY <1>0, <1>4, <2>1, HostBounds DEF Search!Commit, Search!Die, Search!Fault, IndexTypes, Rebuild
  <2>3. \A i \in Ids : OlderThanCard(i, 0) /\ OlderThanCard(i, index'[i])
    BY <1>0, <2>1, HostBounds DEF Indexed, IndexTypes, NoNewer, OlderThanCard, Search!Rows
  <2>4. QED
    BY <1>0, <2>1, <2>2, <2>3, RestingRebuild, RebuildGoes
<1>5. CASE UNCHANGED searchVars
  BY <1>5 DEF searchVars, Indexed, IndexTypes, OneRebuild, NoNewer, OlderThanCard, Forward, NotBehind
<1>6. QED
  BY <1>1, <1>2, <1>3, <1>4, <1>5 DEF Search!Next, Search!rebuild_index

\* What a query answers never goes back: no rebuild that read the store puts an
\* older row in place of a newer one or drops a card that was never removed,
\* however many rebuild at once (_index.py rebuild_index).
THEOREM IndexNeverGoesBack == HostSpec => IndexGoesForward
<1>1. ASSUME Indexed, [Search!Next]_searchVars, NEW i \in Ids, index'[i] < index[i]
      PROVE  \E r \in Rebuilders :
                 Search!Commit(r) /\ (rebuild[r].failed \/ (index'[i] = 0 /\ i \in purged))
  <2>1. index[i] \in Nat /\ ~(index[i] < index[i])
    BY <1>1, HostBounds DEF Indexed, IndexTypes, Search!Rows
  <2>2. PICK r \in Rebuilders : Search!Commit(r)
    BY <1>1, <2>1 DEF Search!Next, Search!Change, Search!rebuild_index, Search!Delete, Search!LoadGlobal,
       Search!LoadLane, Search!Die, searchVars
  <2>3. rebuild[r].at = "lanes" /\ index'[i] = rebuild[r].rows[i] /\ rebuild[r].rows[i] \in Nat
    BY <1>1, <2>2, HostBounds DEF Search!Commit, Indexed, IndexTypes, Rebuild, Search!Rows
  <2>4. rebuild[r].failed \/ NotBehind(r, i)
    BY <1>1, <2>3 DEF Indexed, Forward
  <2>5. QED
    BY <1>1, <2>1, <2>2, <2>3, <2>4 DEF NotBehind
<1>2. Indexed /\ [Search!Next]_searchVars
        => [\A i \in Ids : index'[i] < index[i] =>
               \E r \in Rebuilders :
                   /\ Search!Commit(r)
                   /\ rebuild[r].failed \/ (index'[i] = 0 /\ i \in purged)]_Search!vars
  BY <1>1
<1>3. QED
  BY <1>2, SearchSteps, IndexedInit, IndexedStep, PTL DEF IndexGoesForward, Search!IndexGoesForward

-----------------------------------------------------------------------------
(* The users registry.  The file holds the names as they were given; the   *)
(* writer at work has it, a cache that answers has it, and what a reader   *)
(* parsed has the names that were given when the reader began.             *)

Owners == [Names -> Users \cup {Nobody}]
Writing == [at : {"idle", "loaded"}, doc : Reg!Rows]
Read == [stat : 0 .. MaxRegistrations, rows : Reg!Rows]
Reading == [at : {"idle", "parse", "fill", "answer"}, stat : 0 .. MaxRegistrations,
            rows : Reg!Rows, must : Owners]
RegTypes ==
    /\ file \in Reg!Rows /\ stat \in 0 .. MaxRegistrations
    /\ userLock \in Writers \cup {Nobody}
    /\ userProc \in [Writers -> Writing]
    /\ cached \in [Readers -> Read]
    /\ reader \in [Readers -> Reading]
    /\ given \in Owners

Owns(table, u, n) == n \in table[u].names
\* A table has the names that were given, of one user each.
Holds(table, owners) ==
    \A n \in Names : owners[n] # Nobody => \A u \in Users : Owns(table, u, n) <=> owners[n] = u
Since(owners, later) == \A n \in Names : owners[n] # Nobody => later[n] = owners[n]

AsGiven ==
    /\ \A u \in Users, n \in Names : Owns(file, u, n) <=> given[n] = u
    /\ stat = 0 => \A n \in Names : given[n] = Nobody
WritesTheFile ==
    \A w \in Writers : userProc[w].at = "loaded" =>
        userLock = w /\ userProc[w].doc = file /\ stat < MaxRegistrations
CacheIsTrue ==
    \A r \in Readers : cached[r].stat <= stat
                       /\ (cached[r].stat = stat /\ stat # 0 => cached[r].rows = file)
ReadsAreTrue ==
    \A r \in Readers :
        /\ reader[r].stat <= stat
        /\ Since(reader[r].must, given)
        /\ reader[r].at \in {"fill", "answer"} => Holds(reader[r].rows, reader[r].must)
        /\ reader[r].at = "fill" /\ reader[r].stat = stat => reader[r].rows = file
Registry == RegTypes /\ AsGiven /\ WritesTheFile /\ CacheIsTrue /\ ReadsAreTrue

LEMMA EmptyTable ==
    /\ Reg!Empty \in Reg!Rows
    /\ \A u \in Users, n \in Names : ~Owns(Reg!Empty, u, n)
    /\ Reg!Unknown \in Owners /\ \A n \in Names : Reg!Unknown[n] = Nobody
    /\ Reg!Resting \in Reading /\ Reg!Resting.at = "idle" /\ Reg!Resting.stat = 0
    /\ Reg!Resting.must = Reg!Unknown
<1>1. Reg!Absent \in [names : SUBSET Names, host : Names \cup {Nobody}] /\ Reg!Absent.names = {}
  BY DEF Reg!Absent
<1>2. Reg!Empty \in Reg!Rows /\ \A u \in Users, n \in Names : ~Owns(Reg!Empty, u, n)
  BY <1>1 DEF Reg!Empty, Reg!Rows, Owns
<1>3. Reg!Unknown \in Owners /\ \A n \in Names : Reg!Unknown[n] = Nobody
  BY DEF Reg!Unknown, Owners
<1>4. 0 \in 0 .. MaxRegistrations
  BY HostBounds
<1>5. QED
  BY <1>2, <1>3, <1>4 DEF Reg!Resting, Reading

LEMMA RegistryInit == Reg!Init => Registry
<1> SUFFICES ASSUME Reg!Init PROVE Registry
  OBVIOUS
<1>1. 0 \in 0 .. MaxRegistrations
  BY HostBounds
<1>2. RegTypes
  BY <1>1, EmptyTable DEF Reg!Init, RegTypes, Reg!NothingRead, Writing, Read
<1>3. AsGiven
  BY EmptyTable, NobodyAssumption DEF Reg!Init, AsGiven
<1>4. WritesTheFile /\ CacheIsTrue
  BY DEF Reg!Init, WritesTheFile, CacheIsTrue, Reg!NothingRead
<1>5. ReadsAreTrue
  BY EmptyTable DEF Reg!Init, ReadsAreTrue, Since
<1>6. QED
  BY <1>2, <1>3, <1>4, <1>5 DEF Registry

\* The file holds what was given, and so what was given earlier.
LEMMA FileHolds ==
    ASSUME Registry, NEW owners \in Owners, Since(owners, given)
    PROVE  Holds(file, owners)
BY DEF Registry, RegTypes, Owners, AsGiven, Since, Holds

\* A write gives names to a user, none of which another has.
LEMMA RegistryWritten ==
    ASSUME Registry, NEW w \in Writers, userProc[w].at = "loaded",
           NEW table \in Reg!Rows, Reg!_save_users_unlocked(w, table),
           NEW new \in Owners, given' = new, Since(given, new), stat < MaxRegistrations,
           \A u \in Users, n \in Names : Owns(table, u, n) <=> new[n] = u
    PROVE  Registry'
<1>0. RegTypes /\ userLock = w
  BY DEF Registry, WritesTheFile
<1>1. /\ file' = table /\ stat' = stat + 1 /\ userLock' = Nobody /\ UNCHANGED <<cached, reader>>
      /\ userProc' = [userProc EXCEPT ![w] = [at |-> "idle", doc |-> Reg!Empty]]
  BY DEF Reg!_save_users_unlocked, Reg!Release
<1>2. stat' \in 0 .. MaxRegistrations /\ stat' # 0 /\ stat < stat' /\ stat \in Nat
  BY <1>0, <1>1, HostBounds DEF RegTypes
<1>3. RegTypes'
  BY <1>0, <1>1, <1>2, EmptyTable DEF RegTypes, Writing
<1>4. AsGiven'
  BY <1>1, <1>2 DEF AsGiven, Owns
<1>5. WritesTheFile'
  BY <1>0, <1>1 DEF Registry, RegTypes, Writing, WritesTheFile
<1>6. \A r \in Readers : cached[r].stat \in Nat /\ reader[r].stat \in Nat
  BY <1>0, HostBounds DEF RegTypes, Read, Reading
<1>7. CacheIsTrue'
  BY <1>1, <1>2, <1>6 DEF Registry, CacheIsTrue
<1>8. \A r \in Readers : Since(reader[r].must, new)
  BY DEF Registry, ReadsAreTrue, Since
<1>9. ReadsAreTrue'
  BY <1>1, <1>2, <1>6, <1>8 DEF Registry, ReadsAreTrue, Holds, Owns
<1>10. QED
  BY <1>3, <1>4, <1>5, <1>7, <1>9 DEF Registry

LEMMA NotTaken ==
    ASSUME Registry, NEW u \in Users, NEW names \in SUBSET Names, ~Reg!Taken(file, names, u)
    PROVE  \A n \in names : given[n] \in {u, Nobody}
<1>1. ASSUME NEW n \in names, given[n] # Nobody
      PROVE  given[n] = u
  <2>1. given[n] \in Users /\ Owns(file, given[n], n)
    BY <1>1 DEF Registry, RegTypes, Owners, AsGiven
  <2>2. given[n] \in Reg!_names_index(file, n)
    BY <2>1 DEF Reg!_names_index, Reg!Registered, Owns
  <2>3. QED
    BY <2>2 DEF Reg!Taken
<1>2. QED
  BY <1>1

LEMMA RegistryGives ==
    ASSUME Registry, NEW w \in Writers, userProc[w].at = "loaded", stat < MaxRegistrations,
           NEW u \in Users, NEW names \in SUBSET Names, Reg!Gives(u, names),
           ~Reg!Taken(file, names, u),
           NEW table \in Reg!Rows, Reg!_save_users_unlocked(w, table),
           \A v \in Users, n \in Names :
               Owns(table, v, n) <=> Owns(file, v, n) \/ (v = u /\ n \in names)
    PROVE  Registry'
<1> DEFINE new == [n \in Names |-> IF n \in names THEN u ELSE given[n]]
<1>0. given \in Owners /\ u # Nobody
  BY NobodyAssumption DEF Registry, RegTypes
<1>1. new \in Owners /\ given' = new
  BY <1>0 DEF Owners, Reg!Gives
<1>2. Since(given, new)
  BY <1>0, NotTaken DEF Since
<1>3. ASSUME NEW v \in Users, NEW n \in Names
      PROVE  Owns(table, v, n) <=> new[n] = v
  <2>1. Owns(file, v, n) <=> given[n] = v
    BY DEF Registry, AsGiven
  <2>2. n \in names => given[n] \in {u, Nobody}
    BY NotTaken
  <2>3. v # Nobody
    BY NobodyAssumption
  <2>4. QED
    BY <2>1, <2>2, <2>3
<1> HIDE DEF new
<1>4. QED
  BY <1>1, <1>2, <1>3, RegistryWritten

LEMMA RegistryWrite ==
    ASSUME Registry, NEW w \in Writers, Reg!Write(w)
    PROVE  Registry'
<1>0. /\ RegTypes /\ userProc[w].at = "loaded" /\ userProc[w].doc = file /\ stat < MaxRegistrations
  BY DEF Reg!Write, Registry, WritesTheFile
<1>1. ASSUME NEW u \in Users, NEW names \in SUBSET Names, NEW host \in Names \cup {Nobody},
             Reg!register_user(w, u, names, host)
      PROVE  Registry'
  <2> DEFINE table == [file EXCEPT ![u] = [names |-> names, host |-> host]]
  <2>1. table \in Reg!Rows /\ file[u].names = {}
    BY <1>0, <1>1 DEF RegTypes, Reg!Rows, Reg!register_user, Reg!Registered
  <2>2. \A v \in Users, n \in Names :
            Owns(table, v, n) <=> Owns(file, v, n) \/ (v = u /\ n \in names)
    BY <1>0, <2>1 DEF RegTypes, Reg!Rows, Owns
  <2>3. /\ ~Reg!Taken(file, names, u) /\ Reg!Gives(u, names)
        /\ Reg!_save_users_unlocked(w, table)
    BY <1>0, <1>1 DEF Reg!register_user
  <2> HIDE DEF table
  <2>4. QED
    BY <1>0, <2>1, <2>2, <2>3, RegistryGives
<1>2. ASSUME NEW u \in Users, NEW n \in Names, Reg!add_alias(w, u, n)
      PROVE  Registry'
  <2> DEFINE table == [file EXCEPT ![u].names = @ \cup {n}]
  <2>1. table \in Reg!Rows
    BY <1>0 DEF RegTypes, Reg!Rows
  <2>2. \A v \in Users, k \in Names :
            Owns(table, v, k) <=> Owns(file, v, k) \/ (v = u /\ k \in {n})
    BY <1>0 DEF RegTypes, Reg!Rows, Owns
  <2>3. /\ ~Reg!Taken(file, {n}, u) /\ Reg!Gives(u, {n})
        /\ Reg!_save_users_unlocked(w, table)
    BY <1>0, <1>2 DEF Reg!add_alias
  <2>4. {n} \in SUBSET Names
    OBVIOUS
  <2> HIDE DEF table
  <2>5. QED
    BY <1>0, <2>1, <2>2, <2>3, <2>4, RegistryGives
<1>3. CASE Reg!touch_user(w) \/ Reg!set_notify(w)
  <2>1. Reg!_save_users_unlocked(w, file) /\ given' = given
    BY <1>0, <1>3 DEF Reg!touch_user, Reg!set_notify
  <2>2. Since(given, given) /\ given \in Owners /\ file \in Reg!Rows
    BY <1>0 DEF Since, RegTypes
  <2>3. \A u \in Users, n \in Names : Owns(file, u, n) <=> given[n] = u
    BY DEF Registry, AsGiven
  <2>4. QED
    BY <1>0, <2>1, <2>2, <2>3, RegistryWritten
<1>4. QED
  BY <1>1, <1>2, <1>3 DEF Reg!Write

LEMMA RegistryRead ==
    ASSUME Registry, NEW r \in Readers,
           \/ Reg!Stat(r) \/ Reg!Parse(r) \/ Reg!Fill(r) \/ Reg!Answer(r)
    PROVE  Registry'
<1>0. RegTypes
  BY DEF Registry
<1>1. UNCHANGED <<file, stat, userLock, userProc, given>>
  BY DEF Reg!Stat, Reg!Parse, Reg!Fill, Reg!Answer
<1>2. reader[r] \in Reading /\ cached[r] \in Read
  BY <1>0 DEF RegTypes
<1>3. PICK to \in Reading :
         /\ reader' = [reader EXCEPT ![r] = to]
         /\ to.stat <= stat /\ Since(to.must, given)
         /\ to.at \in {"fill", "answer"} => Holds(to.rows, to.must)
         /\ to.at = "fill" /\ to.stat = stat => to.rows = file
  <2>1. CASE Reg!Stat(r)
    <3> DEFINE at == IF stat = 0 \/ cached[r].stat = stat THEN "answer" ELSE "parse"
               table == IF stat # 0 /\ cached[r].stat = stat THEN cached[r].rows ELSE Reg!Empty
               to == [Reg!Resting EXCEPT !.at = at, !.stat = stat, !.must = given, !.rows = table]
    <3>1. at \in {"answer", "parse"} /\ table \in Reg!Rows
      BY <1>0, <1>2, EmptyTable DEF RegTypes, Read
    <3>2. reader' = [reader EXCEPT ![r] = to]
      BY <2>1 DEF Reg!Stat
    <3>3. /\ stat = 0 => at = "answer" /\ table = Reg!Empty
          /\ stat # 0 /\ at = "answer" => cached[r].stat = stat /\ table = cached[r].rows
      OBVIOUS
    <3> HIDE DEF at, table
    <3>4. /\ to \in Reading
          /\ to.at = at /\ to.stat = stat /\ to.must = given /\ to.rows = table
      BY <1>0, <3>1, EmptyTable DEF RegTypes, Reading
    <3> HIDE DEF to
    <3>5. Since(given, given) /\ stat <= stat
      BY <1>0, HostBounds DEF Since, RegTypes
    <3>6. stat = 0 => Holds(Reg!Empty, given)
      BY DEF Registry, AsGiven, Holds
    <3>7. cached[r].stat = stat /\ stat # 0 => cached[r].rows = file
      BY DEF Registry, CacheIsTrue
    <3>8. Holds(file, given)
      BY <1>0, <3>5, FileHolds DEF RegTypes
    <3>9. to.at = "answer" => Holds(to.rows, to.must)
      BY <3>3, <3>4, <3>6, <3>7, <3>8
    <3>10. QED
      BY <3>1, <3>4, <3>2, <3>5, <3>9
  <2>2. CASE Reg!Parse(r)
    <3> DEFINE to == [reader[r] EXCEPT !.at = "fill", !.rows = file]
    <3>1. to \in Reading /\ to.must = reader[r].must /\ to.stat = reader[r].stat /\ to.rows = file
      BY <1>0, <1>2 DEF RegTypes, Reading
    <3>2. reader' = [reader EXCEPT ![r] = to]
      BY <1>0, <2>2 DEF Reg!Parse, RegTypes
    <3>3. Since(to.must, given) /\ to.stat <= stat
      BY <3>1 DEF Registry, ReadsAreTrue
    <3>4. Holds(file, to.must)
      BY <3>1, <3>3, FileHolds DEF Reading
    <3> HIDE DEF to
    <3>5. QED
      BY <3>1, <3>2, <3>3, <3>4
  <2>3. CASE Reg!Fill(r)
    <3> DEFINE to == [reader[r] EXCEPT !.at = "answer"]
    <3>1. /\ to \in Reading /\ to.at = "answer" /\ to.must = reader[r].must
          /\ to.stat = reader[r].stat /\ to.rows = reader[r].rows
      BY <1>2 DEF Reading
    <3>2. reader' = [reader EXCEPT ![r] = to] /\ reader[r].at = "fill"
      BY <1>0, <2>3 DEF Reg!Fill, RegTypes
    <3>3. Since(to.must, given) /\ to.stat <= stat /\ Holds(to.rows, to.must)
      BY <3>1, <3>2 DEF Registry, ReadsAreTrue
    <3> HIDE DEF to
    <3>4. QED
      BY <3>1, <3>2, <3>3
  <2>4. CASE Reg!Answer(r)
    <3>1. Reg!Resting.stat <= stat
      BY <1>0, EmptyTable, HostBounds DEF RegTypes
    <3>2. Since(Reg!Resting.must, given)
      BY EmptyTable DEF Since
    <3>3. QED
      BY <2>4, <3>1, <3>2, EmptyTable DEF Reg!Answer
  <2>5. QED
    BY <2>1, <2>2, <2>3, <2>4
<1>4. /\ cached' \in [Readers -> Read]
      /\ \A q \in Readers : cached'[q].stat <= stat
                           /\ (cached'[q].stat = stat /\ stat # 0 => cached'[q].rows = file)
  <2>1. CASE Reg!Fill(r)
    <3>1. cached' = [cached EXCEPT ![r] = [stat |-> reader[r].stat, rows |-> reader[r].rows]]
      BY <2>1 DEF Reg!Fill, Reg!Key
    <3>2. /\ reader[r].stat <= stat
          /\ reader[r].stat = stat => reader[r].rows = file
      BY <2>1 DEF Reg!Fill, Registry, ReadsAreTrue
    <3>3. QED
      BY <1>0, <1>2, <3>1, <3>2 DEF RegTypes, Read, Reading, Registry, CacheIsTrue
  <2>2. CASE UNCHANGED cached
    BY <1>0, <2>2 DEF RegTypes, Registry, CacheIsTrue
  <2>3. QED
    BY <2>1, <2>2 DEF Reg!Stat, Reg!Parse, Reg!Answer
<1>5. /\ reader' \in [Readers -> Reading] /\ reader'[r] = to
      /\ \A q \in Readers \ {r} : reader'[q] = reader[q]
  BY <1>0, <1>3 DEF RegTypes
<1>6. RegTypes'
  BY <1>0, <1>1, <1>4, <1>5 DEF RegTypes
<1>7. ReadsAreTrue'
  BY <1>1, <1>3, <1>5 DEF Registry, ReadsAreTrue
<1>8. CacheIsTrue'
  BY <1>1, <1>4 DEF CacheIsTrue
<1>9. AsGiven' /\ WritesTheFile'
  BY <1>1 DEF Registry, AsGiven, WritesTheFile
<1>10. QED
  BY <1>6, <1>7, <1>8, <1>9 DEF Registry

LEMMA RegistryStep == Registry /\ [Reg!Next]_regVars => Registry'
<1> SUFFICES ASSUME Registry, [Reg!Next]_regVars PROVE Registry'
  OBVIOUS
<1>0. RegTypes
  BY DEF Registry
<1>1. ASSUME NEW w \in Writers, Reg!Load(w)
      PROVE  Registry'
  <2>1. RegTypes'
    BY <1>0, <1>1 DEF Reg!Load, RegTypes, Writing
  <2>2. \A v \in Writers : userProc[v].at # "loaded"
    BY <1>0, <1>1, NobodyAssumption DEF Reg!Load, Registry, WritesTheFile
  <2>3. WritesTheFile'
    BY <1>0, <1>1, <2>2 DEF Reg!Load, RegTypes, WritesTheFile
  <2>4. AsGiven' /\ CacheIsTrue' /\ ReadsAreTrue'
    BY <1>1 DEF Reg!Load, Registry, AsGiven, CacheIsTrue, ReadsAreTrue
  <2>5. QED
    BY <2>1, <2>3, <2>4 DEF Registry
<1>2. ASSUME NEW w \in Writers, Reg!Abandon(w)
      PROVE  Registry'
  <2>1. /\ userLock = w /\ userLock' = Nobody /\ UNCHANGED <<file, stat, cached, reader, given>>
        /\ userProc' = [userProc EXCEPT ![w] = [at |-> "idle", doc |-> Reg!Empty]]
    BY <1>2 DEF Reg!Abandon, Reg!Release, Registry, WritesTheFile
  <2>2. RegTypes'
    BY <1>0, <2>1, EmptyTable DEF RegTypes, Writing
  <2>3. WritesTheFile'
    BY <1>0, <2>1 DEF Registry, RegTypes, Writing, WritesTheFile
  <2>4. AsGiven' /\ CacheIsTrue' /\ ReadsAreTrue'
    BY <2>1 DEF Registry, AsGiven, CacheIsTrue, ReadsAreTrue
  <2>5. QED
    BY <2>2, <2>3, <2>4 DEF Registry
<1>3. CASE UNCHANGED regVars
  BY <1>3 DEF regVars, Registry, RegTypes, AsGiven, WritesTheFile, CacheIsTrue, ReadsAreTrue
<1>4. QED
  BY <1>1, <1>2, <1>3, RegistryWrite, RegistryRead DEF Reg!Next

\* A name that was given resolves to the user it was given to, in every
\* process that begins to resolve it afterwards: no registration, alias or
\* heartbeat takes it away and no cache serves rows from before
\* (_users/_store_write.py register_user, _users/_identity.py resolve_user).
THEOREM NamesAreNotLost == HostSpec => []NamesStay
<1>1. ASSUME Registry, NEW r \in Readers, reader[r].at = "answer",
             NEW n \in Names, reader[r].must[n] # Nobody
      PROVE  Reg!resolve_user(reader[r].rows, n) = {reader[r].must[n]}
  <2>1. /\ \A u \in Users : Owns(reader[r].rows, u, n) <=> reader[r].must[n] = u
        /\ reader[r].must[n] \in Users
    BY <1>1 DEF Registry, RegTypes, Reading, Owners, ReadsAreTrue, Holds
  <2>2. Reg!_names_index(reader[r].rows, n) = {reader[r].must[n]}
    BY <2>1 DEF Reg!_names_index, Reg!Registered, Owns
  <2>3. QED
    BY <2>2 DEF Reg!resolve_user, Reg!Exact
<1>2. Registry => NamesStay
  BY <1>1 DEF NamesStay, Reg!NamesStay
<1>3. QED
  BY <1>2, RegSteps, RegistryInit, RegistryStep, PTL

-----------------------------------------------------------------------------
(* The wake watcher.  One loop runs; it has a snapshot of the store no     *)
(* newer than the store, nobody was told of anything newer than it, and a  *)
(* wake to be posted, one for each agent, is newer than what was told.     *)

Versions == [Ids -> 0 .. MaxChanges]
Mtimes == 0 .. MaxTouches + 1
Loop == [at : {"off", "tick", "load", "post"}, seeded : BOOLEAN, snapshot : Versions,
         stat : Mtimes, last : Mtimes, wakes : Seq(Wake!Wakes)]
WakeTypes ==
    /\ version \in Versions /\ mtime \in 1 .. MaxTouches + 1
    /\ watcher \in Watchers \cup {Nobody}
    /\ watch \in [Watchers -> Loop]
    /\ cooling \in [Watchers -> SUBSET Agents]
    /\ told \in [Agents -> Versions]

OneLoop == \A w \in Watchers : watch[w].at # "off" => watcher = w
ToldOf == \A g \in Agents, i \in Ids : told[g][i] <= version[i]
Snapshots ==
    \A w \in Watchers, i \in Ids :
        /\ watch[w].snapshot[i] <= version[i]
        /\ watch[w].at # "off" /\ watch[w].seeded =>
              \A g \in Agents : told[g][i] <= watch[w].snapshot[i]
News(w, wake) ==
    wake.version <= watch[w].snapshot[wake.card] /\ wake.version > told[wake.agent][wake.card]
WakesAreNews ==
    \A w \in Watchers :
        /\ watch[w].at # "post" \/ ~watch[w].seeded => watch[w].wakes = <<>>
        /\ \A k \in 1 .. Len(watch[w].wakes) :
              /\ News(w, watch[w].wakes[k])
              /\ \A j \in 1 .. Len(watch[w].wakes) :
                    watch[w].wakes[j].agent = watch[w].wakes[k].agent => j = k
Watching == WakeTypes /\ OneLoop /\ ToldOf /\ Snapshots /\ WakesAreNews

\* A finite set in some order, each element once.
LEMMA InSomeOrder ==
    ASSUME NEW S, IsFiniteSet(S)
    PROVE  /\ Wake!SetToSeq(S) \in Seq(S)
           /\ \A j, k \in 1 .. Len(Wake!SetToSeq(S)) :
                 Wake!SetToSeq(S)[j] = Wake!SetToSeq(S)[k] => j = k
<1> DEFINE n == Cardinality(S)
           seq == Wake!SetToSeq(S)
<1>1. n \in Nat /\ ExistsBijection(1 .. n, S)
  BY FS_CardinalityType
<1>2. \E f \in [1 .. n -> S] : Wake!IsInjective(f)
  BY <1>1 DEF ExistsBijection, Bijection, Injection, IsInjective, Wake!IsInjective
<1>3. seq \in [1 .. n -> S] /\ Wake!IsInjective(seq)
  BY <1>2 DEF Wake!SetToSeq, Wake!Cardinality, Cardinality
<1> HIDE DEF n, seq
<1>4. seq \in Seq(S)
  BY <1>1, <1>3, SeqDef
<1>5. Len(seq) = n
  BY <1>1, <1>3, <1>4, LenProperties
<1>6. \A j, k \in 1 .. Len(seq) : seq[j] = seq[k] => j = k
  BY <1>3, <1>5 DEF Wake!IsInjective
<1>7. QED
  BY <1>4, <1>6 DEF seq

LEMMA NoLoopType ==
    /\ Wake!NoLoop \in Loop /\ Wake!NoLoop.at = "off" /\ ~Wake!NoLoop.seeded
    /\ Wake!NoLoop.wakes = <<>> /\ \A i \in Ids : Wake!NoLoop.snapshot[i] = 0
    /\ Wake!Unseen \in Versions /\ \A i \in Ids : Wake!Unseen[i] = 0
<1>1. 0 \in 0 .. MaxChanges /\ 0 \in Mtimes
  BY HostBounds DEF Mtimes
<1>2. Wake!Unseen \in Versions /\ \A i \in Ids : Wake!Unseen[i] = 0
  BY <1>1 DEF Wake!Unseen, Versions
<1>3. QED
  BY <1>1, <1>2, EmptySeq DEF Wake!NoLoop, Loop

LEMMA WatchingInit == Wake!Init => Watching
<1> SUFFICES ASSUME Wake!Init PROVE Watching
  OBVIOUS
<1>1. version \in Versions /\ mtime \in 1 .. MaxTouches + 1
  BY HostBounds DEF Wake!Init, Versions
<1>2. WakeTypes
  BY <1>1, NoLoopType DEF Wake!Init, WakeTypes
<1>3. OneLoop /\ WakesAreNews
  BY NoLoopType DEF Wake!Init, OneLoop, WakesAreNews
<1>4. ToldOf /\ Snapshots
  BY <1>1, NoLoopType DEF Wake!Init, ToldOf, Snapshots, Versions
<1>5. QED
  BY <1>2, <1>3, <1>4 DEF Watching

LEMMA Detected ==
    ASSUME Watching, NEW w \in Watchers, NEW wake \in Wake!detect_changes(w)
    PROVE  /\ DOMAIN wake \subseteq Agents
           /\ \A g \in DOMAIN wake :
                 /\ wake[g] \in Wake!Wakes /\ wake[g].agent = g
                 /\ wake[g].version = version[wake[g].card]
                 /\ wake[g].version > watch[w].snapshot[wake[g].card]
           /\ ~watch[w].seeded => DOMAIN wake = {}
<1>0. WakeTypes /\ watch[w] \in Loop
  BY DEF Watching, WakeTypes
<1>1. CASE ~watch[w].seeded
  <2>1. wake = <<>>
    BY <1>1 DEF Wake!detect_changes
  <2>2. DOMAIN wake = {}
    BY <2>1, EmptySeq
  <2>3. QED
    BY <2>2
<1>2. CASE watch[w].seeded
  <2> DEFINE due == {g \in Agents \ cooling[w] : \E i \in Wake!Changed(w) : g \in Recipients[i]}
  <2>1. PICK pick \in [due -> Wake!Changed(w)] :
           wake = [g \in due |-> [agent |-> g, card |-> pick[g], version |-> version[pick[g]]]]
    BY <1>2 DEF Wake!detect_changes
  <2>2. ASSUME NEW i \in Wake!Changed(w)
        PROVE  i \in Ids /\ version[i] \in 1 .. MaxChanges /\ version[i] > watch[w].snapshot[i]
    BY <1>0, HostBounds DEF Wake!Changed, WakeTypes, Loop, Versions
  <2>3. due \subseteq Agents
    OBVIOUS
  <2> HIDE DEF due
  <2>4. \A g \in due :
            /\ wake[g] = [agent |-> g, card |-> pick[g], version |-> version[pick[g]]]
            /\ pick[g] \in Wake!Changed(w)
    BY <2>1
  <2>5. DOMAIN wake = due
    BY <2>1
  <2>6. QED
    BY <1>2, <2>2, <2>3, <2>4, <2>5 DEF Wake!Wakes
<1>3. QED
  BY <1>0, <1>1, <1>2 DEF Loop

\* One loop takes a step, and the others are off.
LEMMA LoopGoes ==
    ASSUME Watching, NEW w \in Watchers, NEW to \in Loop,
           watch' = [watch EXCEPT ![w] = to],
           watch[w].at = "off" => watcher = Nobody,
           watcher' \in Watchers \cup {Nobody}, cooling' \in [Watchers -> SUBSET Agents],
           told' \in [Agents -> Versions], UNCHANGED <<version, mtime>>,
           to.at # "off" => watcher' = w,
           \A i \in Ids :
               /\ \A g \in Agents : told'[g][i] <= version[i]
               /\ to.snapshot[i] <= version[i]
               /\ to.at # "off" /\ to.seeded => \A g \in Agents : told'[g][i] <= to.snapshot[i],
           to.at # "post" \/ ~to.seeded => to.wakes = <<>>,
           \A k \in 1 .. Len(to.wakes) :
              LET wake == to.wakes[k]
              IN  /\ wake.version <= to.snapshot[wake.card]
                  /\ wake.version > told'[wake.agent][wake.card]
                  /\ \A j \in 1 .. Len(to.wakes) : to.wakes[j].agent = wake.agent => j = k
    PROVE  Watching'
<1>0. WakeTypes
  BY DEF Watching
<1>1. /\ watch' \in [Watchers -> Loop] /\ watch'[w] = to
      /\ \A v \in Watchers \ {w} : watch'[v] = watch[v]
  BY <1>0 DEF WakeTypes
<1>2. \A v \in Watchers \ {w} : watch[v].at = "off" /\ watch[v].wakes = <<>>
  BY <1>0, NobodyAssumption DEF Watching, OneLoop, WakesAreNews, WakeTypes
<1>3. WakeTypes'
  BY <1>0, <1>1 DEF WakeTypes
<1>4. OneLoop'
  BY <1>1, <1>2 DEF OneLoop
<1>5. ToldOf'
  BY DEF ToldOf
<1>6. Snapshots'
  <2>1. ASSUME NEW v \in Watchers, NEW i \in Ids
        PROVE  /\ watch'[v].snapshot[i] <= version'[i]
               /\ watch'[v].at # "off" /\ watch'[v].seeded =>
                     \A g \in Agents : told'[g][i] <= watch'[v].snapshot[i]
    <3>1. CASE v = w
      BY <1>1, <3>1
    <3>2. CASE v # w
      BY <1>1, <1>2, <3>2 DEF Watching, Snapshots
    <3>3. QED
      BY <3>1, <3>2
  <2>2. QED
    BY <2>1 DEF Snapshots
<1>7. WakesAreNews'
  <2>1. ASSUME NEW v \in Watchers
        PROVE  /\ watch'[v].at # "post" \/ ~watch'[v].seeded => watch'[v].wakes = <<>>
               /\ \A k \in 1 .. Len(watch'[v].wakes) :
                     /\ News(v, watch[v].wakes[k])'
                     /\ \A j \in 1 .. Len(watch'[v].wakes) :
                           watch'[v].wakes[j].agent = watch'[v].wakes[k].agent => j = k
    <3>1. CASE v = w
      BY <1>1, <3>1 DEF News
    <3>2. CASE v # w
      <4>1. Len(watch'[v].wakes) = 0
        BY <1>1, <1>2, <3>2, EmptySeq
      <4>2. QED
        BY <1>1, <1>2, <3>2, <4>1
    <3>3. QED
      BY <3>1, <3>2
  <2>2. QED
    BY <2>1 DEF WakesAreNews
<1>8. QED
  BY <1>3, <1>4, <1>5, <1>6, <1>7 DEF Watching

\* The same, with no wake to post.
LEMMA LoopGoesIdle ==
    ASSUME Watching, NEW w \in Watchers, NEW to \in Loop,
           watch' = [watch EXCEPT ![w] = to],
           watch[w].at = "off" => watcher = Nobody,
           watcher' \in Watchers \cup {Nobody}, UNCHANGED <<version, mtime, told>>,
           cooling' \in [Watchers -> SUBSET Agents],
           to.at # "off" => watcher' = w,
           \A i \in Ids :
               /\ to.snapshot[i] <= version[i]
               /\ to.at # "off" /\ to.seeded => \A g \in Agents : told[g][i] <= to.snapshot[i],
           to.wakes = <<>>
    PROVE  Watching'
<1>1. \A i \in Ids :
         /\ \A g \in Agents : told'[g][i] <= version[i]
         /\ to.snapshot[i] <= version[i]
         /\ to.at # "off" /\ to.seeded => \A g \in Agents : told'[g][i] <= to.snapshot[i]
  BY DEF Watching, ToldOf
<1>2. 1 .. Len(to.wakes) = {}
  BY EmptySeq
<1>3. told' \in [Agents -> Versions] /\ UNCHANGED <<version, mtime>>
  BY DEF Watching, WakeTypes
<1>4. \A k \in 1 .. Len(to.wakes) :
         LET wake == to.wakes[k]
         IN  /\ wake.version <= to.snapshot[wake.card]
             /\ wake.version > told'[wake.agent][wake.card]
             /\ \A j \in 1 .. Len(to.wakes) : to.wakes[j].agent = wake.agent => j = k
  BY <1>2
<1>5. QED
  BY <1>1, <1>3, <1>4, LoopGoes

\* The loop goes on with its snapshot.
LEMMA LoopRests ==
    ASSUME Watching, NEW w \in Watchers, watch[w].at # "off",
           NEW at \in {"tick", "load", "post"}, NEW stat_ \in Mtimes,
           watch[w].wakes = <<>>,
           watch' = [watch EXCEPT ![w].at = at, ![w].stat = stat_],
           UNCHANGED <<version, mtime, watcher, cooling, told>>
    PROVE  Watching'
<1> DEFINE to == [watch[w] EXCEPT !.at = at, !.stat = stat_]
<1>0. WakeTypes /\ watch[w] \in Loop
  BY DEF Watching, WakeTypes
<1>1. /\ to \in Loop /\ to.at = at /\ to.seeded = watch[w].seeded
      /\ to.snapshot = watch[w].snapshot /\ to.wakes = <<>>
  BY <1>0 DEF Loop
<1>2. watch' = [watch EXCEPT ![w] = to]
  BY <1>0 DEF WakeTypes
<1> HIDE DEF to
<1>3. /\ watcher' = w
      /\ \A i \in Ids :
            /\ to.snapshot[i] <= version[i]
            /\ to.seeded => \A g \in Agents : told[g][i] <= to.snapshot[i]
  BY <1>1 DEF Watching, OneLoop, Snapshots
<1>4. watcher' \in Watchers \cup {Nobody} /\ cooling' \in [Watchers -> SUBSET Agents]
  BY <1>0 DEF WakeTypes
<1>5. QED
  BY <1>1, <1>2, <1>3, <1>4, LoopGoesIdle

LEMMA WatchingOnce ==
    ASSUME Watching, NEW w \in Watchers, Wake!run_watcher_once(w)
    PROVE  Watching'
<1>0. WakeTypes /\ watch[w] \in Loop /\ watch[w].at = "load" /\ watcher = w
  BY DEF Watching, WakeTypes, OneLoop, Wake!run_watcher_once
<1>1. PICK wake \in Wake!detect_changes(w) :
        /\ watch' = [watch EXCEPT ![w] =
              [@ EXCEPT !.at = "post", !.seeded = TRUE, !.snapshot = version, !.last = watch[w].stat,
                        !.wakes = Wake!SetToSeq({wake[g] : g \in DOMAIN wake})]]
        /\ cooling' = [cooling EXCEPT ![w] = @ \cup DOMAIN wake]
  BY DEF Wake!run_watcher_once
<1> DEFINE S == {wake[g] : g \in DOMAIN wake}
           seq == Wake!SetToSeq(S)
           to == [watch[w] EXCEPT !.at = "post", !.seeded = TRUE, !.snapshot = version,
                                  !.last = watch[w].stat, !.wakes = seq]
<1>2. /\ DOMAIN wake \subseteq Agents
      /\ \A g \in DOMAIN wake :
            /\ wake[g] \in Wake!Wakes /\ wake[g].agent = g
            /\ wake[g].version = version[wake[g].card]
            /\ wake[g].version > watch[w].snapshot[wake[g].card]
      /\ ~watch[w].seeded => DOMAIN wake = {}
  BY Detected
<1>3. IsFiniteSet(S)
  <2> DEFINE f == [a \in S |-> a.agent]
  <2>1. f \in Injection(S, Agents)
    BY <1>2 DEF Injection, IsInjective
  <2>2. QED
    BY <2>1, AgentsAssumption, FS_Injection
<1>4. seq \in Seq(S) /\ \A j, k \in 1 .. Len(seq) : seq[j] = seq[k] => j = k
  BY <1>3, InSomeOrder
<1>5. S \subseteq Wake!Wakes /\ \A a, b \in S : a.agent = b.agent => a = b
  BY <1>2
<1>6. \A a \in S : /\ a.agent \in Agents /\ a.card \in Ids
                   /\ a.version = version[a.card] /\ a.version > watch[w].snapshot[a.card]
                   /\ watch[w].seeded
  BY <1>2 DEF Wake!Wakes
<1> HIDE DEF S, seq
<1>7. seq \in Seq(Wake!Wakes) /\ \A k \in 1 .. Len(seq) : seq[k] \in S
  BY <1>4, <1>5, ElementOfSeq, SeqDef
<1>8. /\ to \in Loop /\ to.at = "post" /\ to.seeded /\ to.snapshot = version /\ to.wakes = seq
  BY <1>0, <1>7 DEF Loop, WakeTypes
<1>9. watch' = [watch EXCEPT ![w] = to]
  BY <1>0, <1>1 DEF WakeTypes, S, seq
<1> HIDE DEF to
<1>10. ASSUME NEW k \in 1 .. Len(seq)
       PROVE  /\ seq[k].version <= version[seq[k].card]
              /\ seq[k].version > told[seq[k].agent][seq[k].card]
              /\ \A j \in 1 .. Len(seq) : seq[j].agent = seq[k].agent => j = k
  <2>1. seq[k] \in S
    BY <1>7
  <2>2. /\ version[seq[k].card] \in Nat /\ seq[k].version = version[seq[k].card]
        /\ told[seq[k].agent][seq[k].card] \in Nat /\ watch[w].snapshot[seq[k].card] \in Nat
    BY <1>0, <1>6, <2>1 DEF WakeTypes, Loop, Versions
  <2>3. told[seq[k].agent][seq[k].card] <= watch[w].snapshot[seq[k].card]
    BY <1>0, <1>6, <2>1 DEF Watching, Snapshots
  <2>4. \A j \in 1 .. Len(seq) : seq[j].agent = seq[k].agent => j = k
    BY <1>4, <1>5, <1>7
  <2>5. QED
    BY <1>6, <2>1, <2>2, <2>3, <2>4
<1>11. \A i \in Ids : version[i] <= version[i] /\ \A g \in Agents : told[g][i] <= version[i]
  BY <1>0 DEF Watching, ToldOf, WakeTypes, Versions
<1>12. cooling' \in [Watchers -> SUBSET Agents] /\ UNCHANGED <<version, mtime, watcher, told>>
  BY <1>0, <1>1, <1>2 DEF WakeTypes, Wake!run_watcher_once
<1>13. QED
  BY <1>0, <1>8, <1>9, <1>10, <1>11, <1>12, LoopGoes DEF WakeTypes

\* A wake is taken from the front, and posted or not.
LEMMA WatchingPost ==
    ASSUME Watching, NEW w \in Watchers, Wake!post_wake(w) \/ Wake!NotPosted(w)
    PROVE  /\ Watching'
           /\ Wake!Wake(w).version > told[Wake!Wake(w).agent][Wake!Wake(w).card]
<1>0. /\ WakeTypes /\ watch[w] \in Loop /\ watch[w].at = "post" /\ watcher = w
      /\ watch[w].wakes # <<>> /\ watch[w].seeded
      /\ watch' = [watch EXCEPT ![w].wakes = Tail(@)]
      /\ UNCHANGED <<version, mtime, watcher, cooling>>
  BY DEF Watching, WakeTypes, OneLoop, WakesAreNews, Loop, Wake!post_wake, Wake!NotPosted
<1> DEFINE q == watch[w].wakes
           to == [watch[w] EXCEPT !.wakes = Tail(q)]
           wake == Head(q)
<1>1. q \in Seq(Wake!Wakes) /\ q # <<>>
  BY <1>0 DEF Loop
<1>2. \A k \in 1 .. Len(q) :
         /\ News(w, q[k])
         /\ \A j \in 1 .. Len(q) : q[j].agent = q[k].agent => j = k
  BY DEF Watching, WakesAreNews
<1>3. watch' = [watch EXCEPT ![w] = to]
  BY <1>0 DEF WakeTypes
<1>4. /\ to.at = "post" /\ to.seeded /\ to.snapshot = watch[w].snapshot /\ to.wakes = Tail(q)
      /\ (Tail(q) \in Seq(Wake!Wakes) => to \in Loop)
  BY <1>0 DEF Loop
<1> HIDE DEF q, to
<1>5. /\ wake = q[1] /\ Tail(q) \in Seq(Wake!Wakes) /\ Len(Tail(q)) = Len(q) - 1
      /\ Len(q) \in Nat /\ Len(q) # 0
      /\ \A k \in 1 .. Len(Tail(q)) : Tail(q)[k] = q[k + 1]
  BY <1>1, HeadTailProperties, EmptySeq, LenProperties
<1>6. \A k \in 1 .. Len(q) : q[k] \in Wake!Wakes
  BY <1>1, ElementOfSeq
<1>7. wake \in Wake!Wakes /\ News(w, wake)
  BY <1>2, <1>5, <1>6
<1>8. /\ told' \in [Agents -> Versions]
      /\ \A g \in Agents, i \in Ids :
            told'[g][i] = told[g][i]
              \/ (g = wake.agent /\ i = wake.card /\ told'[g][i] = wake.version)
  <2>1. CASE Wake!NotPosted(w)
    BY <1>0, <2>1 DEF Wake!NotPosted, WakeTypes
  <2>2. CASE Wake!post_wake(w)
    <3>1. told' = [told EXCEPT ![wake.agent][wake.card] = wake.version]
      BY <2>2 DEF Wake!post_wake, Wake!Wake, q
    <3>2. wake.agent \in Agents /\ wake.card \in Ids /\ wake.version \in 0 .. MaxChanges
      BY <1>7, HostBounds DEF Wake!Wakes
    <3> HIDE DEF wake
    <3> DEFINE t == [told[wake.agent] EXCEPT ![wake.card] = wake.version]
    <3>3. t \in Versions /\ \A i \in Ids : t[i] = IF i = wake.card THEN wake.version ELSE told[wake.agent][i]
      BY <1>0, <3>2 DEF WakeTypes, Versions
    <3>4. told' = [told EXCEPT ![wake.agent] = t]
      BY <1>0, <3>1, <3>2 DEF WakeTypes
    <3> HIDE DEF t
    <3>5. QED
      BY <1>0, <3>2, <3>3, <3>4 DEF WakeTypes
  <2>3. QED
    BY <2>1, <2>2
<1>9. /\ \A i \in Ids : /\ watch[w].snapshot[i] <= version[i]
                        /\ \A g \in Agents : told[g][i] <= watch[w].snapshot[i]
      /\ \A i \in Ids : watch[w].snapshot[i] \in Nat /\ version[i] \in Nat
      /\ wake.version <= watch[w].snapshot[wake.card]
  <2>1. watch[w].snapshot \in Versions /\ version \in Versions
    BY <1>0 DEF Loop, WakeTypes
  <2>2. \A i \in Ids : watch[w].snapshot[i] \in Nat /\ version[i] \in Nat
    BY <2>1, HostBounds DEF Versions
  <2>3. \A i \in Ids : /\ watch[w].snapshot[i] <= version[i]
                     /\ \A g \in Agents : told[g][i] <= watch[w].snapshot[i]
    BY <1>0 DEF Watching, Snapshots
  <2>4. QED
    BY <1>7, <2>2, <2>3 DEF News
<1>10. ASSUME NEW i \in Ids, NEW g \in Agents
       PROVE  told'[g][i] <= watch[w].snapshot[i] /\ told'[g][i] <= version[i]
  <2>1. told'[g][i] <= watch[w].snapshot[i]
    BY <1>8, <1>9
  <2>2. told'[g][i] \in Nat /\ watch[w].snapshot[i] \in Nat /\ version[i] \in Nat
    BY <1>8, <1>9 DEF Versions
  <2>3. QED
    BY <1>9, <2>1, <2>2
<1>11. ASSUME NEW k \in 1 .. Len(Tail(q))
       PROVE  /\ Tail(q)[k].version <= watch[w].snapshot[Tail(q)[k].card]
              /\ Tail(q)[k].version > told'[Tail(q)[k].agent][Tail(q)[k].card]
              /\ \A j \in 1 .. Len(Tail(q)) : Tail(q)[j].agent = Tail(q)[k].agent => j = k
  <2>1. k + 1 \in 1 .. Len(q) /\ Tail(q)[k] = q[k + 1] /\ 1 \in 1 .. Len(q) /\ k + 1 # 1
    BY <1>5
  <2>2. /\ News(w, q[k + 1]) /\ q[k + 1].agent # wake.agent
        /\ q[k + 1].agent \in Agents /\ q[k + 1].card \in Ids
    BY <1>2, <1>5, <1>6, <2>1 DEF Wake!Wakes
  <2>3. ASSUME NEW j \in 1 .. Len(Tail(q)), Tail(q)[j].agent = Tail(q)[k].agent
        PROVE  j = k
    <3>1. j + 1 \in 1 .. Len(q) /\ Tail(q)[j] = q[j + 1]
      BY <1>5
    <3>2. j + 1 = k + 1
      BY <1>2, <2>1, <2>3, <3>1
    <3>3. QED
      BY <3>2
  <2>4. QED
    BY <1>8, <2>1, <2>2, <2>3 DEF News
<1>12. Watching'
  <2>1. /\ to \in Loop /\ to.at = "post" /\ to.seeded
        /\ to.snapshot = watch[w].snapshot /\ to.wakes = Tail(q)
    BY <1>4, <1>5
  <2>2. \A i \in Ids :
           /\ \A g \in Agents : told'[g][i] <= version[i]
           /\ to.snapshot[i] <= version[i]
           /\ to.at # "off" /\ to.seeded => \A g \in Agents : told'[g][i] <= to.snapshot[i]
    BY <1>9, <1>10, <2>1
  <2>3. \A k \in 1 .. Len(to.wakes) :
           LET it == to.wakes[k]
           IN  /\ it.version <= to.snapshot[it.card]
               /\ it.version > told'[it.agent][it.card]
               /\ \A j \in 1 .. Len(to.wakes) : to.wakes[j].agent = it.agent => j = k
    BY <1>11, <2>1
  <2>4. /\ watcher' = w /\ watcher' \in Watchers \cup {Nobody} /\ watch[w].at # "off"
        /\ cooling' \in [Watchers -> SUBSET Agents] /\ UNCHANGED <<version, mtime>>
    BY <1>0 DEF WakeTypes
  <2>5. told' \in [Agents -> Versions]
    BY <1>8
  <2>6. QED
    BY <1>3, <2>1, <2>2, <2>3, <2>4, <2>5, LoopGoes
<1>13. QED
  BY <1>7, <1>12 DEF News, Wake!Wake, q

LEMMA WatchingStep == Watching /\ [Wake!Next]_wakeVars => Watching'
<1> SUFFICES ASSUME Watching, [Wake!Next]_wakeVars PROVE Watching'
  OBVIOUS
<1>0. WakeTypes
  BY DEF Watching
<1>1. CASE UNCHANGED wakeVars
  BY <1>1 DEF wakeVars, Watching, WakeTypes, OneLoop, ToldOf, Snapshots, WakesAreNews, News
<1>2. ASSUME NEW w \in Watchers, Wake!run_watcher_forever(w)
      PROVE  Watching'
  <2> DEFINE to == [Wake!NoLoop EXCEPT !.at = "tick"]
  <2>1. /\ to \in Loop /\ to.at = "tick" /\ ~to.seeded /\ to.wakes = <<>>
        /\ \A i \in Ids : to.snapshot[i] = 0
    BY NoLoopType DEF Loop
  <2>2. watch' = [watch EXCEPT ![w] = to] /\ watcher = Nobody /\ watcher' = w
    BY <1>2 DEF Wake!run_watcher_forever, Wake!acquire_single_instance_lock
  <2> HIDE DEF to
  <2>3. cooling' \in [Watchers -> SUBSET Agents] /\ UNCHANGED <<version, mtime, told>>
    BY <1>0, <1>2 DEF WakeTypes, Wake!run_watcher_forever
  <2>4. \A i \in Ids : to.snapshot[i] <= version[i]
    BY <1>0, <2>1, HostBounds DEF WakeTypes, Versions
  <2>5. QED
    BY <1>0, <2>1, <2>2, <2>3, <2>4, LoopGoesIdle DEF WakeTypes
<1>3. ASSUME NEW w \in Watchers, Wake!Leave(w)
      PROVE  Watching'
  <2>1. /\ watch' = [watch EXCEPT ![w] = Wake!NoLoop] /\ watch[w].at # "off"
        /\ watcher' \in Watchers \cup {Nobody} /\ UNCHANGED <<version, mtime, cooling, told>>
    BY <1>0, <1>3 DEF Wake!Leave, WakeTypes
  <2>2. \A i \in Ids : Wake!NoLoop.snapshot[i] <= version[i]
    BY <1>0, NoLoopType, HostBounds DEF WakeTypes, Versions
  <2>3. QED
    BY <1>0, <2>1, <2>2, NoLoopType, LoopGoesIdle DEF WakeTypes
<1>4. ASSUME NEW w \in Watchers, Wake!Stat(w) \/ Wake!LoadFails(w) \/ Wake!Sleep(w)
      PROVE  Watching'
  <2>0. watch[w] \in Loop /\ mtime \in Mtimes
    BY <1>0, HostBounds DEF WakeTypes, Mtimes
  <2>1. watch[w].wakes = <<>> /\ watch[w].at # "off"
    BY <1>4 DEF Watching, WakesAreNews, Wake!Stat, Wake!LoadFails, Wake!Sleep
  <2>2. PICK at \in {"tick", "load", "post"}, st \in Mtimes :
           watch' = [watch EXCEPT ![w].at = at, ![w].stat = st]
    <3>1. CASE Wake!Stat(w)
      BY <2>0, <3>1 DEF Wake!Stat
    <3>2. CASE Wake!LoadFails(w) \/ Wake!Sleep(w)
      <4>1. watch' = [watch EXCEPT ![w].at = "tick"]
        BY <3>2 DEF Wake!LoadFails, Wake!Sleep
      <4>2. [watch[w] EXCEPT !.at = "tick"] = [watch[w] EXCEPT !.at = "tick", !.stat = watch[w].stat]
        BY <2>0 DEF Loop
      <4>3. watch' = [watch EXCEPT ![w].at = "tick", ![w].stat = watch[w].stat]
        BY <1>0, <4>1, <4>2 DEF WakeTypes
      <4>4. QED
        BY <2>0, <4>3 DEF Loop
    <3>3. QED
      BY <1>4, <3>1, <3>2
  <2>3. UNCHANGED <<version, mtime, watcher, cooling, told>>
    BY <1>4 DEF Wake!Stat, Wake!LoadFails, Wake!Sleep
  <2>4. QED
    BY <2>1, <2>2, <2>3, LoopRests
<1>5. ASSUME NEW w \in Watchers, NEW g \in Agents, Wake!Cool(w, g)
      PROVE  Watching'
  BY <1>0, <1>5 DEF Wake!Cool, Watching, WakeTypes, OneLoop, ToldOf, Snapshots, WakesAreNews, News
<1>6. ASSUME NEW i \in Ids, Wake!Change(i)
      PROVE  Watching'
  <2>1. /\ version' \in Versions /\ \A j \in Ids : version[j] <= version'[j]
        /\ version \in Versions /\ UNCHANGED <<mtime, watcher, watch, cooling, told>>
    BY <1>0, <1>6, HostBounds DEF Wake!Change, WakeTypes, Versions
  <2>2. WakeTypes'
    BY <1>0, <2>1 DEF WakeTypes
  <2>3. ToldOf'
    BY <1>0, <2>1 DEF Watching, ToldOf, WakeTypes, Versions
  <2>4. Snapshots'
    BY <1>0, <2>1 DEF Watching, Snapshots, WakeTypes, Loop, Versions
  <2>5. OneLoop' /\ WakesAreNews'
    BY <2>1 DEF Watching, OneLoop, WakesAreNews, News
  <2>6. QED
    BY <2>2, <2>3, <2>4, <2>5 DEF Watching
<1>7. CASE Wake!Touch
  <2>1. mtime' \in 1 .. MaxTouches + 1 /\ UNCHANGED <<version, watcher, watch, cooling, told>>
    BY <1>0, <1>7, HostBounds DEF Wake!Touch, WakeTypes
  <2>2. QED
    BY <1>0, <2>1 DEF Watching, WakeTypes, OneLoop, ToldOf, Snapshots, WakesAreNews, News
<1>8. QED
  BY <1>1, <1>2, <1>3, <1>4, <1>5, <1>6, <1>7, WatchingOnce, WatchingPost DEF Wake!Next

\* An agent is woken at most once for a change, whatever starts, ends or
\* restarts the loop and whatever posts fail: each wake that arrives is newer
\* than what the agent was told of the card (_wake_watcher.py
\* run_watcher_forever, detect_changes).
THEOREM NobodyIsWokenTwice == HostSpec => WokenOnce
<1>1. Watching /\ [Wake!Next]_wakeVars
        => [\A w \in Watchers : Wake!post_wake(w)
              => Wake!Wake(w).version > told[Wake!Wake(w).agent][Wake!Wake(w).card]]_Wake!vars
  BY WatchingPost
<1>2. QED
  BY <1>1, WakeSteps, WatchingInit, WatchingStep, PTL DEF WokenOnce, Wake!WokenOnce

-----------------------------------------------------------------------------
(* The hub of remote agents.  For each call: how far the thread of the hub *)
(* is decides how often the verb took effect, and what the caller was told *)
(* agrees with both; a call with the hub's token is let in.                *)

RpcCall == [at : {"idle", "waiting", "returned"}, agent : Agents \cup {Nobody}, verb : Rpc!Verbs,
            token : 0 .. MaxTokens, by : Agents \cup {Nobody}, out : Rpc!Outcomes \cup {"none"}]
RpcTypes ==
    /\ minted \in 1 .. MaxTokens /\ hostToken \in 0 .. MaxTokens
    /\ call \in [Calls -> RpcCall]
    /\ server \in [Calls -> Rpc!Stages]
    /\ done \in [Calls -> 0 .. 1]
    /\ author \in [Calls -> Agents \cup {Hub, Nobody}]
    /\ fresh \subseteq Calls

\* c is the call as its caller knows it, at the stage its thread is at; n and
\* who are how often the verb took effect, and in whose name.
Agrees(c, stage, n, who) ==
    /\ c.at = "idle" <=> stage = "none"
    /\ c.at # "returned" => c.out = "none"
    /\ stage \in {"none", "request", "run", "unauthorized", "refused"} => n = 0
    /\ stage = "ok" => n = 1
    /\ c.out = "ok" => n = 1
    /\ c.out \in {"no_token", "unauthorized", "refused"} => n = 0 /\ stage = "over"
    /\ c.verb \in Rpc!_IDENTITY_KWARG /\ c.at # "idle" => c.agent \in Agents /\ c.by = c.agent
    /\ c.verb \in Rpc!_IDENTITY_KWARG /\ n = 1 => who = c.agent
LetIn(c, stage, token) ==
    /\ c.at # "idle" /\ c.out # "unauthorized" /\ stage # "unauthorized"
    /\ stage = "request" => c.token = token
Answering ==
    /\ RpcTypes
    /\ \A k \in Calls : Agrees(call[k], server[k], done[k], author[k])
    /\ \A k \in fresh : LetIn(call[k], server[k], minted)

LEMMA RpcSteps == HostSpec => Rpc!Init /\ [][Rpc!Next]_rpcVars
<1>1. [HostNext]_hostVars => [Rpc!Next]_rpcVars
  BY DEF HostNext, hostVars
<1>2. QED
  BY <1>1, PTL DEF HostSpec, HostInit

LEMMA AnsweringInit == Rpc!Init => Answering
<1> SUFFICES ASSUME Rpc!Init PROVE Answering
  OBVIOUS
<1>1. Rpc!NoCall \in RpcCall /\ Rpc!NoCall.at = "idle" /\ Rpc!NoCall.out = "none"
  BY HostBounds DEF Rpc!NoCall, RpcCall, Rpc!Verbs, Rpc!Outcomes
<1>2. RpcTypes
  BY <1>1, HostBounds DEF Rpc!Init, RpcTypes, Rpc!Stages
<1>3. \A k \in Calls : Agrees(call[k], server[k], done[k], author[k])
  BY <1>1 DEF Rpc!Init, Agrees
<1>4. QED
  BY <1>2, <1>3 DEF Rpc!Init, Answering

\* A step of one call.
LEMMA CallGoes ==
    ASSUME Answering, NEW k \in Calls,
           NEW c \in RpcCall, call' = [call EXCEPT ![k] = c],
           NEW stage \in Rpc!Stages, server' = [server EXCEPT ![k] = stage],
           NEW n \in 0 .. 1, done' = [done EXCEPT ![k] = n],
           NEW who \in Agents \cup {Hub, Nobody}, author' = [author EXCEPT ![k] = who],
           UNCHANGED <<minted, hostToken>>,
           fresh' \subseteq fresh \cup {k},
           Agrees(c, stage, n, who),
           k \in fresh' => LetIn(c, stage, minted)
    PROVE  Answering'
<1>0. RpcTypes
  BY DEF Answering
<1>1. /\ call' \in [Calls -> RpcCall] /\ call'[k] = c
      /\ server' \in [Calls -> Rpc!Stages] /\ server'[k] = stage
      /\ done' \in [Calls -> 0 .. 1] /\ done'[k] = n
      /\ author' \in [Calls -> Agents \cup {Hub, Nobody}] /\ author'[k] = who
  BY <1>0 DEF RpcTypes
<1>2. \A j \in Calls \ {k} : /\ call'[j] = call[j] /\ server'[j] = server[j]
                             /\ done'[j] = done[j] /\ author'[j] = author[j]
  BY <1>0 DEF RpcTypes
<1>3. RpcTypes'
  BY <1>0, <1>1 DEF RpcTypes
<1>4. ASSUME NEW j \in Calls
      PROVE  /\ Agrees(call'[j], server'[j], done'[j], author'[j])
             /\ j \in fresh' => LetIn(call'[j], server'[j], minted)
  <2>1. CASE j = k
    BY <1>1, <2>1
  <2>2. CASE j # k
    BY <1>2, <2>2 DEF Answering
  <2>3. QED
    BY <2>1, <2>2
<1>5. QED
  BY <1>3, <1>4 DEF Answering

\* What a call has, and a step that leaves parts of it alone.
LEMMA CallKept ==
    ASSUME Answering, NEW k \in Calls
    PROVE  /\ call[k] \in RpcCall /\ server[k] \in Rpc!Stages /\ done[k] \in 0 .. 1
           /\ author[k] \in Agents \cup {Hub, Nobody}
           /\ call = [call EXCEPT ![k] = call[k]] /\ server = [server EXCEPT ![k] = server[k]]
           /\ done = [done EXCEPT ![k] = done[k]] /\ author = [author EXCEPT ![k] = author[k]]
           /\ Agrees(call[k], server[k], done[k], author[k])
           /\ k \in fresh => LetIn(call[k], server[k], minted)
BY DEF Answering, RpcTypes

LEMMA Called ==
    ASSUME Answering, NEW k \in Calls, NEW agent \in Agents, NEW verb \in Rpc!Verbs,
           Rpc!_call(k, agent, verb)
    PROVE  Answering'
<1>0. RpcTypes
  BY DEF Answering
<1> DEFINE token == Rpc!_resolve_token
           stage == IF token = 0 THEN "over" ELSE "request"
           c == [at |-> IF token = 0 THEN "returned" ELSE "waiting", agent |-> agent, verb |-> verb,
                 token |-> token, by |-> Rpc!_identity(verb, agent),
                 out |-> IF token = 0 THEN "no_token" ELSE "none"]
<1>1. token = hostToken
  BY DEF Rpc!_resolve_token, Rpc!get_backend
<1>2. c \in RpcCall /\ stage \in Rpc!Stages
  BY <1>0, <1>1 DEF RpcTypes, RpcCall, Rpc!Outcomes, Rpc!Stages, Rpc!_identity
<1>3. /\ call' = [call EXCEPT ![k] = c] /\ server' = [server EXCEPT ![k] = stage]
      /\ UNCHANGED <<minted, hostToken, done, author>> /\ call[k].at = "idle"
      /\ fresh' = fresh \cup {j \in {k} : hostToken = minted}
  BY DEF Rpc!_call
<1>4. done[k] = 0 /\ k \notin fresh
  BY <1>3, CallKept DEF Agrees, LetIn
<1>5. Agrees(c, stage, done[k], author[k])
  BY <1>4 DEF Agrees, Rpc!_identity
<1>6. k \in fresh' => LetIn(c, stage, minted)
  BY <1>0, <1>1, <1>3, <1>4 DEF LetIn, RpcTypes
<1> HIDE DEF c, stage
<1>7. QED
  BY <1>2, <1>3, <1>5, <1>6, CallKept, CallGoes

\* The caller is told.
LEMMA ReturnsIt ==
    ASSUME Answering, NEW k \in Calls, NEW out \in Rpc!Outcomes,
           Rpc!Returns(k, out), call[k].at = "waiting"
    PROVE  LET c == [call[k] EXCEPT !.at = "returned", !.out = out]
           IN  /\ c \in RpcCall /\ call' = [call EXCEPT ![k] = c]
               /\ c.at = "returned" /\ c.out = out /\ c.verb = call[k].verb
               /\ c.agent = call[k].agent /\ c.by = call[k].by /\ c.token = call[k].token
<1>1. call \in [Calls -> RpcCall]
  BY DEF Answering, RpcTypes
<1>2. QED
  BY <1>1 DEF Rpc!Returns, RpcCall

LEMMA AnsweringStep == Answering /\ [Rpc!Next]_rpcVars => Answering'
<1> SUFFICES ASSUME Answering, [Rpc!Next]_rpcVars PROVE Answering'
  OBVIOUS
<1>0. RpcTypes
  BY DEF Answering
<1>1. CASE UNCHANGED rpcVars
  BY <1>1 DEF rpcVars, Answering, RpcTypes
<1>2. ASSUME NEW k \in Calls, Rpc!GivesUp(k)
      PROVE  Answering'
  <2> DEFINE c == [call[k] EXCEPT !.at = "returned", !.out = "lost"]
  <2>1. /\ c \in RpcCall /\ call' = [call EXCEPT ![k] = c]
        /\ c.at = "returned" /\ c.out = "lost" /\ c.verb = call[k].verb
        /\ c.agent = call[k].agent /\ c.by = call[k].by /\ c.token = call[k].token
        /\ call[k].at = "waiting"
    BY <1>2, ReturnsIt DEF Rpc!GivesUp, Rpc!Outcomes
  <2>2. UNCHANGED <<minted, hostToken, server, done, author, fresh>>
    BY <1>2 DEF Rpc!GivesUp
  <2> HIDE DEF c
  <2>3. Agrees(c, server[k], done[k], author[k]) /\ (k \in fresh => LetIn(c, server[k], minted))
    BY <2>1, CallKept DEF Agrees, LetIn
  <2>4. QED
    BY <2>1, <2>2, <2>3, CallKept, CallGoes
<1>3. ASSUME NEW k \in Calls, Rpc!do_POST(k) \/ Rpc!Raises(k) \/ Rpc!Drops(k)
      PROVE  Answering'
  <2>1. PICK stage \in {"unauthorized", "refused", "run", "over"} :
          /\ server' = [server EXCEPT ![k] = stage]
          /\ server[k] \in {"request", "run"}
          /\ stage = "unauthorized" => server[k] = "request" /\ call[k].token # minted
    BY <1>3 DEF Rpc!do_POST, Rpc!Raises, Rpc!Drops, Rpc!_authorized
  <2>2. UNCHANGED <<minted, hostToken, call, done, author, fresh>>
    BY <1>3 DEF Rpc!do_POST, Rpc!Raises, Rpc!Drops
  <2>3. /\ Agrees(call[k], stage, done[k], author[k]) /\ (k \in fresh => LetIn(call[k], stage, minted))
        /\ stage \in Rpc!Stages
    BY <2>1, CallKept DEF Agrees, LetIn, Rpc!Stages
  <2>4. QED
    BY <2>1, <2>2, <2>3, CallKept, CallGoes
<1>4. ASSUME NEW k \in Calls, Rpc!Runs(k)
      PROVE  Answering'
  <2> DEFINE who == IF call[k].verb \in Rpc!_IDENTITY_KWARG THEN Rpc!ActsAs(k) ELSE Nobody
  <2>1. /\ server[k] = "run" /\ server' = [server EXCEPT ![k] = "ok"]
        /\ done' = [done EXCEPT ![k] = done[k] + 1] /\ author' = [author EXCEPT ![k] = who]
        /\ UNCHANGED <<minted, hostToken, call, fresh>>
    BY <1>0, <1>4 DEF Rpc!Runs, RpcTypes
  <2>2. done[k] = 0 /\ Agrees(call[k], "run", 0, author[k])
    BY <2>1, CallKept DEF Agrees
  <2>3. /\ who \in Agents \cup {Hub, Nobody}
        /\ call[k].verb \in Rpc!_IDENTITY_KWARG => who = call[k].agent
    BY <2>2, CallKept, NobodyAssumption DEF Agrees, Rpc!ActsAs, RpcCall
  <2> HIDE DEF who
  <2>4. /\ Agrees(call[k], "ok", 1, who) /\ (k \in fresh => LetIn(call[k], "ok", minted))
        /\ "ok" \in Rpc!Stages
    BY <2>1, <2>2, <2>3, CallKept DEF Agrees, LetIn, Rpc!Stages
  <2>5. done' = [done EXCEPT ![k] = 1] /\ 1 \in 0 .. 1
    BY <2>1, <2>2
  <2>6. call' = [call EXCEPT ![k] = call[k]] /\ call[k] \in RpcCall /\ fresh' \subseteq fresh \cup {k}
    BY <2>1, CallKept
  <2>7. k \in fresh' => LetIn(call[k], "ok", minted)
    BY <2>1, <2>4
  <2>8. QED
    BY <2>1, <2>3, <2>4, <2>5, <2>6, <2>7, CallGoes
<1>5. ASSUME NEW k \in Calls, Rpc!_send_json(k)
      PROVE  Answering'
  <2>1. /\ server[k] \in {"ok", "unauthorized", "refused"} /\ server' = [server EXCEPT ![k] = "over"]
        /\ UNCHANGED <<minted, hostToken, done, author, fresh>>
    BY <1>5 DEF Rpc!_send_json
  <2>2. PICK c \in RpcCall :
          /\ call' = [call EXCEPT ![k] = c]
          /\ c.verb = call[k].verb /\ c.agent = call[k].agent /\ c.by = call[k].by
          /\ \/ c = call[k] /\ c.at # "waiting"
             \/ c.at = "returned" /\ c.out = server[k] /\ call[k].at = "waiting"
    <3>1. CASE call[k].at = "waiting"
      <4>1. Rpc!Returns(k, server[k]) /\ server[k] \in Rpc!Outcomes
        BY <1>5, <2>1, <3>1 DEF Rpc!_send_json, Rpc!Outcomes
      <4>2. QED
        BY <3>1, <4>1, ReturnsIt
    <3>2. CASE call[k].at # "waiting"
      BY <1>5, <3>2, CallKept DEF Rpc!_send_json
    <3>3. QED
      BY <3>1, <3>2
  <2>3. /\ Agrees(c, "over", done[k], author[k]) /\ (k \in fresh => LetIn(c, "over", minted))
        /\ "over" \in Rpc!Stages
    BY <2>1, <2>2, CallKept DEF Agrees, LetIn, Rpc!Stages
  <2>4. QED
    BY <2>1, <2>2, <2>3, CallKept, CallGoes
<1>6. CASE Rpc!Stop
  <2>1. /\ server' = [k \in Calls |-> IF server[k] \in {"none", "request"} THEN server[k] ELSE "over"]
        /\ UNCHANGED <<minted, hostToken, call, done, author, fresh>>
    BY <1>6 DEF Rpc!Stop
  <2>2. RpcTypes'
    BY <1>0, <2>1 DEF RpcTypes, Rpc!Stages
  <2>3. ASSUME NEW k \in Calls
        PROVE  /\ Agrees(call[k], server'[k], done[k], author[k])
               /\ k \in fresh => LetIn(call[k], server'[k], minted)
    BY <2>1, CallKept DEF Agrees, LetIn
  <2>4. QED
    BY <1>0, <2>1, <2>2, <2>3 DEF Answering, RpcTypes
<1>7. CASE Rpc!make_server \/ Rpc!CopyToken
  <2>1. UNCHANGED <<minted, call, server, done, author, fresh>>
    BY <1>7 DEF Rpc!make_server, Rpc!CopyToken
  <2>2. RpcTypes'
    BY <1>0, <1>7 DEF RpcTypes, Rpc!make_server, Rpc!CopyToken
  <2>3. QED
    BY <2>1, <2>2 DEF Answering
<1>8. CASE Rpc!mint_token
  <2>1. /\ minted' \in 1 .. MaxTokens /\ fresh' = {k \in fresh : server[k] # "request"}
        /\ UNCHANGED <<hostToken, call, server, done, author>>
    BY <1>0, <1>8, HostBounds DEF Rpc!mint_token, RpcTypes
  <2>2. RpcTypes'
    BY <1>0, <2>1 DEF RpcTypes
  <2>3. \A k \in fresh' : LetIn(call[k], server[k], minted')
    BY <2>1 DEF Answering, LetIn
  <2>4. QED
    BY <2>1, <2>2, <2>3 DEF Answering
<1>9. QED
  BY <1>1, <1>2, <1>3, <1>4, <1>5, <1>6, <1>7, <1>8, Called DEF Rpc!Next

\* What the caller of a remote verb is told is so, whatever stops the hub,
\* delays the request or rotates the token: "ok" is one effect, a refusal is
\* none, an effect is in the caller's name, and the hub's own token is let in
\* (_backend_http.py HubBackend._call, _server.py do_POST).
THEOREM CallersAreToldTheTruth == HostSpec => []AnswersAreTrue
<1>1. Answering => Rpc!OutcomeIsTrue
  BY DEF Answering, RpcTypes, Agrees, Rpc!OutcomeIsTrue
<1>2. Answering => Rpc!RotationHeals
  BY DEF Answering, RpcTypes, LetIn, Rpc!RotationHeals
<1>3. Answering => AnswersAreTrue
  BY <1>1, <1>2 DEF AnswersAreTrue, Rpc!AnswersAreTrue
<1>4. QED
  BY <1>3, RpcSteps, AnsweringInit, AnsweringStep, PTL

-----------------------------------------------------------------------------
(* The board server.  Unless commands have overlapped, one command or one  *)
(* start is under way; the server that `board start` brought so far as to  *)
(* write its pid is in the pidfile; and whoever is about to touch that     *)
(* file has seen that there is no such server, or is to stop it.           *)

Command == [at : {"idle", "signal", "unlink", "start"}, pid : Pids \cup {Nobody}, again : BOOLEAN]
BoardTypes ==
    /\ proc \in [Pids -> Board!Stages]
    /\ pidfile \in Pids \cup {Nobody}
    /\ term \in [Terminals -> Command]
    /\ raced \in BOOLEAN
    /\ \A p \in manage : proc[p] \in {"serving", "dead", "foreign"}

\* A server that is to be found by the pidfile.
Tracks(p) == p \notin manage /\ proc[p] \in {"written", "serving", "leaving"}

Alone ==
    /\ \A p, q \in Pids : Board!Underway(p) /\ Board!Underway(q) => p = q
    /\ \A t, u \in Terminals : term[t].at # "idle" /\ term[u].at # "idle" => t = u
    /\ \A p \in Pids, t \in Terminals : Board!Underway(p) => term[t].at = "idle"
InPidfile == \A p \in Pids : Tracks(p) => pidfile = p
NoneToLose ==
    \A q \in Pids : Tracks(q) =>
        /\ \A p \in Pids : proc[p] \notin {"cleaning", "checked"}
        /\ \A t \in Terminals : term[t].at \notin {"unlink", "start"}
        /\ \A t \in Terminals : term[t].at = "signal" => term[t].pid = q
Tracking == BoardTypes /\ (~raced => Alone /\ InPidfile /\ NoneToLose)

LEMMA BoardSteps == HostSpec => Board!Init /\ [][Board!Next]_boardVars
<1>1. [HostNext]_hostVars => [Board!Next]_boardVars
  BY DEF HostNext, hostVars
<1>2. QED
  BY <1>1, PTL DEF HostSpec, HostInit

LEMMA TrackingInit == Board!Init => Tracking
<1> SUFFICES ASSUME Board!Init PROVE Tracking
  OBVIOUS
<1>1. Board!Resting \in Command /\ Board!Resting.at = "idle"
  BY DEF Board!Resting, Command
<1>2. BoardTypes
  BY <1>1 DEF Board!Init, BoardTypes, Board!Stages
<1>3. Alone /\ InPidfile /\ NoneToLose
  BY <1>1 DEF Board!Init, Alone, InPidfile, NoneToLose, Tracks, Board!Underway
<1>4. QED
  BY <1>2, <1>3 DEF Tracking

LEMMA StageType ==
    ASSUME BoardTypes, NEW p \in Pids, NEW stage \in Board!Stages, Board!Stage(p, stage),
           p \notin manage \/ stage \in {"dead", "foreign"}
    PROVE  /\ proc' \in [Pids -> Board!Stages]
           /\ \A q \in manage : proc'[q] \in {"serving", "dead", "foreign"}
BY DEF BoardTypes, Board!Stage

LEMMA CommandType ==
    ASSUME BoardTypes, NEW t \in Terminals
    PROVE  /\ \A at \in {"idle", "signal", "unlink", "start"}, pid \in Pids \cup {Nobody}, again \in BOOLEAN :
                 Board!Goes(t, at, pid, again) => term' \in [Terminals -> Command]
           /\ \A again \in BOOLEAN : Board!Rests(t, again) => term' \in [Terminals -> Command]
           /\ term[t].again \in BOOLEAN /\ term[t].pid \in Pids \cup {Nobody}
<1>1. ASSUME NEW at \in {"idle", "signal", "unlink", "start"}, NEW pid \in Pids \cup {Nobody},
             NEW again \in BOOLEAN, Board!Goes(t, at, pid, again)
      PROVE  term' \in [Terminals -> Command]
  <2> DEFINE c == [at |-> at, pid |-> pid, again |-> again]
  <2>1. c \in Command
    BY DEF Command
  <2>2. term' = [term EXCEPT ![t] = c]
    BY <1>1 DEF Board!Goes
  <2> HIDE DEF c
  <2>3. QED
    BY <2>1, <2>2 DEF BoardTypes
<1>2. \A again \in BOOLEAN : Board!Rests(t, again) => term' \in [Terminals -> Command]
  BY <1>1 DEF Board!Rests
<1>3. term[t] \in Command
  BY DEF BoardTypes
<1>4. QED
  BY <1>1, <1>2, <1>3 DEF Command

LEMMA BoardTypesStep ==
    ASSUME BoardTypes, Board!Next
    PROVE  BoardTypes' /\ (raced => raced')
<1>1. ASSUME NEW p \in Pids, Board!board_start_cmd(p)
      PROVE  BoardTypes' /\ (raced => raced')
  <2>1. PICK stage \in {"checked", "cleaning"} : Board!Stage(p, stage) /\ proc[p] = "unused"
    BY <1>1 DEF Board!board_start_cmd, Board!CheckPid
  <2>2. UNCHANGED <<manage, pidfile, term>> /\ raced' \in BOOLEAN /\ (raced => raced')
    BY <1>1 DEF Board!board_start_cmd, Board!CheckPid, BoardTypes
  <2>3. QED
    BY <2>1, <2>2 DEF BoardTypes, Board!Stage, Board!Stages
<1>2. ASSUME NEW p \in Pids, Board!UnlinkStale(p) \/ Board!_board_write_pid(p) \/ Board!UnlinkOwn(p)
      PROVE  BoardTypes' /\ (raced => raced')
  <2>1. PICK stage \in {"checked", "written", "dead"} :
           Board!Stage(p, stage) /\ proc[p] \in {"cleaning", "checked", "leaving"}
    BY <1>2 DEF Board!UnlinkStale, Board!_board_write_pid, Board!UnlinkOwn
  <2>2. /\ UNCHANGED <<manage, term, raced>> /\ pidfile' \in Pids \cup {Nobody}
        /\ p \notin manage /\ stage \in Board!Stages
    BY <1>2, <2>1 DEF Board!UnlinkStale, Board!_board_write_pid, Board!UnlinkOwn, BoardTypes, Board!Stages
  <2>3. QED
    BY <2>1, <2>2, StageType DEF BoardTypes
<1>3. ASSUME NEW p \in Pids, Board!RunServer(p)
      PROVE  BoardTypes' /\ (raced => raced')
  BY <1>3 DEF BoardTypes, Board!Stage, Board!Stages, Board!RunServer
<1>4. ASSUME NEW p \in Pids, Board!Interrupt(p) \/ Board!Crash(p) \/ Board!Recycled(p)
      PROVE  BoardTypes' /\ (raced => raced')
  <2>1. PICK stage \in {"leaving", "dead", "foreign"} :
           Board!Stage(p, stage) /\ (stage = "leaving" => p \notin manage)
    BY <1>4 DEF Board!Interrupt, Board!Crash, Board!Recycled
  <2>2. UNCHANGED <<manage, pidfile, term, raced>> /\ stage \in Board!Stages
    BY <1>4, <2>1 DEF Board!Interrupt, Board!Crash, Board!Recycled, Board!Stages
  <2>3. QED
    BY <2>1, <2>2, StageType DEF BoardTypes
<1>5. ASSUME NEW t \in Terminals, Board!board_stop_cmd(t)
      PROVE  BoardTypes' /\ (raced => raced')
  <2>1. PICK again \in BOOLEAN : Board!_board_resolve_pid(t, again)
    BY <1>5 DEF Board!board_stop_cmd
  <2>2. UNCHANGED <<proc, manage>> /\ raced' \in BOOLEAN /\ (raced => raced')
    BY <1>5 DEF Board!board_stop_cmd, BoardTypes
  <2>3. pidfile' \in Pids \cup {Nobody} /\ term' \in [Terminals -> Command]
    <3>1. CASE UNCHANGED pidfile /\ Board!Goes(t, "signal", pidfile, again)
      BY <3>1, CommandType DEF BoardTypes
    <3>2. ASSUME NEW p \in Pids, Board!Goes(t, "signal", p, again), pidfile' = Nobody
          PROVE  pidfile' \in Pids \cup {Nobody} /\ term' \in [Terminals -> Command]
      BY <3>2, CommandType
    <3>3. CASE Board!Rests(t, again) /\ pidfile' = Nobody
      BY <3>3, CommandType
    <3>4. QED
      BY <2>1, <3>1, <3>2, <3>3 DEF Board!_board_resolve_pid, Board!_board_pid_on_port
  <2>4. QED
    BY <2>2, <2>3 DEF BoardTypes
<1>6. ASSUME NEW t \in Terminals, Board!Signal(t)
      PROVE  BoardTypes' /\ (raced => raced')
  <2>0. term[t] \in Command
    BY DEF BoardTypes
  <2>1. UNCHANGED <<manage, pidfile, raced>>
    BY <1>6 DEF Board!Signal
  <2>2. CASE Board!_board_pid_alive(term[t].pid)
    <3>1. Board!Stage(term[t].pid, "dead") /\ Board!Goes(t, "unlink", term[t].pid, term[t].again)
      BY <1>6, <2>2 DEF Board!Signal
    <3>2. term' \in [Terminals -> Command]
      BY <3>1, CommandType
    <3>3. "dead" \in Board!Stages /\ term[t].pid \in Pids
      BY <2>0, <2>2 DEF Board!Stages, Board!_board_pid_alive, Command
    <3>4. QED
      BY <2>1, <3>1, <3>2, <3>3, StageType DEF BoardTypes
  <2>3. CASE ~Board!_board_pid_alive(term[t].pid)
    <3>1. UNCHANGED proc /\ Board!Goes(t, "idle", Nobody, FALSE)
      BY <1>6, <2>3 DEF Board!Signal
    <3>2. term' \in [Terminals -> Command]
      BY <3>1, CommandType
    <3>3. QED
      BY <2>1, <3>1, <3>2 DEF BoardTypes
  <2>4. QED
    BY <2>2, <2>3
<1>7. ASSUME NEW t \in Terminals, Board!UnlinkStopped(t)
      PROVE  BoardTypes' /\ (raced => raced')
  BY <1>7, CommandType DEF Board!UnlinkStopped, BoardTypes
<1>8. ASSUME NEW t \in Terminals, Board!board_restart_cmd(t)
      PROVE  BoardTypes' /\ (raced => raced')
  <2>1. term' \in [Terminals -> Command] /\ UNCHANGED <<manage, pidfile, raced>>
    BY <1>8, CommandType DEF Board!board_restart_cmd, Board!CheckPid
  <2>2. CASE UNCHANGED proc
    BY <2>1, <2>2 DEF BoardTypes
  <2>3. ASSUME NEW p \in Pids, Board!CheckPid(p)
        PROVE  BoardTypes'
    <3>1. PICK stage \in {"checked", "cleaning"} : Board!Stage(p, stage) /\ proc[p] = "unused"
      BY <2>3 DEF Board!CheckPid
    <3>2. p \notin manage /\ stage \in Board!Stages
      BY <3>1 DEF BoardTypes, Board!Stages
    <3>3. QED
      BY <2>1, <3>1, <3>2, StageType DEF BoardTypes
  <2>4. QED
    BY <1>8, <2>1, <2>2, <2>3 DEF Board!board_restart_cmd
<1>9. QED
  BY <1>1, <1>2, <1>3, <1>4, <1>5, <1>6, <1>7, <1>8 DEF Board!Next

\* Nothing overlaps while no command is under way; a pidfile without a live
\* process is the pidfile of no server.
LEMMA NothingTracked ==
    ASSUME Tracking, ~raced, ~Board!_board_pid_alive(pidfile)
    PROVE  \A q \in Pids : ~Tracks(q)
BY NobodyAssumption DEF Tracking, InPidfile, Tracks, Board!_board_pid_alive

\* What a step of a server does to the pidfile.
LEMMA ServerSteps ==
    ASSUME Tracking, ~raced, NEW p \in Pids,
           NEW stage, Board!Stage(p, stage), stage \in Board!Stages,
           UNCHANGED <<term, raced>>, manage \subseteq manage', 
           \A q \in Pids : q # p => (q \in manage <=> q \in manage'),
           stage \in {"cleaning", "checked", "written"} => Board!Underway(p),
           stage \in {"written", "serving", "leaving"} =>
               p \in manage' \/ (pidfile' = p /\ (Tracks(p) \/ proc[p] = "checked")),
           stage \in {"cleaning", "checked"} => \A q \in Pids : q # p => ~Tracks(q),
           pidfile' = pidfile \/ (\A q \in Pids : q # p => ~Tracks(q)),
           BoardTypes'
    PROVE  Tracking'
<1>0. BoardTypes /\ Alone /\ InPidfile /\ NoneToLose
  BY DEF Tracking
<1>1. proc'[p] = stage /\ \A q \in Pids : q # p => proc'[q] = proc[q]
  BY <1>0 DEF Board!Stage, BoardTypes
<1>2. \A q \in Pids : Board!Underway(q)' => Board!Underway(q)
  BY <1>1 DEF Board!Underway
<1>3. Alone'
  BY <1>0, <1>2 DEF Alone
<1>4. \A q \in Pids : q # p => (Tracks(q)' <=> Tracks(q))
  BY <1>1 DEF Tracks
<1>5. Tracks(p)' => pidfile' = p /\ (Tracks(p) \/ proc[p] = "checked")
  BY <1>1 DEF Tracks
<1>6. InPidfile'
  BY <1>0, <1>4, <1>5 DEF InPidfile
<1>7. NoneToLose'
  <2>1. ASSUME NEW q \in Pids, Tracks(q)'
        PROVE  /\ \A r \in Pids : proc'[r] \notin {"cleaning", "checked"}
               /\ \A t \in Terminals : term[t].at \notin {"unlink", "start"}
               /\ \A t \in Terminals : term[t].at = "signal" => term[t].pid = q
    <3>1. CASE Tracks(q)
      <4>1. stage \in {"cleaning", "checked"} => q = p
        BY <3>1
      <4>2. q = p => stage \notin {"cleaning", "checked"}
        BY <1>1, <2>1 DEF Tracks
      <4>3. QED
        BY <1>0, <1>1, <3>1, <4>1, <4>2 DEF NoneToLose
    <3>2. CASE ~Tracks(q)
      <4>1. q = p /\ proc[p] = "checked"
        BY <1>4, <1>5, <2>1, <3>2
      <4>2. Board!Underway(p) /\ stage \notin {"cleaning", "checked"}
        BY <1>1, <2>1, <4>1 DEF Tracks, Board!Underway
      <4>3. \A t \in Terminals : term[t].at = "idle"
        BY <1>0, <4>2 DEF Alone
      <4>4. \A r \in Pids : r # p => ~Board!Underway(r)
        BY <1>0, <4>2 DEF Alone
      <4>5. QED
        BY <1>1, <4>2, <4>3, <4>4 DEF Board!Underway
    <3>3. QED
      BY <3>1, <3>2
  <2>2. QED
    BY <2>1 DEF NoneToLose
<1>8. QED
  BY <1>3, <1>6, <1>7 DEF Tracking

LEMMA TrackingStep == Tracking /\ [Board!Next]_boardVars => Tracking'
<1> SUFFICES ASSUME Tracking, [Board!Next]_boardVars PROVE Tracking'
  OBVIOUS
<1>1. CASE UNCHANGED boardVars
  BY <1>1 DEF boardVars, Tracking, BoardTypes, Alone, InPidfile, NoneToLose, Tracks, Board!Underway
<1>2. CASE Board!Next
  <2>0. BoardTypes /\ BoardTypes' /\ (raced => raced')
    BY <1>2, BoardTypesStep DEF Tracking
  <2>1. CASE raced'
    BY <2>0, <2>1 DEF Tracking
  <2>2. CASE ~raced'
    <3>0. ~raced /\ Alone /\ InPidfile /\ NoneToLose
      BY <2>0, <2>2 DEF Tracking
    <3>1. ASSUME NEW p \in Pids, Board!board_start_cmd(p)
          PROVE  Tracking'
      <4>1. /\ \A q \in Pids : ~Board!Underway(q) /\ ~Tracks(q)
            /\ \A t \in Terminals : term[t].at = "idle"
        BY <2>2, <3>0, <3>1, NothingTracked DEF Board!board_start_cmd, Board!Overlaps, Board!CheckPid
      <4>2. /\ UNCHANGED <<manage, pidfile, term>> /\ proc[p] = "unused"
            /\ proc' = [proc EXCEPT ![p] = IF pidfile = Nobody THEN "checked" ELSE "cleaning"]
        BY <3>1 DEF Board!board_start_cmd, Board!CheckPid, Board!Stage
      <4>3. /\ proc'[p] \in {"checked", "cleaning"}
            /\ \A q \in Pids : q # p => proc'[q] = proc[q]
        BY <2>0, <4>2 DEF BoardTypes
      <4>4. \A q \in Pids : ~Tracks(q)'
        BY <4>1, <4>2, <4>3 DEF Tracks
      <4>5. Alone' /\ InPidfile' /\ NoneToLose'
        BY <4>1, <4>2, <4>3, <4>4 DEF Alone, InPidfile, NoneToLose, Board!Underway
      <4>6. QED
        BY <2>0, <4>5 DEF Tracking
    <3>2. ASSUME NEW p \in Pids, Board!UnlinkStale(p) \/ Board!_board_write_pid(p)
          PROVE  Tracking'
      <4>1. PICK stage \in {"checked", "written"} :
               /\ Board!Stage(p, stage) /\ UNCHANGED <<manage, term, raced>>
               /\ stage = "written" => pidfile' = p /\ proc[p] = "checked"
               /\ proc[p] \in {"cleaning", "checked"}
        BY <3>2 DEF Board!UnlinkStale, Board!_board_write_pid
      <4>2. \A q \in Pids : ~Tracks(q)
        BY <3>0, <4>1 DEF NoneToLose
      <4>3. stage \in Board!Stages /\ Board!Underway(p)
        BY <4>1 DEF Board!Stages, Board!Underway
      <4>4. QED
        BY <2>0, <3>0, <4>1, <4>2, <4>3, ServerSteps
    <3>3. ASSUME NEW p \in Pids, Board!RunServer(p)
          PROVE  Tracking'
      <4>1. PICK stage \in {"dead", "serving"} : Board!Stage(p, stage)
        BY <3>3 DEF Board!RunServer
      <4>2. /\ UNCHANGED <<pidfile, term, raced>> /\ manage \subseteq manage'
            /\ \A q \in Pids : q # p => (q \in manage <=> q \in manage')
            /\ p \in manage' \/ (proc[p] = "written" /\ p \notin manage)
        BY <2>0, <3>3 DEF Board!RunServer
      <4>3. p \in manage' \/ (Tracks(p) /\ pidfile = p)
        BY <3>0, <4>2 DEF InPidfile, Tracks
      <4>4. stage \in Board!Stages
        BY <4>1 DEF Board!Stages
      <4>5. QED
        BY <2>0, <3>0, <4>1, <4>2, <4>3, <4>4, ServerSteps
    <3>4. ASSUME NEW p \in Pids, Board!Interrupt(p) \/ Board!Crash(p) \/ Board!Recycled(p)
          PROVE  Tracking'
      <4>1. PICK stage \in {"dead", "leaving", "foreign"} :
               /\ Board!Stage(p, stage) /\ UNCHANGED <<manage, pidfile, term, raced>>
               /\ stage = "leaving" => Tracks(p)
        BY <3>4 DEF Board!Interrupt, Board!Crash, Board!Recycled, Tracks
      <4>2. Tracks(p) => pidfile = p
        BY <3>0 DEF InPidfile
      <4>3. stage \in Board!Stages
        BY <4>1 DEF Board!Stages
      <4>4. QED
        BY <2>0, <3>0, <4>1, <4>2, <4>3, ServerSteps
    <3>5. ASSUME NEW p \in Pids, Board!UnlinkOwn(p)
          PROVE  Tracking'
      <4>1. Tracks(p) /\ pidfile = p
        BY <2>0, <3>0, <3>5 DEF Board!UnlinkOwn, BoardTypes, InPidfile, Tracks
      <4>2. \A q \in Pids : q # p => ~Tracks(q)
        BY <3>0, <4>1 DEF InPidfile
      <4>3. Board!Stage(p, "dead") /\ "dead" \in Board!Stages /\ UNCHANGED <<manage, term, raced>>
        BY <3>5 DEF Board!UnlinkOwn, Board!Stages
      <4>4. QED
        BY <2>0, <3>0, <4>2, <4>3, ServerSteps
    <3>6. ASSUME NEW t \in Terminals, Board!board_stop_cmd(t)
          PROVE  Tracking'
      <4>1. /\ \A q \in Pids : ~Board!Underway(q)
            /\ \A u \in Terminals : term[u].at = "idle"
            /\ UNCHANGED <<proc, manage>>
        BY <2>2, <3>0, <3>6 DEF Board!board_stop_cmd, Board!Overlaps
      <4>2. PICK again \in BOOLEAN : Board!_board_resolve_pid(t, again)
        BY <3>6 DEF Board!board_stop_cmd
      <4>3. PICK at \in {"idle", "signal", "start"}, pid \in Pids \cup {Nobody}, more \in BOOLEAN :
               /\ Board!Goes(t, at, pid, more)
               /\ \/ at = "signal" /\ pid = pidfile /\ pidfile' = pidfile
                  \/ \A q \in Pids : ~Tracks(q)
        <5>1. CASE Board!_board_pid_alive(pidfile)
          BY <2>0, <4>2, <5>1 DEF Board!_board_resolve_pid, BoardTypes
        <5>2. CASE ~Board!_board_pid_alive(pidfile)
          <6>1. \A q \in Pids : ~Tracks(q)
            BY <3>0, <5>2, NothingTracked
          <6>2. PICK at \in {"idle", "signal", "start"}, pid \in Pids \cup {Nobody}, more \in BOOLEAN :
                   Board!Goes(t, at, pid, more)
            BY <4>2, <5>2 DEF Board!_board_resolve_pid, Board!_board_pid_on_port, Board!Rests
          <6>3. QED
            BY <6>1, <6>2
        <5>3. QED
          BY <5>1, <5>2
      <4>4. /\ term'[t] = [at |-> at, pid |-> pid, again |-> more]
            /\ \A u \in Terminals : u # t => term'[u].at = "idle"
        BY <2>0, <4>1, <4>3 DEF Board!Goes, BoardTypes
      <4>5. \A q \in Pids : Tracks(q)' => Tracks(q) /\ proc'[q] = proc[q]
        BY <4>1 DEF Tracks
      <4>6. Alone'
        BY <4>1, <4>4 DEF Alone, Board!Underway
      <4>7. InPidfile'
        BY <3>0, <4>3, <4>5 DEF InPidfile
      <4>8. NoneToLose'
        <5>1. ASSUME NEW q \in Pids, Tracks(q)'
              PROVE  /\ \A p \in Pids : proc'[p] \notin {"cleaning", "checked"}
                     /\ \A u \in Terminals : term'[u].at \notin {"unlink", "start"}
                     /\ \A u \in Terminals : term'[u].at = "signal" => term'[u].pid = q
          <6>1. Tracks(q) /\ pidfile = q
            BY <3>0, <4>5, <5>1 DEF InPidfile
          <6>2. at = "signal" /\ pid = q
            BY <4>3, <6>1
          <6>3. QED
            BY <4>1, <4>4, <6>2 DEF Board!Underway
        <5>2. QED
          BY <5>1 DEF NoneToLose
      <4>9. QED
        BY <2>0, <4>6, <4>7, <4>8 DEF Tracking
    <3>7. ASSUME NEW t \in Terminals, Board!Signal(t)
          PROVE  Tracking'
      <4>0. /\ term[t] \in Command /\ term[t].at = "signal" /\ UNCHANGED <<manage, pidfile, raced>>
            /\ \A q \in Pids : Tracks(q) => q = term[t].pid
            /\ \A q \in Pids : ~Board!Underway(q)
            /\ \A u \in Terminals : u # t => term[u].at = "idle"
        BY <2>0, <3>0, <3>7 DEF Board!Signal, BoardTypes, NoneToLose, Alone
      <4>1. CASE Board!_board_pid_alive(term[t].pid)
        <5>1. /\ Board!Stage(term[t].pid, "dead") /\ term[t].pid \in Pids
              /\ Board!Goes(t, "unlink", term[t].pid, term[t].again)
          BY <3>7, <4>0, <4>1 DEF Board!Signal, Board!_board_pid_alive, Command
        <5>2. /\ proc'[term[t].pid] = "dead"
              /\ \A q \in Pids : q # term[t].pid => proc'[q] = proc[q]
              /\ \A u \in Terminals : u # t => term'[u] = term[u]
          BY <2>0, <5>1 DEF Board!Stage, Board!Goes, BoardTypes
        <5>3. \A q \in Pids : ~Tracks(q)' /\ ~Board!Underway(q)'
          BY <4>0, <5>2 DEF Tracks, Board!Underway
        <5>4. Alone' /\ InPidfile' /\ NoneToLose'
          BY <4>0, <5>2, <5>3 DEF Alone, InPidfile, NoneToLose
        <5>5. QED
          BY <2>0, <5>4 DEF Tracking
      <4>2. CASE ~Board!_board_pid_alive(term[t].pid)
        <5>1. UNCHANGED proc /\ Board!Goes(t, "idle", Nobody, FALSE)
          BY <3>7, <4>2 DEF Board!Signal
        <5>2. \A u \in Terminals : term'[u].at = "idle"
          BY <2>0, <4>0, <5>1 DEF Board!Goes, BoardTypes
        <5>3. \A q \in Pids : (Tracks(q)' => Tracks(q)) /\ ~Board!Underway(q)'
          BY <4>0, <5>1 DEF Tracks, Board!Underway
        <5>4. Alone' /\ InPidfile' /\ NoneToLose'
          BY <3>0, <4>0, <5>1, <5>2, <5>3 DEF Alone, InPidfile, NoneToLose
        <5>5. QED
          BY <2>0, <5>4 DEF Tracking
      <4>3. QED
        BY <4>1, <4>2
    <3>8. ASSUME NEW t \in Terminals, Board!UnlinkStopped(t)
          PROVE  Tracking'
      <4>0. /\ UNCHANGED <<proc, manage, raced>>
            /\ \A q \in Pids : ~Tracks(q) /\ ~Board!Underway(q)
            /\ \A u \in Terminals : u # t => term[u].at = "idle"
        BY <3>0, <3>8 DEF Board!UnlinkStopped, NoneToLose, Alone
      <4>1. \A u \in Terminals : u # t => term'[u].at = "idle"
        BY <2>0, <3>8, <4>0 DEF Board!UnlinkStopped, Board!Rests, Board!Goes, BoardTypes
      <4>2. \A q \in Pids : ~Tracks(q)' /\ ~Board!Underway(q)'
        BY <4>0 DEF Tracks, Board!Underway
      <4>3. Alone' /\ InPidfile' /\ NoneToLose'
        BY <4>1, <4>2 DEF Alone, InPidfile, NoneToLose
      <4>4. QED
        BY <2>0, <4>3 DEF Tracking
    <3>9. ASSUME NEW t \in Terminals, Board!board_restart_cmd(t)
          PROVE  Tracking'
      <4>0. /\ UNCHANGED <<manage, pidfile, raced>>
            /\ \A q \in Pids : ~Tracks(q) /\ ~Board!Underway(q)
            /\ \A u \in Terminals : u # t => term[u].at = "idle"
        BY <3>0, <3>9 DEF Board!board_restart_cmd, Board!CheckPid, NoneToLose, Alone
      <4>1. \A u \in Terminals : term'[u].at = "idle"
        BY <2>0, <3>9, <4>0 DEF Board!board_restart_cmd, Board!Goes, BoardTypes
      <4>2. \/ UNCHANGED proc
            \/ \E p \in Pids, stage \in {"checked", "cleaning"} : Board!Stage(p, stage)
        BY <3>9 DEF Board!board_restart_cmd, Board!CheckPid
      <4>3. /\ \A q \in Pids : ~Tracks(q)'
            /\ \A q, r \in Pids : Board!Underway(q)' /\ Board!Underway(r)' => q = r
        BY <2>0, <4>0, <4>2 DEF Tracks, Board!Underway, Board!Stage, BoardTypes
      <4>4. Alone' /\ InPidfile' /\ NoneToLose'
        BY <4>1, <4>3 DEF Alone, InPidfile, NoneToLose
      <4>5. QED
        BY <2>0, <4>4 DEF Tracking
    <3>10. QED
      BY <1>2, <3>1, <3>2, <3>3, <3>4, <3>5, <3>6, <3>7, <3>8, <3>9 DEF Board!Next
  <2>3. QED
    BY <2>1, <2>2
<1>3. QED
  BY <1>1, <1>2

\* The pidfile names the server that `board start` put on the port, whatever
\* crash, refused start, taken port, stale file or recycled id came before,
\* unless commands overlapped (_cli/_board.py _board_run_server).
THEOREM PidfileNamesTheServer == HostSpec => []ServerIsTracked
<1>1. Tracking => ServerIsTracked
  BY DEF Tracking, InPidfile, Tracks, Board!OnPort, ServerIsTracked, Board!ServerIsTracked
<1>2. QED
  BY <1>1, BoardSteps, TrackingInit, TrackingStep, PTL

-----------------------------------------------------------------------------
(* The snapshots.  While a run has been alone since its export, the        *)
(* working tree, then the index and then the last commit hold that export, *)
(* unless git is jammed; and what the guard let through is no shrink of a  *)
(* last commit that has not changed since.                                 *)

Export == [at : Snap!Over \cup {"write", "check", "guard", "add", "commit", "push"},
           doc : Snap!Docs, shrink : BOOLEAN, alone : BOOLEAN]
Active(r) == export[r].at \notin Snap!Over
OnlyOne(r) == \A s \in Snappers : s # r => ~Active(s)
HoldsExport(r) ==
    LET mine == export[r]
    IN  /\ mine.at \in {"check", "guard", "add", "commit"} => tree = mine.doc
        /\ mine.at = "commit" => jam \/ staged = mine.doc
        /\ mine.at = "push" => jam \/ head.doc = mine.doc
        /\ mine.at \in {"add", "commit"} /\ ~mine.shrink => ~Snap!_SHRINK_REFUSAL(mine.doc.n, head.n)
Saving ==
    /\ export \in [Snappers -> Export] /\ store \in Snap!Docs
    /\ \A r \in Snappers : Active(r) /\ export[r].alone => OnlyOne(r) /\ HoldsExport(r)

LEMMA SnapSteps == HostSpec => Snap!Init /\ [][Snap!Next]_snapVars
<1>1. [HostNext]_hostVars => [Snap!Next]_snapVars
  BY DEF HostNext, hostVars
<1>2. QED
  BY <1>1, PTL DEF HostSpec, HostInit

LEMMA SavingInit == Snap!Init => Saving
<1> SUFFICES ASSUME Snap!Init PROVE Saving
  OBVIOUS
<1>1. Snap!First \in Snap!Docs
  BY SizesAssumption, HostBounds DEF Snap!First, Snap!Docs
<1>2. Snap!Resting \in Export /\ Snap!Resting.at \in Snap!Over
  BY <1>1 DEF Snap!Resting, Export, Snap!Over
<1>3. QED
  BY <1>1, <1>2 DEF Snap!Init, Saving, Active

\* A run goes on; another that has been alone is none.
LEMMA RunGoes ==
    ASSUME Saving, NEW r \in Snappers, Active(r), NEW at \in Snap!Over \cup
               {"write", "check", "guard", "add", "commit", "push"},
           Snap!Goes(r, at), store' \in Snap!Docs,
           export[r].alone /\ at \notin Snap!Over /\ HoldsExport(r) => HoldsExport(r)'
    PROVE  Saving' /\ export'[r] = [export[r] EXCEPT !.at = at]
<1> DEFINE mine == [export[r] EXCEPT !.at = at]
<1>1. mine \in Export /\ mine.at = at /\ mine.alone = export[r].alone
  BY DEF Saving, Export
<1>2. export' = [export EXCEPT ![r] = mine]
  BY DEF Snap!Goes, Saving
<1> HIDE DEF mine
<1>3. /\ export' \in [Snappers -> Export] /\ export'[r] = mine
      /\ \A s \in Snappers : s # r => export'[s] = export[s]
  BY <1>1, <1>2 DEF Saving
<1>4. \A s \in Snappers : Active(s)' => Active(s)
  BY <1>3 DEF Active
<1>5. \A s \in Snappers : s # r /\ Active(s) => ~export[s].alone
  BY DEF Saving, OnlyOne
<1>6. ASSUME NEW s \in Snappers, Active(s)', export'[s].alone
      PROVE  OnlyOne(s)' /\ HoldsExport(s)'
  <2>1. s = r
    BY <1>3, <1>4, <1>5, <1>6
  <2>2. at \notin Snap!Over /\ export[r].alone /\ OnlyOne(r) /\ HoldsExport(r)
    BY <1>1, <1>3, <1>6, <2>1 DEF Saving, Active
  <2>3. QED
    BY <1>4, <2>1, <2>2 DEF OnlyOne
<1>7. QED
  BY <1>3, <1>6 DEF Saving, mine

LEMMA SavingStep == Saving /\ [Snap!Next]_snapVars => Saving'
<1> SUFFICES ASSUME Saving, [Snap!Next]_snapVars PROVE Saving'
  OBVIOUS
<1>0. store \in Snap!Docs /\ \A r \in Snappers : export[r] \in Export
  BY DEF Saving
<1>1. CASE UNCHANGED snapVars
  BY <1>1 DEF snapVars, Saving, Active, OnlyOne, HoldsExport
<1>2. CASE Snap!Write
  <2>1. store' \in Snap!Docs /\ UNCHANGED <<tree, staged, head, jam, export>>
    BY <1>0, <1>2, HostBounds DEF Snap!Write, Snap!git, Snap!Docs
  <2>2. QED
    BY <2>1 DEF Saving, Active, OnlyOne, HoldsExport
<1>3. ASSUME NEW r \in Snappers, Snap!export_doc(r)
      PROVE  Saving'
  <2> DEFINE others == {s \in Snappers \ {r} : export[s].at \notin Snap!Over}
  <2>1. PICK shrink \in BOOLEAN :
          export' = [s \in Snappers |->
              IF s = r THEN [at |-> "write", doc |-> store, shrink |-> shrink, alone |-> others = {}]
                       ELSE [export[s] EXCEPT !.alone = @ /\ s \notin others]]
    BY <1>3 DEF Snap!export_doc
  <2>2. UNCHANGED <<store, tree, staged, head, jam>> /\ ~Active(r)
    BY <1>3 DEF Snap!export_doc, Snap!git, Active
  <2>3. /\ export'[r] \in Export /\ export'[r].at = "write"
        /\ export'[r].alone => others = {}
    BY <1>0, <2>1 DEF Export
  <2>4. \A s \in Snappers : s # r => /\ export'[s] \in Export /\ export'[s].at = export[s].at
                                     /\ s \in others => ~export'[s].alone
    <3> SUFFICES ASSUME NEW s \in Snappers, s # r
                 PROVE  /\ export'[s] \in Export /\ export'[s].at = export[s].at
                        /\ s \in others => ~export'[s].alone
      OBVIOUS
    <3> DEFINE b == export[s].alone /\ s \notin others
    <3>1. export'[s] = [export[s] EXCEPT !.alone = b]
      BY <2>1
    <3>2. b \in BOOLEAN /\ (s \in others => ~b)
      BY DEF Export
    <3> HIDE DEF b, others
    <3>3. QED
      BY <1>0, <3>1, <3>2 DEF Export
  <2>5. export' \in [Snappers -> Export]
    BY <2>1, <2>3, <2>4
  <2>6. \A s \in Snappers : s # r => (Active(s)' <=> s \in others)
    BY <2>4 DEF Active
  <2>7. ASSUME NEW s \in Snappers, Active(s)', export'[s].alone
        PROVE  OnlyOne(s)' /\ HoldsExport(s)'
    <3>1. s = r
      BY <2>4, <2>6, <2>7
    <3>2. others = {}
      BY <2>3, <2>7, <3>1
    <3>3. OnlyOne(r)'
      BY <2>6, <3>2 DEF OnlyOne
    <3>4. HoldsExport(r)'
      BY <2>3 DEF HoldsExport
    <3>5. QED
      BY <3>1, <3>3, <3>4
  <2>8. QED
    BY <1>0, <2>2, <2>5, <2>7 DEF Saving
<1>4. ASSUME NEW r \in Snappers, Snap!export_json(r)
      PROVE  Saving'
  <2>1. /\ Active(r) /\ Snap!Goes(r, "check") /\ tree' = export[r].doc
        /\ UNCHANGED <<store, staged, head, jam>>
    BY <1>4 DEF Snap!export_json, Snap!git, Active, Snap!Over
  <2>2. HoldsExport(r)'
    BY <1>0, <2>1 DEF HoldsExport, Snap!Goes, Saving, Export
  <2>3. QED
    BY <1>0, <2>1, <2>2, RunGoes
<1>5. ASSUME NEW r \in Snappers, Snap!_assert_export_reflects_live_db(r)
      PROVE  Saving'
  <2>1. PICK at \in {"guard", "red"} :
          /\ Active(r) /\ Snap!Goes(r, at) /\ export[r].at = "check"
          /\ UNCHANGED <<store, tree, staged, head, jam>>
    BY <1>5 DEF Snap!_assert_export_reflects_live_db, Snap!git, Active, Snap!Over
  <2>2. HoldsExport(r) => HoldsExport(r)'
    BY <1>0, <2>1 DEF HoldsExport, Snap!Goes, Saving, Export
  <2>3. QED
    BY <1>0, <2>1, <2>2, RunGoes DEF Snap!Over
<1>6. ASSUME NEW r \in Snappers, Snap!RefuseShrink(r)
      PROVE  Saving'
  <2>1. PICK at \in {"add", "red"} :
          /\ Active(r) /\ Snap!Goes(r, at) /\ export[r].at = "guard"
          /\ at = "add" /\ ~export[r].shrink => ~Snap!_SHRINK_REFUSAL(export[r].doc.n, head.n)
          /\ UNCHANGED <<store, tree, staged, head, jam>>
    BY <1>6 DEF Snap!RefuseShrink, Snap!_previous_snapshot_count, Snap!git, Active, Snap!Over
  <2>2. HoldsExport(r) => HoldsExport(r)'
    BY <1>0, <2>1 DEF HoldsExport, Snap!Goes, Saving, Export
  <2>3. QED
    BY <1>0, <2>1, <2>2, RunGoes DEF Snap!Over
<1>7. ASSUME NEW r \in Snappers, Snap!Add(r)
      PROVE  Saving'
  <2>1. /\ Active(r) /\ Snap!Goes(r, "commit") /\ export[r].at = "add"
        /\ staged' = IF jam THEN staged ELSE tree
        /\ UNCHANGED <<store, tree, head, jam>>
    BY <1>7 DEF Snap!Add, Active, Snap!Over
  <2>2. HoldsExport(r) => HoldsExport(r)'
    BY <1>0, <2>1 DEF HoldsExport, Snap!Goes, Saving, Export
  <2>3. QED
    BY <1>0, <2>1, <2>2, RunGoes
<1>8. ASSUME NEW r \in Snappers, Snap!Commit(r)
      PROVE  Saving'
  <2>1. /\ Active(r) /\ Snap!Goes(r, "push") /\ export[r].at = "commit"
        /\ head' = IF jam \/ staged = head.doc THEN head ELSE [n |-> export[r].doc.n, doc |-> staged]
        /\ UNCHANGED <<store, tree, staged, jam>>
    BY <1>8 DEF Snap!Commit, Active, Snap!Over
  <2>2. HoldsExport(r) => HoldsExport(r)'
    BY <1>0, <2>1 DEF HoldsExport, Snap!Goes, Saving, Export
  <2>3. QED
    BY <1>0, <2>1, <2>2, RunGoes
<1>9. ASSUME NEW r \in Snappers, Snap!Push(r) \/ Snap!Die(r)
      PROVE  Saving'
  <2>1. PICK at \in Snap!Over : Active(r) /\ Snap!Goes(r, at) /\ UNCHANGED store
    BY <1>9 DEF Snap!Push, Snap!Die, Active, Snap!Over
  <2>2. QED
    BY <1>0, <2>1, RunGoes
<1>10. QED
  BY <1>1, <1>2, <1>3, <1>4, <1>5, <1>6, <1>7, <1>8, <1>9 DEF Snap!Next, Snap!db_snapshot_cmd

\* A run that turns green has pushed.
LEMMA GreenHasPushed ==
    ASSUME Saving, Snap!Next, NEW r \in Snappers, Snap!Done(r)
    PROVE  Active(r) /\ export[r].at = "push" /\ remote' = head.doc
<1>0. export \in [Snappers -> Export]
  BY DEF Saving
<1>1. ~Snap!Write
  BY DEF Snap!Write, Snap!Done
<1>2. ASSUME NEW s \in Snappers, Snap!export_doc(s)
      PROVE  FALSE
  <2>1. \A q \in Snappers : q # s => export'[q].at = export[q].at
    BY <1>0, <1>2 DEF Snap!export_doc, Export
  <2>2. export'[s].at = "write"
    BY <1>2 DEF Snap!export_doc
  <2>3. QED
    BY <2>1, <2>2 DEF Snap!Done
<1>3. ASSUME NEW s \in Snappers, NEW at, Snap!Goes(s, at)
      PROVE  at = "green" /\ s = r
  BY <1>0, <1>3 DEF Snap!Goes, Snap!Done, Export
<1>4. ASSUME NEW s \in Snappers, Snap!db_snapshot_cmd(s) \/ Snap!Die(s)
      PROVE  s = r /\ Snap!Push(s) /\ remote' = head.doc
  BY <1>2, <1>3, <1>4 DEF Snap!db_snapshot_cmd, Snap!export_json, Snap!_assert_export_reflects_live_db,
     Snap!RefuseShrink, Snap!Add, Snap!Commit, Snap!Push, Snap!Die
<1>5. QED
  BY <1>1, <1>4 DEF Snap!Next, Snap!Push, Active, Snap!Over

\* A backup that says it was made holds the board and not the wreck of it:
\* no commit records a collapse of the store that nobody allowed, and a green
\* run has its own export off-site, where no two runs overlap and no killed
\* git has left its lock (_cli/_db.py db_snapshot_cmd).
THEOREM BackupsAreHonest == HostSpec => BackupIsHonest
<1>1. ASSUME Saving, NEW r \in Snappers, head' # head, Snap!Commit(r), export[r].alone, ~export[r].shrink
      PROVE  ~Snap!_SHRINK_REFUSAL(head'.doc.n, head.n)
  <2>1. HoldsExport(r)
    BY <1>1 DEF Saving, Active, Snap!Commit, Snap!Over
  <2>2. head' = [n |-> export[r].doc.n, doc |-> staged] /\ ~jam /\ export[r].at = "commit"
    BY <1>1 DEF Snap!Commit
  <2>3. staged = export[r].doc /\ ~Snap!_SHRINK_REFUSAL(export[r].doc.n, head.n)
    BY <1>1, <2>1, <2>2 DEF HoldsExport
  <2>4. head'.doc = export[r].doc
    BY <2>2, <2>3
  <2>5. QED
    BY <2>3, <2>4
<1>2. ASSUME Saving, [Snap!Next]_snapVars, NEW r \in Snappers, Snap!Done(r), export[r].alone, ~jam
      PROVE  remote' = export[r].doc
  <2>1. Snap!Next
    BY <1>2 DEF snapVars, Snap!Done
  <2>2. Active(r) /\ export[r].at = "push" /\ remote' = head.doc
    BY <1>2, <2>1, GreenHasPushed
  <2>3. QED
    BY <1>2, <2>2 DEF Saving, HoldsExport
<1>3. Saving /\ [Snap!Next]_snapVars
        => [\A r \in Snappers : head' # head /\ Snap!Commit(r) /\ export[r].alone /\ ~export[r].shrink
               => ~Snap!_SHRINK_REFUSAL(head'.doc.n, head.n)]_Snap!vars
  BY <1>1
<1>4. Saving /\ [Snap!Next]_snapVars
        => [\A r \in Snappers : Snap!Done(r) /\ export[r].alone /\ ~jam => remote' = export[r].doc]_Snap!vars
  BY <1>2
<1>5. QED
  BY <1>3, <1>4, SnapSteps, SavingInit, SavingStep, PTL
     DEF BackupIsHonest, Snap!BackupIsHonest, Snap!NoSilentWipe, Snap!GreenUnlessJammed
=============================================================================
