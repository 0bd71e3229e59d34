----------------------------- MODULE WebProofs -----------------------------
(***************************************************************************)
(* Proofs about the board server: the message file, its readers' cache and *)
(* the chat page, for any number of peers, requests and messages and any   *)
(* faults; and the board's cache, for any cards, requests and writers.     *)
(***************************************************************************)
EXTENDS Web, SequenceTheorems, TLAPS

-----------------------------------------------------------------------------
(* Threads and what they become.                                           *)

LEMMA SeqOf ==
    ASSUME NEW S, NEW n \in Nat, NEW f, DOMAIN f = 1 .. n,
           f = [m \in DOMAIN f |-> f[m]], \A m \in 1 .. n : f[m] \in S
    PROVE  f \in Seq(S) /\ Len(f) = n
<1>1. f \in [1 .. n -> S]
  OBVIOUS
<1>2. f \in Seq(S)
  BY <1>1, SeqDef
<1>3. QED
  BY <1>2, LenProperties

LEMMA IdsOfType ==
    ASSUME NEW t \in Seq(Messages)
    PROVE  /\ IdsOf(t) \in Seq(Nat) /\ Len(IdsOf(t)) = Len(t)
           /\ \A i \in 1 .. Len(t) : IdsOf(t)[i] = t[i].id
<1> DEFINE ids == IdsOf(t)
<1>1. Len(t) \in Nat /\ DOMAIN t = 1 .. Len(t) /\ \A i \in 1 .. Len(t) : t[i] \in Messages
  BY LenProperties, ElementOfSeq
<1>2. DOMAIN ids = 1 .. Len(t) /\ ids = [m \in DOMAIN ids |-> ids[m]]
  BY <1>1 DEF IdsOf
<1>3. \A i \in 1 .. Len(t) : ids[i] = t[i].id /\ t[i].id \in Nat
  BY <1>1 DEF IdsOf, Messages
<1> HIDE DEF ids
<1>4. ids \in Seq(Nat) /\ Len(ids) = Len(t)
  BY <1>1, <1>2, <1>3, SeqOf
<1>5. QED
  BY <1>3, <1>4 DEF ids

LEMMA PrefixTransitive ==
    ASSUME NEW s \in Seq(Nat), NEW t \in Seq(Nat), NEW u \in Seq(Nat),
           Prefix(s, t), Prefix(t, u)
    PROVE  Prefix(s, u)
BY LenProperties DEF Prefix

LEMMA KeptPrefix ==
    ASSUME NEW s \in Seq(Messages), NEW t \in Seq(Messages), Keeps(s, t)
    PROVE  Prefix(IdsOf(s), IdsOf(t))
<1>1. /\ Len(s) \in Nat /\ Len(t) \in Nat /\ Len(s) <= Len(t) /\ DOMAIN s = 1 .. Len(s)
      /\ \A i \in 1 .. Len(s) : s[i] \in Messages
  BY LenProperties, ElementOfSeq DEF Keeps
<1>2. \A i \in 1 .. Len(s) : t[i].id = s[i].id
  BY <1>1 DEF Keeps, Messages
<1>3. DOMAIN IdsOf(s) = 1 .. Len(s)
  BY <1>1 DEF IdsOf
<1>4. /\ Len(IdsOf(s)) = Len(s) /\ Len(IdsOf(t)) = Len(t)
      /\ \A i \in 1 .. Len(s) : IdsOf(s)[i] = s[i].id
      /\ \A i \in 1 .. Len(t) : IdsOf(t)[i] = t[i].id
  BY IdsOfType
<1>5. \A i \in 1 .. Len(s) : IdsOf(s)[i] = IdsOf(t)[i]
  BY <1>1, <1>2, <1>4
<1>6. QED
  BY <1>1, <1>3, <1>4, <1>5 DEF Prefix

\* A thread keeps what it has when a message is added and when it is read.
LEMMA AppendKeeps ==
    ASSUME NEW t \in Seq(Messages), NEW m \in Messages
    PROVE  Append(t, m) \in Seq(Messages) /\ Keeps(t, Append(t, m))
BY LenProperties DEF Keeps

LEMMA KeepsItself ==
    ASSUME NEW t \in Seq(Messages)
    PROVE  Keeps(t, t)
BY LenProperties DEF Keeps

LEMMA FlipKeeps ==
    ASSUME NEW t \in Seq(Messages)
    PROVE  Flipped(t) \in Seq(Messages) /\ Keeps(t, Flipped(t))
<1> DEFINE f == Flipped(t)
           flip(m) == [m EXCEPT !.read = @ \/ Unread(m)]
<1>1. Len(t) \in Nat /\ DOMAIN t = 1 .. Len(t) /\ \A i \in 1 .. Len(t) : t[i] \in Messages
  BY LenProperties, ElementOfSeq
<1>2. ASSUME NEW m \in Messages
      PROVE  flip(m) \in Messages /\ (flip(m) = m \/ flip(m) = [m EXCEPT !.read = TRUE])
  <2>1. CASE m.read \/ Unread(m)
    <3>1. (m.read \/ Unread(m)) = TRUE
      BY <2>1
    <3>2. QED
      BY <3>1 DEF Messages
  <2>2. CASE ~(m.read \/ Unread(m))
    <3>1. (m.read \/ Unread(m)) = FALSE /\ m.read = FALSE
      BY <2>2 DEF Messages
    <3>2. QED
      BY <3>1 DEF Messages
  <2>3. QED
    BY <2>1, <2>2
<1>3. DOMAIN f = 1 .. Len(t) /\ f = [i \in DOMAIN f |-> f[i]]
  BY <1>1 DEF Flipped
<1>4. \A i \in 1 .. Len(t) : f[i] = flip(t[i])
  BY <1>1 DEF Flipped
<1>5. \A i \in 1 .. Len(t) :
        f[i] \in Messages /\ (f[i] = t[i] \/ f[i] = [t[i] EXCEPT !.read = TRUE])
  BY <1>1, <1>2, <1>4
<1> HIDE DEF f
<1>6. f \in Seq(Messages) /\ Len(f) = Len(t)
  BY <1>1, <1>3, <1>5, SeqOf
<1>7. Keeps(t, f)
  BY <1>1, <1>5, <1>6 DEF Keeps
<1>8. QED
  BY <1>6, <1>7 DEF f

-----------------------------------------------------------------------------
(* Types.                                                                  *)

LEMMA CachedType ==
    ASSUME TypeOK, NEW r \in Requests
    PROVE  /\ _load_threads_cached(r) \in [stat : 0..stat, threads : Documents]
           /\ \/ _load_threads_cached(r) = parsed
              \/ _load_threads_cached(r).threads = threads
BY DEF TypeOK, _load_threads_cached

\* What a request may be doing.
Doing == [phase : Phases, peer : Peers \cup {None}, stat : 0..stat, answer : Seq(Nat)]

LEMMA ReplaceType ==
    ASSUME TypeOK, Replace, UNCHANGED <<parsed, sent>>, req' \in [Requests -> Doing]
    PROVE  /\ threads' \in Documents /\ stat' \in Nat
           /\ lock' \in [by : {None, "sender"} \cup Requests, id : 0..sent', new : Documents]
           /\ lock'.by = None
           /\ parsed' \in [stat : 0..stat', threads : Documents]
           /\ req' \in [Requests -> Doing']
<1>1. stat' \in Nat /\ 0..stat \subseteq 0..stat'
  BY DEF Replace, TypeOK
<1>2. Free \in [by : {None}, id : {0}, new : Documents]
  BY EmptySeq DEF Free, NoThreads, Documents
<1>3. lock' \in [by : {None, "sender"} \cup Requests, id : 0..sent', new : Documents]
      /\ lock'.by = None
  BY <1>2 DEF Replace, TypeOK, Free
<1>4. threads' \in Documents
  BY DEF Replace, TypeOK
<1>5. Doing \subseteq Doing'
  BY <1>1 DEF Doing
<1>6. QED
  BY <1>1, <1>3, <1>4, <1>5 DEF TypeOK

LEMMA IdleType == TypeOK => Idle \in Doing
BY EmptySeq DEF TypeOK, Idle, Doing, Phases

LEMMA GoesType ==
    ASSUME TypeOK, NEW r \in Requests, NEW phase \in Phases, Goes(r, phase)
    PROVE  req' \in [Requests -> Doing]
<1>1. req \in [Requests -> Doing]
  BY DEF TypeOK, Doing
<1>2. [req[r] EXCEPT !.phase = phase] \in Doing
  BY <1>1 DEF Doing
<1>3. req' = [req EXCEPT ![r] = [req[r] EXCEPT !.phase = phase]]
  BY <1>1 DEF Goes
<1>4. QED
  BY <1>1, <1>2, <1>3

LEMMA WriterTypes ==
    ASSUME TypeOK,
           \/ sendMessage \/ \E p \in Peers : append_message(p, Operator)
           \/ Stored \/ NotStored
    PROVE  TypeOK'
<1>0. req \in [Requests -> Doing] /\ Doing \subseteq Doing'
  BY DEF TypeOK, Doing, sendMessage, append_message, Stored, NotStored, Replace
<1>1. ASSUME NEW p \in Peers, NEW to \in Peers \cup {Operator}, append_message(p, to)
      PROVE  TypeOK'
  <2> DEFINE m == [id |-> sent + 1, to |-> to, read |-> FALSE]
             new == [threads EXCEPT ![p] = Append(@, m)]
  <2>1. sent' = sent + 1 /\ sent' \in 0..MaxMessages
    BY <1>1, BoundAssumption DEF append_message, TypeOK
  <2>2. m \in Messages
    BY <2>1 DEF Messages, TypeOK
  <2>3. new \in Documents
    <3>1. threads[p] \in Seq(Messages)
      BY DEF TypeOK, Documents
    <3>2. Append(threads[p], m) \in Seq(Messages)
      BY <2>2, <3>1, AppendKeeps
    <3>3. QED
      BY <3>2 DEF TypeOK, Documents
  <2>4. lock' = [by |-> "sender", id |-> sent + 1, new |-> new]
    BY <1>1 DEF append_message, _load_threads
  <2> HIDE DEF new
  <2>5. lock' \in [by : {None, "sender"} \cup Requests, id : 0..sent', new : Documents]
    BY <2>1, <2>3, <2>4 DEF TypeOK
  <2>6. inbox' \subseteq 1..sent'
    BY <1>1, <2>1 DEF append_message, TypeOK
  <2>7. lock'.id > 0
    BY <2>1, <2>4 DEF TypeOK
  <2>8. QED
    BY <1>1, <2>1, <2>5, <2>6, <2>7 DEF append_message, TypeOK
<1>2. CASE Stored
  <2>1. inbox' \subseteq 1..sent
    <3>1. CASE inbox' = inbox \cup {lock.id}
      <4>1. lock.id \in 1..sent
        BY <1>2 DEF Stored, TypeOK
      <4>2. QED
        BY <3>1, <4>1 DEF TypeOK
    <3>2. CASE UNCHANGED inbox
      BY <3>2 DEF TypeOK
    <3>3. QED
      BY <1>2, <3>1, <3>2 DEF Stored
  <2>2. faults' \in 0..MaxFaults
    BY <1>2, BoundAssumption DEF Stored, Faulty, TypeOK
  <2>3. QED
    BY <1>0, <1>2, <2>1, <2>2, ReplaceType, NoneAssumption DEF Stored, TypeOK, Doing
<1>3. CASE NotStored
  <2>1. Free \in [by : {None}, id : {0}, new : Documents]
    BY EmptySeq DEF Free, NoThreads, Documents
  <2>2. faults' \in 0..MaxFaults
    BY <1>3, BoundAssumption DEF NotStored, Faulty, TypeOK
  <2>3. lock' \in [by : {None, "sender"} \cup Requests, id : 0..sent', new : Documents]
    BY <1>3, <2>1 DEF NotStored, TypeOK
  <2>4. lock'.by = None
    BY <1>3 DEF NotStored, Free
  <2>5. QED
    BY <1>3, <2>2, <2>3, <2>4, NoneAssumption DEF NotStored, TypeOK
<1>4. CASE sendMessage
  <2>1. page.peer \in Peers
    BY <1>4 DEF sendMessage, TypeOK
  <2>2. QED
    BY <1>1, <1>4, <2>1 DEF sendMessage
<1>5. QED
  BY <1>1, <1>2, <1>3, <1>4

\* A request under way has a peer, and holds the lock only while it flips.
Asked ==
    \A r \in Requests : /\ req[r].phase # "idle" => req[r].peer \in Peers
                        /\ lock.by = r => req[r].phase = "flipping"

LEMMA PaintedType ==
    ASSUME NEW s \in Seq(Nat), NEW t \in Seq(Nat), Prefix(s, t)
    PROVE  s \o SubSeq(t, Len(s) + 1, Len(t)) = t
<1>1. /\ Len(s) \in Nat /\ Len(t) \in Nat /\ Len(s) <= Len(t)
      /\ \A i \in 1 .. Len(s) : s[i] = t[i]
  BY LenProperties DEF Prefix
<1> DEFINE u == SubSeq(t, Len(s) + 1, Len(t))
<1>2. /\ u \in Seq(Nat) /\ Len(u) = Len(t) - Len(s)
      /\ \A i \in 1 .. Len(t) - Len(s) : u[i] = t[Len(s) + i]
  BY <1>1
<1> HIDE DEF u
<1>3. /\ s \o u \in Seq(Nat) /\ Len(s \o u) = Len(t)
      /\ \A i \in 1 .. Len(t) : (s \o u)[i] = IF i <= Len(s) THEN s[i] ELSE u[i - Len(s)]
  BY <1>1, <1>2, ConcatProperties
<1>4. \A i \in 1 .. Len(t) : (s \o u)[i] = t[i]
  BY <1>1, <1>2, <1>3
<1>5. s \o u = t
  BY <1>3, <1>4, SeqEqual
<1>6. QED
  BY <1>5 DEF u

\* The pane shows what the page thinks it has rendered, so that an answer of
\* the open thread leaves just this answer on the pane.
Shown == page.painted = page.rendered

LEMMA PaintedFacts ==
    ASSUME TypeOK, Shown, NEW ids \in Seq(Nat)
    PROVE  Painted(ids) = [page EXCEPT !.painted = ids, !.rendered = ids]
<1> DEFINE new == SubSeq(ids, Len(page.rendered) + 1, Len(ids))
<1>1. page.rendered \in Seq(Nat) /\ page.painted = page.rendered
  BY DEF TypeOK, Shown
<1>2. Prefix(page.rendered, ids) => page.rendered \o new = ids
  BY <1>1, PaintedType
<1> HIDE DEF new
<1>3. Painted(ids).painted = ids /\ Painted(ids).rendered = ids
  BY <1>1, <1>2 DEF Painted, new, TypeOK
<1>4. QED
  BY <1>3 DEF Painted, TypeOK

LEMMA RequestTypes ==
    ASSUME TypeOK, Asked, Shown, NEW r \in Requests, Poll(r) \/ Fails(r)
    PROVE  TypeOK'
<1> DEFINE cached == _load_threads_cached(r)
<1>0. req \in [Requests -> Doing]
  BY DEF TypeOK, Doing
<1>1. ASSUME NEW phase \in Phases, NEW s \in 0..stat,
             req' = [req EXCEPT ![r].phase = phase, ![r].stat = s]
      PROVE  req' \in [Requests -> Doing]
  <2>1. [req[r] EXCEPT !.phase = phase, !.stat = s] \in Doing
    BY <1>0 DEF Doing
  <2>2. req' = [req EXCEPT ![r] = [req[r] EXCEPT !.phase = phase, !.stat = s]]
    BY <1>0, <1>1
  <2>3. QED
    BY <1>0, <2>1, <2>2
<1>2. CASE Stat(r)
  <2>1. req' \in [Requests -> Doing]
    <3>1. \E phase \in {"unread", "get"} :
            req' = [req EXCEPT ![r].phase = phase, ![r].stat = stat]
      BY <1>2 DEF Stat
    <3>2. stat \in 0..stat
      BY DEF TypeOK
    <3>3. QED
      BY <1>1, <3>1, <3>2 DEF Phases
  <2>2. QED
    BY <1>2, <2>1 DEF Stat, store, bounds, TypeOK, Doing
<1>3. CASE FastNo(r)
  <2>1. req' \in [Requests -> Doing]
    <3>1. \E phase \in {"flip", "get?"} :
            req' = [req EXCEPT ![r].phase = phase, ![r].stat = 0]
      BY <1>0, <1>3 DEF FastNo
    <3>2. 0 \in 0..stat
      BY DEF TypeOK
    <3>3. QED
      BY <1>1, <3>1, <3>2 DEF Phases
  <2>2. parsed' \in [stat : 0..stat, threads : Documents]
    BY <1>3, CachedType DEF FastNo
  <2>3. QED
    BY <1>3, <2>1, <2>2 DEF FastNo, store, bounds, TypeOK, Doing
<1>4. CASE Flip(r)
  <2>1. req' \in [Requests -> Doing]
    BY <1>4, GoesType DEF Flip, Phases
  <2>2. lock' \in [by : {None, "sender"} \cup Requests, id : 0..sent, new : Documents]
        /\ (lock' = lock \/ lock'.by = r)
    <3>1. CASE UNCHANGED lock
      BY <3>1 DEF TypeOK
    <3>2. CASE lock' = [by |-> r, id |-> 0,
                        new |-> [threads EXCEPT ![req[r].peer] = Flipped(@)]]
      <4> DEFINE new == [threads EXCEPT ![req[r].peer] = Flipped(@)]
      <4>1. new \in Documents
        <5>1. threads \in [Peers -> Seq(Messages)]
          BY DEF TypeOK, Documents
        <5>2. req[r].peer \in Peers => Flipped(threads[req[r].peer]) \in Seq(Messages)
          BY <5>1, FlipKeeps
        <5>3. QED
          BY <5>1, <5>2 DEF Documents
      <4> HIDE DEF new
      <4>2. QED
        BY <3>2, <4>1 DEF TypeOK, new
    <3>3. QED
      BY <1>4, <3>1, <3>2 DEF Flip, _load_threads
  <2>3. lock'.by = "sender" => lock'.id > 0
    BY <2>2, NoneAssumption DEF TypeOK
  <2>4. QED
    BY <1>4, <2>1, <2>2, <2>3 DEF Flip, bounds, TypeOK, Doing
<1>5. CASE FlipStored(r)
  <2>1. req' \in [Requests -> Doing]
    BY <1>5, GoesType DEF FlipStored, Phases
  <2>2. QED
    BY <1>5, <2>1, ReplaceType, NoneAssumption DEF FlipStored, bounds, TypeOK, Doing
<1>6. CASE get_thread(r)
  <2>1. parsed' \in [stat : 0..stat, threads : Documents]
    BY <1>6, CachedType DEF get_thread
  <2>2. req' \in [Requests -> Doing]
    <3> DEFINE ids == IdsOf(parsed'.threads[req[r].peer])
    <3>1. ids \in Seq(Nat)
      <4>1. parsed'.threads[req[r].peer] \in Seq(Messages)
        <5>1. parsed'.threads \in Documents
          BY <2>1
        <5>2. req[r].peer \in Peers
          <6>1. req[r].phase = "get"
            BY <1>6 DEF get_thread
          <6>2. QED
            BY <6>1 DEF Asked
        <5>3. QED
          BY <5>1, <5>2 DEF Documents
      <4>2. QED
        BY <4>1, IdsOfType
    <3>2. [req[r] EXCEPT !.stat = 0, !.phase = "answer", !.answer = ids] \in Doing
      <4>1. 0 \in 0..stat
        BY DEF TypeOK
      <4> HIDE DEF ids
      <4>2. QED
        BY <1>0, <3>1, <4>1 DEF Doing, Phases
    <3>3. req' = [req EXCEPT ![r] =
                     [req[r] EXCEPT !.stat = 0, !.phase = "answer", !.answer = ids]]
      BY <1>0, <1>6 DEF get_thread
    <3> HIDE DEF ids
    <3>4. QED
      BY <1>0, <3>2, <3>3
  <2>3. QED
    BY <1>6, <2>1, <2>2 DEF get_thread, store, bounds, TypeOK, Doing
<1>7. CASE Arrive(r)
  <2>1. req' \in [Requests -> Doing]
    BY <1>0, <1>7, IdleType DEF Arrive
  <2>2. page' \in [peer : Peers \cup {None}, painted : Seq(Nat), rendered : Seq(Nat)]
    <3>1. req[r].answer \in Seq(Nat)
      BY <1>0 DEF Doing
    <3>2. Painted(req[r].answer) \in
              [peer : Peers \cup {None}, painted : Seq(Nat), rendered : Seq(Nat)]
      <4>1. Painted(req[r].answer)
              = [page EXCEPT !.painted = req[r].answer, !.rendered = req[r].answer]
        BY <3>1, PaintedFacts
      <4>2. page \in [peer : Peers \cup {None}, painted : Seq(Nat), rendered : Seq(Nat)]
        BY DEF TypeOK
      <4>3. QED
        BY <3>1, <4>1, <4>2
    <3>3. QED
      BY <1>7, <3>2 DEF Arrive, TypeOK
  <2>3. QED
    BY <1>7, <2>1, <2>2 DEF Arrive, store, bounds, TypeOK, Doing
<1>8. CASE refreshThread(r)
  <2>1. [Idle EXCEPT !.phase = "unread?", !.peer = page.peer] \in Doing
    BY <1>8, IdleType DEF TypeOK, Doing, Idle, Phases
  <2>2. req' \in [Requests -> Doing]
    BY <1>0, <1>8, <2>1 DEF refreshThread
  <2>3. QED
    BY <1>8, <2>2 DEF refreshThread, store, bounds, TypeOK, Doing
<1>9. CASE Fails(r)
  <2>1. req' \in [Requests -> Doing]
    BY <1>0, <1>9, IdleType DEF Fails
  <2>2. Free \in [by : {None}, id : {0}, new : Documents]
    BY EmptySeq DEF Free, NoThreads, Documents
  <2>3. /\ lock' \in [by : {None, "sender"} \cup Requests, id : 0..sent, new : Documents]
        /\ lock' = lock \/ lock'.by = None
    BY <1>9, <2>2 DEF Fails, TypeOK, Free
  <2>4. faults' \in 0..MaxFaults
    BY <1>9, BoundAssumption DEF Fails, Faulty, TypeOK
  <2>5. QED
    BY <1>9, <2>1, <2>3, <2>4, NoneAssumption DEF Fails, TypeOK, Doing
<1>10. QED
  BY <1>2, <1>3, <1>4, <1>5, <1>6, <1>7, <1>8, <1>9 DEF Poll, Handle

LEMMA OpenTypes ==
    ASSUME TypeOK, NEW p \in Peers, openThread(p)
    PROVE  TypeOK'
<1>1. page' \in [peer : Peers \cup {None}, painted : Seq(Nat), rendered : Seq(Nat)]
  BY EmptySeq DEF openThread, Opened
<1>2. opens' \in 0..MaxOpens
  BY BoundAssumption DEF openThread, TypeOK
<1>3. QED
  BY <1>1, <1>2 DEF openThread, store, TypeOK

LEMMA TypeStep ==
    ASSUME TypeOK, Asked, Shown, [Next]_vars
    PROVE  TypeOK'
<1>1. CASE Next
  BY <1>1, WriterTypes, RequestTypes, OpenTypes DEF Next
<1>2. CASE UNCHANGED vars
  BY <1>2 DEF vars, store, bounds, TypeOK
<1>3. QED
  BY <1>1, <1>2

LEMMA AskedStep ==
    ASSUME TypeOK, Asked, [Next]_vars
    PROVE  Asked'
<1> USE NoneAssumption
<1>1. CASE sendMessage \/ (\E p \in Peers : append_message(p, Operator)) \/ Stored \/ NotStored
  <2>1. UNCHANGED req /\ (lock'.by = "sender" \/ lock'.by = None)
    BY <1>1 DEF sendMessage, append_message, Stored, NotStored, Replace, Free
  <2>2. QED
    BY <2>1 DEF Asked
<1>2. CASE \E p \in Peers : openThread(p)
  BY <1>2 DEF openThread, store, Asked
<1>3. ASSUME NEW r \in Requests, Poll(r) \/ Fails(r)
      PROVE  Asked'
  <2>0. req \in [Requests -> Doing]
    BY DEF TypeOK, Doing
  <2>1. \A q \in Requests \ {r} : req'[q] = req[q]
    BY <1>3, <2>0 DEF Poll, Handle, refreshThread, Stat, FastNo, Flip, FlipStored, get_thread,
                      Arrive, Fails, Goes
  <2>2. lock'.by \in {lock.by, r, None}
    BY <1>3 DEF Poll, Handle, refreshThread, Stat, FastNo, Flip, FlipStored, get_thread,
                Arrive, Fails, Replace, Free, store
  <2>3. req'[r].phase # "idle" => req'[r].peer \in Peers
    <3>1. CASE refreshThread(r)
      BY <2>0, <3>1 DEF refreshThread, TypeOK, Idle
    <3>2. CASE Handle(r) \/ Fails(r)
      <4>1. CASE Arrive(r) \/ Fails(r)
        BY <2>0, <4>1 DEF Arrive, Fails, Idle
      <4>2. CASE Stat(r) \/ FastNo(r) \/ Flip(r) \/ FlipStored(r) \/ get_thread(r)
        <5>1. req'[r].peer = req[r].peer
          BY <2>0, <4>2 DEF Stat, FastNo, Flip, FlipStored, get_thread, Goes, Doing
        <5>2. req[r].phase # "idle"
          BY <4>2 DEF Stat, FastNo, Flip, FlipStored, get_thread, Asked
        <5>3. QED
          BY <5>1, <5>2 DEF Asked
      <4>3. QED
        BY <3>2, <4>1, <4>2 DEF Handle
    <3>3. QED
      BY <1>3, <3>1, <3>2 DEF Poll
  <2>4. lock'.by = r => req'[r].phase = "flipping"
    <3>1. CASE lock'.by # r
      BY <3>1
    <3>2. CASE lock'.by = r /\ lock.by = r
      <4>1. req[r].phase = "flipping" /\ lock # Free
        <5>1. r # None
          OBVIOUS
        <5>2. lock # Free
          BY <3>2, <5>1 DEF Free
        <5>3. QED
          BY <3>2, <5>2 DEF Asked
      <4>2. UNCHANGED req
        BY <1>3, <3>2, <4>1 DEF Poll, Handle, refreshThread, Stat, FastNo, Flip, FlipStored,
             get_thread, Arrive, Fails, Replace, Free
      <4>3. QED
        BY <4>1, <4>2
    <3>3. CASE lock'.by = r /\ lock.by # r
      <4>1. Flip(r) /\ Goes(r, "flipping")
        BY <1>3, <3>3 DEF Poll, Handle, refreshThread, Stat, FastNo, Flip, FlipStored,
             get_thread, Arrive, Fails, Replace, Free, store
      <4>2. QED
        BY <2>0, <4>1 DEF Goes, Doing
    <3>4. QED
      BY <3>1, <3>2, <3>3
  <2>5. QED
    BY <2>1, <2>2, <2>3, <2>4 DEF Asked
<1>4. CASE UNCHANGED vars
  BY <1>4 DEF vars, store, Asked
<1>5. QED
  BY <1>1, <1>2, <1>3, <1>4 DEF Next

LEMMA ShownStep ==
    ASSUME TypeOK, Shown, [Next]_vars
    PROVE  Shown'
<1>1. CASE \E p \in Peers : openThread(p)
  BY <1>1 DEF openThread, Opened, Shown
<1>2. CASE \E r \in Requests : Arrive(r)
  <2>1. PICK r \in Requests : Arrive(r)
    BY <1>2
  <2>2. req[r].answer \in Seq(Nat)
    BY DEF TypeOK
  <2>3. page' \in {page, [page EXCEPT !.painted = req[r].answer, !.rendered = req[r].answer]}
    BY <2>1, <2>2, PaintedFacts DEF Arrive
  <2>4. QED
    BY <2>3 DEF Shown, TypeOK
<1>3. CASE UNCHANGED page
  BY <1>3 DEF Shown
<1>4. QED
  BY <1>1, <1>2, <1>3 DEF Next, sendMessage, append_message, Stored, NotStored, Poll, Handle,
     refreshThread, Stat, FastNo, Flip, FlipStored, get_thread, Fails, vars

LEMMA InitTypes == Init => TypeOK /\ Asked /\ Shown
<1> SUFFICES ASSUME Init PROVE TypeOK /\ Asked /\ Shown
  OBVIOUS
<1>1. NoThreads \in Documents /\ <<>> \in Seq(Nat)
  BY EmptySeq DEF NoThreads, Documents
<1>2. TypeOK
  BY <1>1, BoundAssumption, NoneAssumption DEF Init, TypeOK, Free, Idle, Phases
<1>3. Asked /\ Shown
  BY NoneAssumption DEF Init, Asked, Shown, Idle, Free
<1>4. QED
  BY <1>2, <1>3

\* Every variable keeps its type; a request under way is for a thread and holds
\* the lock only to flip it, and the pane shows what the page believes it has
\* rendered (chat.js `state.rendered').
THEOREM TypesHold == Spec => [](TypeOK /\ Asked /\ Shown)
<1>1. TypeOK /\ Asked /\ Shown /\ [Next]_vars => (TypeOK /\ Asked /\ Shown)'
  BY TypeStep, AskedStep, ShownStep
<1>2. QED
  BY <1>1, InitTypes, PTL DEF Spec

-----------------------------------------------------------------------------
(* No message is lost.  What the holder of the lock will write keeps what  *)
(* the file has, and nobody else writes meanwhile.                         *)

Held == lock.by # None => \A p \in Peers : Keeps(threads[p], lock.new[p])

LEMMA ThreadType ==
    ASSUME TypeOK, NEW p \in Peers
    PROVE  /\ threads[p] \in Seq(Messages) /\ parsed.threads[p] \in Seq(Messages)
           /\ IdsOf(threads[p]) \in Seq(Nat) /\ IdsOf(parsed.threads[p]) \in Seq(Nat)
BY IdsOfType DEF TypeOK, Documents

LEMMA AppendHeld ==
    ASSUME TypeOK, NEW p \in Peers, NEW to \in Peers \cup {Operator}, append_message(p, to)
    PROVE  Held'
<1> DEFINE m == [id |-> sent + 1, to |-> to, read |-> FALSE]
<1>1. m \in Messages
  BY DEF Messages, TypeOK
<1>2. /\ lock'.new = [threads EXCEPT ![p] = Append(@, m)]
      /\ UNCHANGED threads
  BY DEF append_message, _load_threads
<1> HIDE DEF m
<1>3. ASSUME NEW q \in Peers
      PROVE  Keeps(threads[q], lock'.new[q])
  <2>1. CASE q = p
    <3>1. lock'.new[q] = Append(threads[q], m)
      BY <1>2, <2>1 DEF TypeOK, Documents
    <3>2. QED
      BY <1>1, <3>1, ThreadType, AppendKeeps
  <2>2. CASE q # p
    <3>1. lock'.new[q] = threads[q]
      BY <1>2, <2>2 DEF TypeOK, Documents
    <3>2. QED
      BY <3>1, ThreadType, KeepsItself
  <2>3. QED
    BY <2>1, <2>2
<1>4. QED
  BY <1>2, <1>3 DEF Held

LEMMA FlipHeld ==
    ASSUME TypeOK, Held, NEW r \in Requests, Flip(r)
    PROVE  Held'
<1>1. CASE UNCHANGED lock
  BY <1>1 DEF Flip, Held
<1>2. CASE lock'.new = [threads EXCEPT ![req[r].peer] = Flipped(@)]
  <2>1. ASSUME NEW q \in Peers
        PROVE  Keeps(threads[q], lock'.new[q])
    <3>1. CASE q = req[r].peer
      <4>1. lock'.new[q] = Flipped(threads[q])
        BY <1>2, <3>1 DEF TypeOK, Documents
      <4>2. QED
        BY <4>1, ThreadType, FlipKeeps
    <3>2. CASE q # req[r].peer
      <4>1. lock'.new[q] = threads[q]
        BY <1>2, <3>2 DEF TypeOK, Documents
      <4>2. QED
        BY <4>1, ThreadType, KeepsItself
    <3>3. QED
      BY <3>1, <3>2
  <2>2. QED
    BY <2>1 DEF Flip, Held
<1>3. QED
  BY <1>1, <1>2 DEF Flip, _load_threads

LEMMA HeldStep ==
    ASSUME TypeOK, Held, [Next]_vars
    PROVE  Held'
<1>1. CASE sendMessage \/ \E p \in Peers : append_message(p, Operator)
  <2>1. CASE sendMessage
    <3>1. page.peer \in Peers
      BY <2>1 DEF sendMessage, TypeOK
    <3>2. QED
      BY <2>1, <3>1, AppendHeld DEF sendMessage
  <2>2. CASE \E p \in Peers : append_message(p, Operator)
    BY <2>2, AppendHeld
  <2>3. QED
    BY <1>1, <2>1, <2>2
<1>2. CASE Stored \/ NotStored \/ \E r \in Requests : FlipStored(r)
  BY <1>2 DEF Stored, NotStored, FlipStored, Replace, Free, Held
<1>3. CASE \E r \in Requests : Flip(r)
  BY <1>3, FlipHeld
<1>4. CASE \E r \in Requests : Fails(r)
  BY <1>4 DEF Fails, Free, Held
<1>5. CASE UNCHANGED <<threads, lock>>
  BY <1>5 DEF Held
<1>6. QED
  BY <1>1, <1>2, <1>3, <1>4, <1>5 DEF Next, Poll, Handle, refreshThread, Stat, FastNo,
     get_thread, Arrive, openThread, store, vars

\* Only the holder of the lock changes the file.
LEMMA FileKeeps ==
    ASSUME TypeOK, Held, [Next]_vars, NEW p \in Peers
    PROVE  Keeps(threads[p], threads'[p])
<1>1. CASE Replace /\ lock.by # None
  BY <1>1 DEF Replace, Held
<1>2. CASE UNCHANGED threads
  BY <1>2, ThreadType, KeepsItself
<1>3. QED
  BY <1>1, <1>2, NoneAssumption DEF Next, sendMessage, append_message, Stored, NotStored, Poll,
     Handle, refreshThread, Stat, FastNo, Flip, FlipStored, get_thread, Arrive, Fails,
     openThread, store, vars

LEMMA HeldAlways == Spec => []Held
<1>1. Init => Held
  BY DEF Init, Free, Held
<1>2. TypeOK /\ Held /\ [Next]_vars => Held'
  BY HeldStep
<1>3. QED
  BY <1>1, <1>2, TypesHold, PTL DEF Spec

\* A message in the file stays there, in its place, and stays read once it is,
\* whoever writes and whatever the readers have cached (_threads.py "a stale
\* read there would silently DROP a message").
THEOREM NoMessageLost == Spec => MessagesKept
<1>1. TypeOK /\ Held /\ [Next]_vars => [\A p \in Peers : Keeps(threads[p], threads'[p])]_vars
  BY FileKeeps
<1>2. QED
  BY <1>1, TypesHold, HeldAlways, PTL DEF Spec, MessagesKept

-----------------------------------------------------------------------------
(* The pane shows the beginning of the open thread.  Whatever a request    *)
(* carries, and whatever the cache holds, is the beginning of the thread   *)
(* in the file, however old; so is what is painted of it.                  *)

CacheInOrder == \A p \in Peers : Prefix(IdsOf(parsed.threads[p]), IdsOf(threads[p]))
AnswersInOrder ==
    \A r \in Requests :
        req[r].phase = "answer" => Prefix(req[r].answer, IdsOf(threads[req[r].peer]))
PageInOrder == page.peer # None => Prefix(page.rendered, IdsOf(threads[page.peer]))

InOrder == CacheInOrder /\ AnswersInOrder /\ PageInOrder

\* What is the beginning of a thread remains one.
LEMMA StillPrefix ==
    ASSUME TypeOK, TypeOK', Held, [Next]_vars, NEW p \in Peers, NEW ids \in Seq(Nat),
           Prefix(ids, IdsOf(threads[p]))
    PROVE  Prefix(ids, IdsOf(threads'[p]))
<1>1. threads[p] \in Seq(Messages) /\ threads'[p] \in Seq(Messages)
  BY DEF TypeOK, Documents
<1>2. IdsOf(threads[p]) \in Seq(Nat) /\ IdsOf(threads'[p]) \in Seq(Nat)
  BY <1>1, IdsOfType
<1>3. Prefix(IdsOf(threads[p]), IdsOf(threads'[p]))
  BY <1>1, FileKeeps, KeptPrefix
<1>4. QED
  BY <1>2, <1>3, PrefixTransitive

LEMMA PrefixOfItself ==
    ASSUME NEW s \in Seq(Nat)
    PROVE  Prefix(s, s)
BY LenProperties DEF Prefix

LEMMA CacheStep ==
    ASSUME TypeOK, TypeOK', Held, CacheInOrder, [Next]_vars
    PROVE  CacheInOrder'
<1>1. ASSUME NEW p \in Peers
      PROVE  Prefix(IdsOf(parsed'.threads[p]), IdsOf(threads'[p]))
  <2>1. parsed'.threads \in {parsed.threads, threads}
    BY CachedType DEF Next, sendMessage, append_message, Stored, NotStored, Poll, Handle,
       refreshThread, Stat, FastNo, Flip, FlipStored, get_thread, Arrive, Fails, openThread, vars
  <2>2. Prefix(IdsOf(parsed'.threads[p]), IdsOf(threads[p]))
    BY <2>1, ThreadType, PrefixOfItself DEF CacheInOrder
  <2>3. IdsOf(parsed'.threads[p]) \in Seq(Nat)
    BY <2>1, ThreadType
  <2>4. QED
    BY <2>2, <2>3, StillPrefix
<1>2. QED
  BY <1>1 DEF CacheInOrder

\* A request changes in its own steps only, and in one of them is answered.
LEMMA OthersUnchanged ==
    ASSUME TypeOK, NEW q \in Requests, NEW r \in Requests, Poll(q) \/ Fails(q), r # q
    PROVE  req'[r] = req[r]
<1>0. req \in [Requests -> Doing]
  BY DEF TypeOK, Doing
<1>1. CASE Stat(q)
  BY <1>0, <1>1 DEF Stat
<1>2. CASE FastNo(q)
  BY <1>0, <1>2 DEF FastNo
<1>3. CASE Flip(q)
  BY <1>0, <1>3 DEF Flip, Goes
<1>4. CASE FlipStored(q)
  BY <1>0, <1>4 DEF FlipStored, Goes
<1>5. CASE get_thread(q)
  BY <1>0, <1>5 DEF get_thread
<1>6. CASE Arrive(q)
  BY <1>0, <1>6 DEF Arrive
<1>7. CASE refreshThread(q)
  BY <1>0, <1>7 DEF refreshThread
<1>8. CASE Fails(q)
  BY <1>0, <1>8 DEF Fails
<1>9. QED
  BY <1>1, <1>2, <1>3, <1>4, <1>5, <1>6, <1>7, <1>8 DEF Poll, Handle

LEMMA NotAnswered ==
    ASSUME TypeOK, NEW r \in Requests, Poll(r) \/ Fails(r), ~get_thread(r)
    PROVE  req'[r].phase # "answer"
<1>0. req \in [Requests -> Doing]
  BY DEF TypeOK, Doing
<1>1. CASE Stat(r)
  <2>1. CASE req[r].phase = "unread?"
    BY <1>0, <1>1, <2>1 DEF Stat, Doing
  <2>2. CASE req[r].phase = "get?"
    BY <1>0, <1>1, <2>2 DEF Stat, Doing
  <2>3. QED
    BY <1>1, <2>1, <2>2 DEF Stat
<1>2. CASE FastNo(r)
  BY <1>0, <1>2 DEF FastNo, Doing
<1>3. CASE Flip(r)
  BY <1>0, <1>3 DEF Flip, Goes, Doing
<1>4. CASE FlipStored(r)
  BY <1>0, <1>4 DEF FlipStored, Goes, Doing
<1>5. CASE Arrive(r)
  BY <1>0, <1>5 DEF Arrive, Idle
<1>6. CASE refreshThread(r)
  BY <1>0, <1>6 DEF refreshThread, Idle
<1>7. CASE Fails(r)
  BY <1>0, <1>7 DEF Fails, Idle
<1>8. QED
  BY <1>1, <1>2, <1>3, <1>4, <1>5, <1>6, <1>7 DEF Poll, Handle

LEMMA AnswersStep ==
    ASSUME TypeOK, TypeOK', Asked, Held, CacheInOrder, AnswersInOrder, [Next]_vars
    PROVE  AnswersInOrder'
<1>1. ASSUME NEW r \in Requests, req'[r].phase = "answer"
      PROVE  Prefix(req'[r].answer, IdsOf(threads'[req'[r].peer]))
  <2>0. req \in [Requests -> Doing]
    BY DEF TypeOK, Doing
  <2>1. CASE req'[r] = req[r]
    <3>1. /\ req[r].phase = "answer" /\ req[r].peer \in Peers
          /\ req[r].answer \in Seq(Nat)
      BY <1>1, <2>0, <2>1 DEF Asked, Doing
    <3>2. QED
      BY <2>1, <3>1, StillPrefix DEF AnswersInOrder
  <2>2. CASE get_thread(r)
    <3>1. /\ req[r].phase = "get" /\ UNCHANGED threads
          /\ req'[r].peer = req[r].peer
          /\ req'[r].answer = IdsOf(parsed'.threads[req[r].peer])
      BY <2>0, <2>2 DEF get_thread, store, Doing
    <3>2. req[r].peer \in Peers
      BY <3>1 DEF Asked
    <3>3. CacheInOrder'
      BY CacheStep
    <3>4. QED
      BY <3>1, <3>2, <3>3 DEF CacheInOrder
  <2>3. CASE ~get_thread(r) /\ req'[r] # req[r]
    <3>1. PICK q \in Requests : Poll(q) \/ Fails(q)
      BY <2>3 DEF Next, sendMessage, append_message, Stored, NotStored, openThread, vars
    <3>2. q = r
      BY <2>3, <3>1, OthersUnchanged
    <3>3. QED
      BY <1>1, <2>3, <3>1, <3>2, NotAnswered
  <2>4. QED
    BY <2>1, <2>2, <2>3
<1>2. QED
  BY <1>1 DEF AnswersInOrder

LEMMA PageStep ==
    ASSUME TypeOK, TypeOK', Shown, Held, AnswersInOrder, PageInOrder, [Next]_vars
    PROVE  PageInOrder'
<1>1. CASE UNCHANGED page
  <2>1. SUFFICES ASSUME page.peer # None
                 PROVE  Prefix(page.rendered, IdsOf(threads'[page.peer]))
    BY <1>1 DEF PageInOrder
  <2>2. page.peer \in Peers /\ page.rendered \in Seq(Nat)
    BY <2>1 DEF TypeOK
  <2>3. QED
    BY <2>1, <2>2, StillPrefix DEF PageInOrder
<1>2. CASE \E p \in Peers : openThread(p)
  BY <1>2, EmptySeq DEF openThread, Opened, PageInOrder, Prefix
<1>3. ASSUME NEW r \in Requests, Arrive(r)
      PROVE  PageInOrder'
  <2>1. CASE ~Wanted(r)
    BY <1>1, <1>3, <2>1 DEF Arrive
  <2>2. CASE Wanted(r)
    <3>1. req[r].answer \in Seq(Nat) /\ UNCHANGED threads
      BY <1>3 DEF TypeOK, Arrive, store
    <3>2. page' = [page EXCEPT !.painted = req[r].answer, !.rendered = req[r].answer]
      BY <1>3, <2>2, <3>1, PaintedFacts DEF Arrive
    <3>3. page'.peer = page.peer /\ page'.rendered = req[r].answer
      BY <3>2 DEF TypeOK
    <3>4. QED
      BY <1>3, <2>2, <3>1, <3>3 DEF Arrive, Wanted, AnswersInOrder, PageInOrder
  <2>3. QED
    BY <2>1, <2>2
<1>4. QED
  BY <1>1, <1>2, <1>3 DEF Next, sendMessage, append_message, Stored, NotStored, Poll, Handle,
     refreshThread, Stat, FastNo, Flip, FlipStored, get_thread, Fails, vars

LEMMA InOrderInit == Init => InOrder
<1> SUFFICES ASSUME Init PROVE InOrder
  OBVIOUS
<1>1. IdsOf(<<>>) \in Seq(Nat)
  BY EmptySeq, IdsOfType
<1>2. QED
  BY <1>1, PrefixOfItself DEF Init, InOrder, CacheInOrder, AnswersInOrder, PageInOrder,
     NoThreads, Idle

LEMMA InOrderStep ==
    TypeOK /\ TypeOK' /\ Asked /\ Shown /\ Held /\ InOrder /\ [Next]_vars => InOrder'
BY CacheStep, AnswersStep, PageStep DEF InOrder

\* The pane shows the beginning of the open thread and nothing else, for all
\* the answers under way, late or of another thread (chat.js).
THEOREM PaneStaysInOrder == Spec => []PaneInOrder
<1>1. TypeOK /\ Shown /\ InOrder => PaneInOrder
  BY DEF Shown, InOrder, PageInOrder, PaneInOrder
<1>2. QED
  BY <1>1, InOrderInit, InOrderStep, TypesHold, HeldAlways, PTL DEF Spec

-----------------------------------------------------------------------------
(* The board's half.  A step of the server is one of the board's cache or  *)
(* leaves all of it alone.                                                 *)

LEMMA BoardSteps == WebSpec => Board!Init /\ [][Board!Next]_boardVars
<1>1. [WebNext]_webVars => [Board!Next]_boardVars
  BY DEF WebNext, OnBoard, OnChat, webVars
<1>2. QED
  BY <1>1, PTL DEF WebSpec, WebInit

Filable == Board!Boards
Unloaded == [sig : Board!Stores, tasks : {Board!Nothing}]
Asking == [phase : Board!Phases, allow_stale : BOOLEAN,
           board : Filable \cup Unloaded \cup {Board!NoBoard}]

\* What a request holds is as far as the request is.
CacheTypes ==
    /\ cards \in Board!Stores /\ removed \in Board!Stores /\ timeline \in Board!Stores
    /\ cache \in Filable \cup {Board!NoBoard}
    /\ refresh \in Filable \cup Unloaded \cup {Board!NoBoard}
    /\ call \in [Board!Callers -> Asking]
    /\ \A r \in Board!Callers :
          /\ call[r].phase \in {"sig", "load"} => call[r].board \in Unloaded
          /\ call[r].phase \in {"insert", "read"} => call[r].board \in Filable
    /\ seen \in [Board!Callers -> SUBSET Board!Stores]
    /\ writes \in 1 .. MaxWrites
    /\ returned \in BOOLEAN

\* Something has no content: no board is both loaded and not.
LEMMA NothingIsNoStore == Board!Nothing \notin Board!Stores
BY BoardAssumption DEF Board!Nothing, Board!Stores

LEMMA BoardFields ==
    /\ \A s \in Board!Stores, t \in Board!Stores : Board!Board(s, t) \in Filable
    /\ \A s \in Board!Stores : Board!Loading(s) \in Unloaded
    /\ \A b \in Filable \cup Unloaded : b # Board!NoBoard
    /\ \A b \in Unloaded : b \notin Filable
BY NothingIsNoStore DEF Filable, Unloaded, Board!Boards, Board!Board, Board!Loading, Board!NoBoard

LEMMA Contents ==
    /\ Board!Absent \in Board!Stores
    /\ \A s \in Board!Stores, i \in Ids, n \in 0 .. MaxWrites :
          [s EXCEPT ![i] = n] \in Board!Stores
BY BoardAssumption DEF Board!Absent, Board!Stores

LEMMA CacheTypesInit == Board!Init => CacheTypes
<1> SUFFICES ASSUME Board!Init PROVE CacheTypes
  OBVIOUS
<1>1. cards \in Board!Stores /\ timeline \in Board!Stores /\ removed \in Board!Stores
  BY BoardAssumption, Contents DEF Board!Init, Board!Stores
<1>2. Board!Idle \in Asking /\ Board!Idle.phase = "idle"
  BY DEF Board!Idle, Asking, Board!Phases
<1>3. call \in [Board!Callers -> Asking] /\ \A r \in Board!Callers : call[r].phase = "idle"
  BY <1>2 DEF Board!Init
<1>4. writes \in 1 .. MaxWrites
  BY BoardAssumption DEF Board!Init
<1>5. QED
  BY <1>1, <1>3, <1>4 DEF CacheTypes, Board!Init

\* What the steps of one request do to it.
LEMMA CallGoes ==
    ASSUME CacheTypes, NEW r \in Board!Callers, NEW phase \in Board!Phases,
           NEW board \in Filable \cup Unloaded \cup {Board!NoBoard},
           Board!Goes(r, phase, board)
    PROVE  /\ call' \in [Board!Callers -> Asking]
           /\ call'[r].phase = phase /\ call'[r].board = board
           /\ call'[r].allow_stale = call[r].allow_stale
           /\ \A q \in Board!Callers \ {r} : call'[q] = call[q]
BY DEF CacheTypes, Asking, Board!Goes

LEMMA CallEnds ==
    ASSUME CacheTypes, NEW r \in Board!Callers, Board!Ends(r)
    PROVE  /\ call' \in [Board!Callers -> Asking]
           /\ call'[r].phase = "idle"
           /\ \A q \in Board!Callers \ {r} : call'[q] = call[q]
BY DEF CacheTypes, Asking, Board!Ends, Board!Idle, Board!Phases

LEMMA CallStarts ==
    ASSUME CacheTypes, NEW r \in Board!Callers, NEW allow_stale \in BOOLEAN,
           Board!ReadSig(r, allow_stale)
    PROVE  /\ call' \in [Board!Callers -> Asking]
           /\ call'[r].phase = "sig" /\ call'[r].board = Board!Loading(cards)
           /\ call'[r].allow_stale = allow_stale
           /\ \A q \in Board!Callers \ {r} : call'[q] = call[q]
<1>1. Board!Loading(cards) \in Unloaded
  BY BoardFields DEF CacheTypes
<1>2. [phase |-> "sig", allow_stale |-> allow_stale, board |-> Board!Loading(cards)] \in Asking
  BY <1>1 DEF Asking, Board!Phases
<1>3. QED
  BY <1>2 DEF CacheTypes, Board!ReadSig, Board!Generation

\* A post answers, and nothing changes, or commits one new content.
Answered(r) ==
    /\ Board!Ends(r) /\ Board!Sees(r, {})
    /\ UNCHANGED <<cards, cache, refresh, timeline, removed, writes, returned>>
Committed(r, new) ==
    /\ Board!Ends(r) \/ Board!Commits(r)
    /\ Board!Commit(new)
    /\ removed' \in Board!Stores
    /\ UNCHANGED <<cache, refresh, timeline>>

LEMMA Fresh ==
    ASSUME CacheTypes, writes < MaxWrites
    PROVE  /\ Board!Fresh \in 0 .. MaxWrites /\ writes + 1 \in 1 .. MaxWrites
           /\ \A i \in Ids : [cards EXCEPT ![i] = Board!Fresh] \in Board!Stores
<1>1. Board!Fresh \in 0 .. MaxWrites /\ writes + 1 \in 1 .. MaxWrites
  BY BoardAssumption DEF CacheTypes, Board!Fresh
<1>2. QED
  BY <1>1, Contents DEF CacheTypes

LEMMA PostCases ==
    ASSUME CacheTypes, NEW r \in Board!Callers, Board!Post(r)
    PROVE  Answered(r) \/ \E new \in Board!Stores : Committed(r, new)
<1>0. cards \in Board!Stores /\ removed \in Board!Stores
  BY DEF CacheTypes
<1>1. ASSUME NEW i \in Ids, Board!handle_create(r, i) \/ Board!handle_update(r, i) \/ Board!chat_view(r, i)
      PROVE  Answered(r) \/ \E new \in Board!Stores : Committed(r, new)
  <2>1. CASE Board!Answers(r)
    BY <2>1 DEF Board!Post, Board!Answers, Answered
  <2>2. CASE /\ Board!Ends(r) \/ Board!Commits(r)
             /\ Board!Write(i) /\ UNCHANGED removed
    <3>1. writes < MaxWrites
      BY <2>2 DEF Board!Write, Board!Commit
    <3>2. [cards EXCEPT ![i] = Board!Fresh] \in Board!Stores
      BY <3>1, Fresh
    <3>3. Committed(r, [cards EXCEPT ![i] = Board!Fresh])
      BY <1>0, <2>2 DEF Board!Post, Board!Write, Committed
    <3>4. QED
      BY <3>2, <3>3
  <2>3. QED
    BY <1>1, <2>1, <2>2 DEF Board!handle_create, Board!handle_update, Board!chat_view
<1>2. ASSUME NEW i \in Ids, Board!handle_delete(r, i)
      PROVE  Answered(r) \/ \E new \in Board!Stores : Committed(r, new)
  <2>1. cards[i] \in 0 .. MaxWrites
    BY <1>0 DEF Board!Stores
  <2>2. [cards EXCEPT ![i] = 0] \in Board!Stores /\ [removed EXCEPT ![i] = cards[i]] \in Board!Stores
    BY <1>0, <2>1, BoardAssumption, Contents
  <2>3. CASE cards[i] = 0
    BY <1>2, <2>3 DEF Board!Post, Board!handle_delete, Board!Answers, Answered
  <2>4. CASE cards[i] # 0
    <3>1. Committed(r, [cards EXCEPT ![i] = 0])
      BY <1>2, <2>2, <2>4 DEF Board!Post, Board!handle_delete, Committed
    <3>2. QED
      BY <2>2, <3>1
  <2>5. QED
    BY <2>3, <2>4
<1>3. ASSUME NEW i \in Ids, Board!handle_restore(r, i)
      PROVE  Answered(r) \/ \E new \in Board!Stores : Committed(r, new)
  <2>1. removed[i] \in 0 .. MaxWrites
    BY <1>0 DEF Board!Stores
  <2>2. [cards EXCEPT ![i] = removed[i]] \in Board!Stores
    BY <1>0, <2>1, Contents
  <2>3. CASE removed[i] = 0 \/ cards[i] > 0
    BY <1>3, <2>3 DEF Board!Post, Board!handle_restore, Board!Answers, Answered
  <2>4. CASE ~(removed[i] = 0 \/ cards[i] > 0)
    <3>1. Committed(r, [cards EXCEPT ![i] = removed[i]])
      BY <1>0, <1>3, <2>4 DEF Board!Post, Board!handle_restore, Committed
    <3>2. QED
      BY <2>2, <3>1
  <2>5. QED
    BY <2>3, <2>4
<1>4. ASSUME Board!handle_priority(r)
      PROVE  \E new \in Board!Stores : Committed(r, new)
  <2> DEFINE new == [i \in Ids |-> IF cards[i] = 0 THEN 0 ELSE Board!Fresh]
  <2>1. writes < MaxWrites
    BY <1>4 DEF Board!handle_priority, Board!Commit
  <2>2. new \in Board!Stores
    BY <2>1, Fresh, BoardAssumption DEF Board!Stores
  <2>3. Committed(r, new)
    BY <1>0, <1>4 DEF Board!Post, Board!handle_priority, Committed
  <2>4. QED
    BY <2>2, <2>3
<1>5. QED
  BY <1>1, <1>2, <1>3, <1>4 DEF Board!Post

\* What a commit makes of the contents requests have seen.
LEMMA CommitSeen ==
    ASSUME CacheTypes, NEW new \in Board!Stores, Board!Commit(new)
    PROVE  /\ cards' = new /\ writes' \in 1 .. MaxWrites /\ returned' \in BOOLEAN
           /\ seen' \in [Board!Callers -> SUBSET Board!Stores]
           /\ \A q \in Board!Callers :
                 seen[q] # {} /\ call'[q].phase \notin {"idle", "reset"}
                     => seen'[q] = seen[q] \cup {new}
<1>1. writes' \in 1 .. MaxWrites
  BY Fresh DEF Board!Commit
<1>2. returned' \in BOOLEAN
  BY DEF Board!Commit, CacheTypes
<1>3. QED
  BY <1>1, <1>2 DEF Board!Commit, CacheTypes

LEMMA SeesType ==
    ASSUME CacheTypes, NEW r \in Board!Callers, NEW contents \in SUBSET Board!Stores,
           Board!Sees(r, contents)
    PROVE  /\ seen' \in [Board!Callers -> SUBSET Board!Stores]
           /\ seen'[r] = contents
           /\ \A q \in Board!Callers \ {r} : seen'[q] = seen[q]
BY DEF CacheTypes, Board!Sees

\* The steps of one request between its beginning and its end.
LEMMA LookUpCases ==
    ASSUME CacheTypes, NEW r \in Board!Callers, Board!LookUp(r)
    PROVE  /\ call[r].phase = "sig"
           /\ UNCHANGED <<cards, cache, timeline, removed, writes, seen, returned>>
           /\ \/ /\ Board!Goes(r, "read", cache) /\ cache \in Filable
                 /\ refresh' = refresh
                    \/ (Board!MayBeStale(r) /\ refresh' = Board!Loading(call[r].board.sig))
                 /\ cache.sig = call[r].board.sig \/ Board!MayBeStale(r)
              \/ Board!Goes(r, "load", call[r].board) /\ UNCHANGED refresh
BY DEF CacheTypes, Board!LookUp, Board!_kick_board_refresh

LEMMA CacheTypesOfCall ==
    ASSUME CacheTypes, NEW r \in Board!Callers,
           Board!LookUp(r) \/ Board!Load(r) \/ Board!Insert(r)
    PROVE  CacheTypes'
<1>1. CASE Board!LookUp(r)
  <2>1. call[r].board \in Unloaded /\ call[r].board.sig \in Board!Stores
    BY <1>1 DEF Board!LookUp, CacheTypes, Unloaded
  <2>2. refresh' \in Filable \cup Unloaded \cup {Board!NoBoard}
    BY <1>1, <2>1, LookUpCases, BoardFields DEF CacheTypes
  <2>3. CASE Board!Goes(r, "read", cache) /\ cache \in Filable
    <3>1. "read" \in Board!Phases
      BY DEF Board!Phases
    <3>2. /\ call' \in [Board!Callers -> Asking]
          /\ call'[r].phase = "read" /\ call'[r].board \in Filable
          /\ \A q \in Board!Callers \ {r} : call'[q] = call[q]
      BY <2>3, <3>1, CallGoes
    <3>3. QED
      BY <1>1, <2>2, <3>2, LookUpCases DEF CacheTypes
  <2>4. CASE Board!Goes(r, "load", call[r].board)
    <3>1. "load" \in Board!Phases
      BY DEF Board!Phases
    <3>2. /\ call' \in [Board!Callers -> Asking]
          /\ call'[r].phase = "load" /\ call'[r].board \in Unloaded
          /\ \A q \in Board!Callers \ {r} : call'[q] = call[q]
      BY <2>1, <2>4, <3>1, CallGoes
    <3>3. QED
      BY <1>1, <2>2, <3>2, LookUpCases DEF CacheTypes
  <2>5. QED
    BY <1>1, <2>3, <2>4, LookUpCases
<1>2. CASE Board!Load(r)
  <2>1. Board!Board(call[r].board.sig, cards) \in Filable
    BY <1>2, BoardFields DEF Board!Load, CacheTypes, Unloaded
  <2>2. "insert" \in Board!Phases
    BY DEF Board!Phases
  <2>3. /\ call' \in [Board!Callers -> Asking]
        /\ call'[r].phase = "insert" /\ call'[r].board \in Filable
        /\ \A q \in Board!Callers \ {r} : call'[q] = call[q]
    BY <1>2, <2>1, <2>2, CallGoes DEF Board!Load
  <2>4. QED
    BY <1>2, <2>3 DEF CacheTypes, Board!Load
<1>3. CASE Board!Insert(r)
  <2>1. call[r].board \in Filable
    BY <1>3 DEF Board!Insert, CacheTypes
  <2>2. "read" \in Board!Phases
    BY DEF Board!Phases
  <2>3. /\ call' \in [Board!Callers -> Asking]
        /\ call'[r].phase = "read" /\ call'[r].board \in Filable
        /\ \A q \in Board!Callers \ {r} : call'[q] = call[q]
    BY <1>3, <2>1, <2>2, CallGoes DEF Board!Insert
  <2>4. QED
    BY <1>3, <2>1, <2>3 DEF CacheTypes, Board!Insert, Board!Filed
<1>4. QED
  BY <1>1, <1>2, <1>3

LEMMA CacheTypesOfEnds ==
    ASSUME CacheTypes, NEW r \in Board!Callers,
           \/ \E stale \in BOOLEAN : Board!ReadSig(r, stale)
           \/ Answered(r)
           \/ \E new \in Board!Stores : Committed(r, new)
           \/ Board!timeline_view(r) \/ Board!handle_graph(r) \/ Board!_reset_cache(r)
    PROVE  CacheTypes'
<1>1. ASSUME NEW stale \in BOOLEAN, Board!ReadSig(r, stale)
      PROVE  CacheTypes'
  <2>1. (IF stale THEN {} ELSE {cards}) \in SUBSET Board!Stores
    BY DEF CacheTypes
  <2>2. seen' \in [Board!Callers -> SUBSET Board!Stores]
    BY <1>1, <2>1, SeesType DEF Board!ReadSig
  <2>3. Board!Loading(cards) \in Unloaded
    BY BoardFields DEF CacheTypes
  <2>4. QED
    BY <1>1, <2>2, <2>3, CallStarts DEF CacheTypes, Board!ReadSig
<1>2. CASE Answered(r) \/ Board!timeline_view(r) \/ Board!handle_graph(r) \/ Board!_reset_cache(r)
  <2>1. Board!Ends(r) /\ Board!Sees(r, {})
    BY <1>2 DEF Answered, Board!timeline_view, Board!handle_graph, Board!_reset_cache
  <2>2. seen' \in [Board!Callers -> SUBSET Board!Stores]
    BY <2>1, SeesType
  <2>3. /\ timeline' \in Board!Stores
        /\ cache' \in {cache, Board!NoBoard}
        /\ UNCHANGED <<cards, refresh, removed, writes, returned>>
    BY <1>2 DEF Answered, Board!timeline_view, Board!handle_graph, Board!_reset_cache, CacheTypes,
       Filable, Board!Boards
  <2>4. QED
    BY <2>1, <2>2, <2>3, CallEnds DEF CacheTypes
<1>3. ASSUME NEW new \in Board!Stores, Committed(r, new)
      PROVE  CacheTypes'
  <2>1. "reset" \in Board!Phases
    BY DEF Board!Phases
  <2>2. /\ call' \in [Board!Callers -> Asking]
        /\ call'[r].phase \in {"idle", "reset"}
        /\ \A q \in Board!Callers \ {r} : call'[q] = call[q]
    BY <1>3, <2>1, CallEnds, CallGoes DEF Committed, Board!Commits
  <2>3. QED
    BY <1>3, <2>2, CommitSeen DEF CacheTypes, Committed
<1>4. QED
  BY <1>1, <1>2, <1>3

LEMMA CacheTypesOfOthers ==
    ASSUME CacheTypes,
           \/ Board!RefreshLoad \/ Board!RefreshInsert \/ Board!RefreshFails \/ Board!Expire
           \/ Board!OtherProcess \/ UNCHANGED boardVars
    PROVE  CacheTypes'
<1>1. CASE Board!RefreshLoad
  <2>1. refresh \in Unloaded
    BY <1>1, NothingIsNoStore DEF Board!RefreshLoad, CacheTypes, Filable, Board!Boards
  <2>2. Board!Board(refresh.sig, cards) \in Filable
    BY <2>1, BoardFields DEF CacheTypes, Unloaded
  <2>3. QED
    BY <1>1, <2>2 DEF Board!RefreshLoad, CacheTypes
<1>2. CASE Board!RefreshInsert
  BY <1>2 DEF Board!RefreshInsert, Board!Filed, CacheTypes, Filable
<1>3. CASE Board!RefreshFails
  BY <1>3 DEF Board!RefreshFails, CacheTypes
<1>4. CASE Board!Expire
  BY <1>4 DEF Board!Expire, CacheTypes
<1>5. CASE Board!OtherProcess
  <2>1. PICK i \in Ids : Board!Write(i)
    BY <1>5 DEF Board!OtherProcess
  <2>2. writes < MaxWrites
    BY <2>1 DEF Board!Write, Board!Commit
  <2>3. [cards EXCEPT ![i] = Board!Fresh] \in Board!Stores
    BY <2>2, Fresh
  <2>4. QED
    BY <1>5, <2>1, <2>3, CommitSeen DEF Board!OtherProcess, Board!Write, CacheTypes
<1>6. CASE UNCHANGED boardVars
  BY <1>6 DEF boardVars, CacheTypes
<1>7. QED
  BY <1>1, <1>2, <1>3, <1>4, <1>5, <1>6

\* A step of the board's cache, by whom it is taken.
LEMMA BoardCases ==
    ASSUME CacheTypes, [Board!Next]_boardVars
    PROVE  \/ \E r \in Board!Callers :
                \/ Board!LookUp(r) \/ Board!Load(r) \/ Board!Insert(r)
                \/ \E stale \in BOOLEAN : Board!ReadSig(r, stale)
                \/ Answered(r)
                \/ \E new \in Board!Stores : Committed(r, new)
                \/ Board!timeline_view(r) \/ Board!handle_graph(r) \/ Board!_reset_cache(r)
           \/ Board!RefreshLoad \/ Board!RefreshInsert \/ Board!RefreshFails \/ Board!Expire
           \/ Board!OtherProcess \/ UNCHANGED boardVars
<1>1. \A r \in Others : r \in Board!Callers
  BY DEF Board!Callers
<1>2. ASSUME NEW r \in Board!Callers, Board!Poll(r) \/ Board!View(r) \/ Board!Request(r)
      PROVE  \/ Board!LookUp(r) \/ Board!Load(r) \/ Board!Insert(r)
             \/ \E stale \in BOOLEAN : Board!ReadSig(r, stale)
             \/ Answered(r)
             \/ \E new \in Board!Stores : Committed(r, new)
             \/ Board!timeline_view(r) \/ Board!handle_graph(r) \/ Board!_reset_cache(r)
  BY <1>2, PostCases DEF Board!Poll, Board!View, Board!Request, Board!Serve
<1>3. QED
  BY <1>1, <1>2 DEF Board!Next

LEMMA CacheTypesStep == CacheTypes /\ [Board!Next]_boardVars => CacheTypes'
BY BoardCases, CacheTypesOfCall, CacheTypesOfEnds, CacheTypesOfOthers

LEMMA CacheTypesAlways == WebSpec => []CacheTypes
BY BoardSteps, CacheTypesInit, CacheTypesStep, PTL

\* Board!TypeOK: the cache holds at most one board, filed under a content, and
\* a refresh or a request is at one of its steps, with any cards and requests.
THEOREM CacheTypesHold == WebSpec => []Board!TypeOK
<1>1. CacheTypes => Board!TypeOK
  BY DEF CacheTypes, Board!TypeOK, Filable, Unloaded, Asking
<1>2. QED
  BY <1>1, CacheTypesAlways, PTL

-----------------------------------------------------------------------------
(* A board that is filed, or is about to be, under a generation holds that *)
(* content, or one the store had since: so does a request that asked for   *)
(* the store as it is.  A content that comes back while a board under its  *)
(* generation holds another is the exception (`returned').                 *)

Asks(r) == call[r].phase \in {"sig", "load", "insert", "read"} /\ ~Board!MayBeStale(r)
ToBeFiled(b) ==
    /\ b \in Filable
    /\ b = cache \/ b = refresh
          \/ \E q \in Board!Callers : call[q].phase = "insert" /\ call[q].board = b

SeesTheStore == \A r \in Board!Callers : Asks(r) => cards \in seen[r]
FiledTruly == \A b \in Filable : ToBeFiled(b) /\ b.sig = cards => b.tasks = cards
WillBeFound ==
    \A b \in Filable, r \in Board!Callers :
        ToBeFiled(b) /\ Asks(r) /\ call[r].phase = "sig" /\ b.sig = call[r].board.sig
            => b.tasks \in seen[r]
HoldsWhatItSaw ==
    \A r \in Board!Callers :
        Asks(r) /\ call[r].phase \in {"insert", "read"} => call[r].board.tasks \in seen[r]

Linear == SeesTheStore /\ (returned \/ (FiledTruly /\ WillBeFound /\ HoldsWhatItSaw))

LEMMA LinearInit == Board!Init => Linear
<1> SUFFICES ASSUME Board!Init PROVE Linear
  OBVIOUS
<1>1. \A r \in Board!Callers : call[r].phase = "idle"
  BY DEF Board!Init, Board!Idle
<1>2. \A b \in Filable : ~ToBeFiled(b)
  BY <1>1, BoardFields DEF Board!Init, ToBeFiled
<1>3. QED
  BY <1>1, <1>2 DEF Linear, SeesTheStore, FiledTruly, WillBeFound, HoldsWhatItSaw, Asks

LEMMA LinearOfStart ==
    ASSUME CacheTypes, Linear, NEW r \in Board!Callers, NEW stale \in BOOLEAN,
           Board!ReadSig(r, stale)
    PROVE  Linear'
<1>1. /\ call'[r].phase = "sig" /\ call'[r].board = Board!Loading(cards)
      /\ call'[r].allow_stale = stale
      /\ \A q \in Board!Callers \ {r} : call'[q] = call[q]
  BY CallStarts
<1>2. (IF stale THEN {} ELSE {cards}) \in SUBSET Board!Stores
  BY DEF CacheTypes
<1>3. /\ seen'[r] = IF stale THEN {} ELSE {cards}
      /\ \A q \in Board!Callers \ {r} : seen'[q] = seen[q]
  BY <1>2, SeesType DEF Board!ReadSig
<1>4. UNCHANGED <<cards, cache, refresh, returned>>
  BY DEF Board!ReadSig
<1>5. \A b \in Filable : ToBeFiled(b)' => ToBeFiled(b)
  BY <1>1, <1>4 DEF ToBeFiled
<1>6. SeesTheStore'
  BY <1>1, <1>3, <1>4 DEF Linear, SeesTheStore, Asks, Board!MayBeStale
<1>7. ASSUME ~returned PROVE FiledTruly' /\ WillBeFound' /\ HoldsWhatItSaw'
  <2>1. FiledTruly /\ WillBeFound /\ HoldsWhatItSaw
    BY <1>7 DEF Linear
  <2>2. FiledTruly'
    BY <2>1, <1>4, <1>5 DEF FiledTruly
  <2>3. WillBeFound'
    BY <2>1, <1>1, <1>3, <1>5 DEF FiledTruly, WillBeFound, Asks, Board!MayBeStale, Board!Loading, Board!Board
  <2>4. HoldsWhatItSaw'
    BY <2>1, <1>1, <1>3 DEF HoldsWhatItSaw, Asks, Board!MayBeStale
  <2>5. QED
    BY <2>2, <2>3, <2>4
<1>8. QED
  BY <1>4, <1>6, <1>7 DEF Linear

LEMMA LinearOfCall ==
    ASSUME CacheTypes, Linear, NEW r \in Board!Callers,
           Board!LookUp(r) \/ Board!Load(r) \/ Board!Insert(r)
    PROVE  Linear'
<1>1. CASE Board!LookUp(r)
  <2>1. call[r].phase = "sig" /\ UNCHANGED <<cards, cache, seen, returned>>
    BY <1>1, LookUpCases
  <2>2. call[r].board \in Unloaded /\ (refresh' \notin Filable \/ refresh' = refresh)
    BY <1>1, <2>1, LookUpCases, BoardFields DEF CacheTypes, Unloaded
  <2>3. CASE /\ Board!Goes(r, "read", cache) /\ cache \in Filable
             /\ cache.sig = call[r].board.sig \/ Board!MayBeStale(r)
    <3>1. "read" \in Board!Phases
      BY DEF Board!Phases
    <3>2. /\ call'[r].phase = "read" /\ call'[r].board = cache
          /\ call'[r].allow_stale = call[r].allow_stale
          /\ \A q \in Board!Callers \ {r} : call'[q] = call[q]
      BY <2>3, <3>1, CallGoes
    <3>3. \A b \in Filable : ToBeFiled(b)' => ToBeFiled(b)
      BY <2>1, <2>2, <3>2 DEF ToBeFiled
    <3>4. ToBeFiled(cache)
      BY <2>3 DEF ToBeFiled
    <3>5. Asks(r)' => Asks(r) /\ cache.sig = call[r].board.sig
      BY <2>1, <2>3, <3>2 DEF Asks, Board!MayBeStale
    <3>6. \A q \in Board!Callers \ {r} : Asks(q)' = Asks(q)
      BY <3>2 DEF Asks, Board!MayBeStale
    <3>7. SeesTheStore'
      BY <2>1, <3>5, <3>6 DEF Linear, SeesTheStore
    <3>8. ASSUME ~returned PROVE FiledTruly' /\ WillBeFound' /\ HoldsWhatItSaw'
      BY <3>8, <2>1, <2>3, <3>2, <3>3, <3>4, <3>5, <3>6 DEF Linear, FiledTruly, WillBeFound, HoldsWhatItSaw
    <3>9. QED
      BY <2>1, <3>7, <3>8 DEF Linear
  <2>4. CASE Board!Goes(r, "load", call[r].board) /\ UNCHANGED refresh
    <3>1. "load" \in Board!Phases /\ call[r].board \in Unloaded
      BY <2>1 DEF Board!Phases, CacheTypes
    <3>2. /\ call'[r].phase = "load" /\ call'[r].board = call[r].board
          /\ call'[r].allow_stale = call[r].allow_stale
          /\ \A q \in Board!Callers \ {r} : call'[q] = call[q]
      BY <2>4, <3>1, CallGoes
    <3>3. \A b \in Filable : ToBeFiled(b)' => ToBeFiled(b)
      BY <2>1, <2>4, <3>2 DEF ToBeFiled
    <3>4. \A q \in Board!Callers : Asks(q)' = Asks(q)
      BY <2>1, <3>2 DEF Asks, Board!MayBeStale
    <3>5. SeesTheStore'
      BY <2>1, <3>4 DEF Linear, SeesTheStore
    <3>6. ASSUME ~returned PROVE FiledTruly' /\ WillBeFound' /\ HoldsWhatItSaw'
      BY <3>6, <2>1, <3>2, <3>3, <3>4 DEF Linear, FiledTruly, WillBeFound, HoldsWhatItSaw
    <3>7. QED
      BY <2>1, <3>5, <3>6 DEF Linear
  <2>5. QED
    BY <1>1, <2>3, <2>4, LookUpCases
<1>2. CASE Board!Load(r)
  <2> DEFINE board == Board!Board(call[r].board.sig, cards)
  <2>1. call[r].phase = "load" /\ UNCHANGED <<cards, cache, refresh, seen, returned>>
    BY <1>2 DEF Board!Load
  <2>2. board \in Filable /\ board.tasks = cards /\ "insert" \in Board!Phases
    BY <2>1, BoardFields DEF CacheTypes, Unloaded, Board!Board, Board!Phases
  <2>3. /\ call'[r].phase = "insert" /\ call'[r].board = board
        /\ call'[r].allow_stale = call[r].allow_stale
        /\ \A q \in Board!Callers \ {r} : call'[q] = call[q]
    BY <1>2, <2>2, CallGoes DEF Board!Load
  <2> HIDE DEF board
  <2>4. \A b \in Filable : ToBeFiled(b)' => ToBeFiled(b) \/ b = board
    BY <2>1, <2>3 DEF ToBeFiled
  <2>5. \A q \in Board!Callers : Asks(q)' = Asks(q)
    BY <2>1, <2>3 DEF Asks, Board!MayBeStale
  <2>6. SeesTheStore /\ SeesTheStore'
    BY <2>1, <2>5 DEF Linear, SeesTheStore
  <2>7. ASSUME ~returned PROVE FiledTruly' /\ WillBeFound' /\ HoldsWhatItSaw'
    <3>1. FiledTruly'
      BY <2>7, <2>1, <2>2, <2>4 DEF Linear, FiledTruly
    <3>2. WillBeFound'
      BY <2>7, <2>1, <2>2, <2>3, <2>4, <2>5, <2>6 DEF Linear, WillBeFound, SeesTheStore
    <3>3. HoldsWhatItSaw'
      BY <2>7, <2>1, <2>2, <2>3, <2>5, <2>6 DEF Linear, HoldsWhatItSaw, SeesTheStore
    <3>4. QED
      BY <3>1, <3>2, <3>3
  <2>8. QED
    BY <2>1, <2>6, <2>7 DEF Linear
<1>3. CASE Board!Insert(r)
  <2>1. /\ call[r].phase = "insert" /\ cache' = call[r].board
        /\ UNCHANGED <<cards, refresh, seen, returned>>
    BY <1>3 DEF Board!Insert, Board!Filed
  <2>2. call[r].board \in Filable /\ "read" \in Board!Phases
    BY <2>1 DEF CacheTypes, Board!Phases
  <2>3. /\ call'[r].phase = "read" /\ call'[r].board = call[r].board
        /\ call'[r].allow_stale = call[r].allow_stale
        /\ \A q \in Board!Callers \ {r} : call'[q] = call[q]
    BY <1>3, <2>2, CallGoes DEF Board!Insert
  <2>4. \A b \in Filable : ToBeFiled(b)' => ToBeFiled(b)
    BY <2>1, <2>3 DEF ToBeFiled
  <2>5. \A q \in Board!Callers : Asks(q)' = Asks(q)
    BY <2>1, <2>3 DEF Asks, Board!MayBeStale
  <2>6. SeesTheStore'
    BY <2>1, <2>5 DEF Linear, SeesTheStore
  <2>7. ASSUME ~returned PROVE FiledTruly' /\ WillBeFound' /\ HoldsWhatItSaw'
    BY <2>7, <2>1, <2>3, <2>4, <2>5 DEF Linear, FiledTruly, WillBeFound, HoldsWhatItSaw
  <2>8. QED
    BY <2>1, <2>6, <2>7 DEF Linear
<1>4. QED
  BY <1>1, <1>2, <1>3

\* A commit: a request under way has seen the new content, and a board filed
\* under it holds it, unless the content has returned.
LEMMA LinearOfCommit ==
    ASSUME CacheTypes, Linear, NEW new \in Board!Stores, Board!Commit(new),
           UNCHANGED <<cache, refresh>>,
           \A q \in Board!Callers : call'[q] = call[q] \/ call'[q].phase \in {"idle", "reset"}
    PROVE  Linear'
<1>1. /\ cards' = new
      /\ \A q \in Board!Callers :
            seen[q] # {} /\ call'[q].phase \notin {"idle", "reset"} => seen'[q] = seen[q] \cup {new}
  BY CommitSeen
<1>2. \A q \in Board!Callers : Asks(q)' => Asks(q) /\ call'[q] = call[q]
  BY DEF Asks, Board!MayBeStale
<1>3. \A b \in Filable : ToBeFiled(b)' => ToBeFiled(b)
  BY DEF ToBeFiled
<1>4. \A q \in Board!Callers : Asks(q)' => seen'[q] = seen[q] \cup {new}
  BY <1>1, <1>2 DEF Linear, SeesTheStore, Asks
<1>5. SeesTheStore'
  BY <1>1, <1>4 DEF SeesTheStore
<1>6. ASSUME ~returned' PROVE FiledTruly' /\ WillBeFound' /\ HoldsWhatItSaw'
  <2>1. ~returned /\ (new = cards \/ ~Board!Misfiled(new))
    BY <1>6 DEF Board!Commit, CacheTypes
  <2>2. \A b \in Filable : ToBeFiled(b) /\ b.sig = new => b.tasks = new
    BY <2>1, BoardFields DEF Linear, FiledTruly, ToBeFiled, Board!Misfiled
  <2>3. FiledTruly'
    BY <1>1, <1>3, <2>2 DEF FiledTruly
  <2>4. WillBeFound' /\ HoldsWhatItSaw'
    BY <2>1, <1>2, <1>3, <1>4 DEF Linear, WillBeFound, HoldsWhatItSaw
  <2>5. QED
    BY <2>3, <2>4
<1>7. returned' \in BOOLEAN
  BY CommitSeen
<1>8. QED
  BY <1>5, <1>6, <1>7 DEF Linear

LEMMA LinearOfEnds ==
    ASSUME CacheTypes, Linear, NEW r \in Board!Callers,
           \/ Answered(r)
           \/ \E new \in Board!Stores : Committed(r, new)
           \/ Board!timeline_view(r) \/ Board!handle_graph(r) \/ Board!_reset_cache(r)
    PROVE  Linear'
<1>1. CASE Answered(r) \/ Board!timeline_view(r) \/ Board!handle_graph(r) \/ Board!_reset_cache(r)
  <2>1. /\ Board!Ends(r) /\ Board!Sees(r, {})
        /\ cache' \in {cache, Board!NoBoard} /\ UNCHANGED <<cards, refresh, returned>>
    BY <1>1 DEF Answered, Board!timeline_view, Board!handle_graph, Board!_reset_cache
  <2>2. call'[r].phase = "idle" /\ \A q \in Board!Callers \ {r} : call'[q] = call[q]
    BY <2>1, CallEnds
  <2>3. \A q \in Board!Callers \ {r} : seen'[q] = seen[q]
    BY <2>1, SeesType
  <2>4. \A b \in Filable : ToBeFiled(b)' => ToBeFiled(b)
    BY <2>1, <2>2, BoardFields DEF ToBeFiled
  <2>5. \A q \in Board!Callers : Asks(q)' => Asks(q) /\ call'[q] = call[q] /\ seen'[q] = seen[q]
    BY <2>2, <2>3 DEF Asks, Board!MayBeStale
  <2>6. SeesTheStore'
    BY <2>1, <2>5 DEF Linear, SeesTheStore
  <2>7. ASSUME ~returned PROVE FiledTruly' /\ WillBeFound' /\ HoldsWhatItSaw'
    BY <2>7, <2>1, <2>4, <2>5 DEF Linear, FiledTruly, WillBeFound, HoldsWhatItSaw
  <2>8. QED
    BY <2>1, <2>6, <2>7 DEF Linear
<1>2. ASSUME NEW new \in Board!Stores, Committed(r, new)
      PROVE  Linear'
  <2>1. "reset" \in Board!Phases
    BY DEF Board!Phases
  <2>2. \A q \in Board!Callers : call'[q] = call[q] \/ call'[q].phase \in {"idle", "reset"}
    BY <1>2, <2>1, CallEnds, CallGoes DEF Committed, Board!Commits
  <2>3. QED
    BY <1>2, <2>2, LinearOfCommit DEF Committed
<1>3. QED
  BY <1>1, <1>2

LEMMA LinearOfOthers ==
    ASSUME CacheTypes, Linear,
           \/ Board!RefreshLoad \/ Board!RefreshInsert \/ Board!RefreshFails \/ Board!Expire
           \/ Board!OtherProcess \/ UNCHANGED boardVars
    PROVE  Linear'
<1>1. CASE Board!RefreshLoad
  <2>1. refresh' = Board!Board(refresh.sig, cards) /\ UNCHANGED <<cards, cache, call, seen, returned>>
    BY <1>1 DEF Board!RefreshLoad
  <2>2. refresh'.tasks = cards
    BY <2>1 DEF Board!Board
  <2>3. \A b \in Filable : ToBeFiled(b)' => ToBeFiled(b) \/ b = refresh'
    BY <2>1 DEF ToBeFiled
  <2>4. \A q \in Board!Callers : Asks(q)' = Asks(q)
    BY <2>1 DEF Asks, Board!MayBeStale
  <2>5. QED
    BY <2>1, <2>2, <2>3, <2>4 DEF Linear, SeesTheStore, FiledTruly, WillBeFound, HoldsWhatItSaw
<1>2. CASE Board!RefreshInsert \/ Board!RefreshFails \/ Board!Expire \/ UNCHANGED boardVars
  <2>1. UNCHANGED <<cards, call, seen, returned>>
    BY <1>2 DEF Board!RefreshInsert, Board!RefreshFails, Board!Expire, boardVars
  <2>2. /\ cache' \in {cache, refresh, Board!NoBoard}
        /\ refresh' \in {refresh, Board!NoBoard}
    BY <1>2 DEF Board!RefreshInsert, Board!RefreshFails, Board!Expire, boardVars, Board!Filed
  <2>3. \A b \in Filable : ToBeFiled(b)' => ToBeFiled(b)
    BY <2>1, <2>2, BoardFields DEF ToBeFiled
  <2>4. \A q \in Board!Callers : Asks(q)' = Asks(q)
    BY <2>1 DEF Asks, Board!MayBeStale
  <2>5. QED
    BY <2>1, <2>3, <2>4 DEF Linear, SeesTheStore, FiledTruly, WillBeFound, HoldsWhatItSaw
<1>3. CASE Board!OtherProcess
  <2>1. PICK i \in Ids : Board!Write(i)
    BY <1>3 DEF Board!OtherProcess
  <2>2. writes < MaxWrites
    BY <2>1 DEF Board!Write, Board!Commit
  <2>3. [cards EXCEPT ![i] = Board!Fresh] \in Board!Stores
    BY <2>2, Fresh
  <2>4. QED
    BY <1>3, <2>1, <2>3, LinearOfCommit DEF Board!OtherProcess, Board!Write
<1>4. QED
  BY <1>1, <1>2, <1>3

LEMMA LinearStep == CacheTypes /\ Linear /\ [Board!Next]_boardVars => Linear'
BY BoardCases, LinearOfStart, LinearOfCall, LinearOfEnds, LinearOfOthers

\* A request that did not ask for a stale board works on a content the store
\* had while it ran, whatever refresh, expiry, writer or other request comes
\* between its steps (_django/services.py "MUST see its own write").
THEOREM ReadsAreLinear == WebSpec => []LinearRead
<1>1. CacheTypes /\ Linear => LinearRead
  BY DEF CacheTypes, Linear, HoldsWhatItSaw, Asks, LinearRead, Board!LinearRead
<1>2. QED
  BY <1>1, BoardSteps, CacheTypesAlways, LinearInit, LinearStep, PTL
=============================================================================
