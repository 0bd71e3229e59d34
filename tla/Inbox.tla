------------------------------- MODULE Inbox -------------------------------
(***************************************************************************)
(* One agent's notifications: dispatchers put records into its inbox, the  *)
(* channel servers of its sessions push them into the terminal and         *)
(* acknowledge them, and its own polls read and mark them.                 *)
(*                                                                         *)
(* Two backends hold the records.  With "sqlite" (the default) a statement *)
(* that reads runs outside any transaction and the first that writes opens *)
(* one, so looking for a duplicate and inserting are two steps, while a    *)
(* superseding enqueue, which deletes first, is one.  With "yaml" every    *)
(* operation is one step under the store lock, and a channel server skips  *)
(* its tick when the file has not changed.                                 *)
(*                                                                         *)
(* A record is known by its place in append order.  What it says is its    *)
(* event: type, card, time and actor, the fields records are compared by.  *)
(***************************************************************************)
EXTENDS Naturals

CONSTANTS
    Backends,      \* the backends the host may be set to: "sqlite", "yaml"
    Dispatchers,   \* processes that enqueue
    Sessions,      \* channel servers of the agent
    Readers,       \* callers of poll_notifications(ack=True)
    Events,        \* the events that concern the agent
    KindOf,        \* their <<event_type, card_id>>
    Digests,       \* the kinds enqueued with supersede=True
    MaxId,         \* bound on the records
    Cap,           \* MAX_PUSH_PER_DRAIN
    MaxFaults,     \* bound on what goes wrong in channel servers
    NoJob,         \* a dispatcher or reader at rest
    NoRec          \* a record not enqueued yet

Ids == 1 .. MaxId
\* the agent's raw name, and its user id once it is registered
Keys == {"name", "uid"}

ASSUME BackendAssumption == Backends \subseteq {"sqlite", "yaml"}
ASSUME BoundAssumption ==
    MaxId \in Nat /\ Cap \in Nat \ {0} /\ MaxFaults \in Nat

VARIABLES
    backend,       \* SCITEX_TODO_INBOX_BACKEND, the same for everybody
    registered,    \* the users section resolves the agent's name
    rec,           \* the records, by id
    state,         \* "none", "unseen", "seen" or "gone" (deleted)
    job,           \* what each dispatcher is enqueueing
    reading,       \* what each reader has selected and not yet marked
    pc, keys, todo, count,   \* drain_once of each channel server
    changed,       \* the file's mtime is not the one the server last saw
    handed,        \* records pushed or returned to the agent
    pushes,        \* how often each server pushed each record
    missed,        \* and how often it then failed to acknowledge it
    faults         \* what went wrong so far

host == <<backend, registered>>
chanVars == <<pc, keys, todo, count>>
vars == <<host, rec, state, job, reading, chanVars, changed, handed, pushes,
          missed, faults>>

Recs == [key : Keys, event : Events, by : Dispatchers]
Jobs == [at : {"check", "insert"}, key : Keys, event : Events]

ASSUME NoJobAssumption ==
    NoJob \notin Jobs /\ \A S \in SUBSET Ids : S # NoJob

TypeOK ==
    /\ backend \in {"sqlite", "yaml"}
    /\ registered \in BOOLEAN
    /\ rec \in [Ids -> {NoRec} \cup Recs]
    /\ state \in [Ids -> {"none", "unseen", "seen", "gone"}]
    /\ \A i \in Ids : state[i] # "none" => rec[i] \in Recs
    /\ job \in [Dispatchers -> {NoJob} \cup Jobs]
    /\ reading \in [Readers -> {NoJob} \cup SUBSET Ids]
    /\ pc \in [Sessions -> {"idle", "drain", "ack"}]
    /\ keys \in [Sessions -> SUBSET Keys]
    /\ todo \in [Sessions -> SUBSET Ids]
    /\ count \in [Sessions -> 0 .. Cap]
    /\ changed \in [Sessions -> BOOLEAN]
    /\ handed \subseteq Ids
    /\ pushes \in [Sessions \X Ids -> Nat]
    /\ missed \in [Sessions \X Ids -> Nat]
    /\ faults \in 0 .. MaxFaults

Init ==
    /\ backend \in Backends
    /\ registered = FALSE
    /\ rec = [i \in Ids |-> NoRec]
    /\ state = [i \in Ids |-> "none"]
    /\ job = [p \in Dispatchers |-> NoJob]
    /\ reading = [r \in Readers |-> NoJob]
    /\ pc = [s \in Sessions |-> "idle"]
    /\ keys = [s \in Sessions |-> {}]
    /\ todo = [s \in Sessions |-> {}]
    /\ count = [s \in Sessions |-> 0]
    /\ changed = [s \in Sessions |-> TRUE]
    /\ handed = {}
    /\ pushes = [x \in Sessions \X Ids |-> 0]
    /\ missed = [x \in Sessions \X Ids |-> 0]
    /\ faults = 0

-----------------------------------------------------------------------------
(* The inbox.                                                              *)

Present(i) == state[i] \in {"unseen", "seen"}

\* _resolve_name_to_id, for producers and for poll_notifications
Key == IF registered THEN "uid" ELSE "name"

\* The inbox was written: every server will find another mtime.
Touch == changed' = [s \in Sessions |-> TRUE]

\* register_user
Register ==
    /\ ~registered
    /\ registered' = TRUE
    /\ UNCHANGED <<backend, rec, state, job, reading, changed, chanVars,
                   handed, pushes, missed, faults>>

\* A producer has resolved the recipient and calls enqueue.
Dispatch(p) ==
    /\ job[p] = NoJob
    /\ \E e \in Events :
          job' = [job EXCEPT ![p] = [at |-> "check", key |-> Key, event |-> e]]
    /\ UNCHANGED <<host, rec, state, reading, changed, chanVars, handed,
                   pushes, missed, faults>>

IsDuplicate(st, k, e) ==
    \E i \in Ids :
        st[i] \in {"unseen", "seen"} /\ rec[i].key = k /\ rec[i].event = e

\* Mutant of Superseded: only an earlier copy of the same event.
SupersededCopies(k, e) ==
    {i \in Ids : state[i] = "unseen" /\ rec[i].key = k /\ rec[i].event = e}

\* The unseen records a superseding enqueue deletes.
Superseded(k, e) ==
    {i \in Ids : /\ state[i] = "unseen" /\ rec[i].key = k
                 /\ KindOf[rec[i].event] = KindOf[e]}

\* The inbox once they are deleted.
Pruned(k, e) ==
    [i \in Ids |-> IF KindOf[e] \in Digests /\ i \in Superseded(k, e)
                   THEN "gone" ELSE state[i]]

\* The next record in append order, added to what st left.
Insert(p, st) ==
    \E i \in Ids :
        /\ state[i] = "none" /\ \A j \in Ids : j < i => state[j] # "none"
        /\ state' = [st EXCEPT ![i] = "unseen"]
        /\ rec' = [rec EXCEPT ![i] =
                      [key |-> job[p].key, event |-> job[p].event, by |-> p]]

Done(p) == job' = [job EXCEPT ![p] = NoJob]

\* Superseding, or any enqueue under the file backend's lock.  A duplicate
\* ends it: SQLite commits the deletion all the same, the file is not saved.
EnqueueAtOnce(p) ==
    LET k == job[p].key
        e == job[p].event
        st == Pruned(k, e)
    IN  /\ job[p] # NoJob /\ job[p].at = "check"
        /\ KindOf[e] \in Digests \/ backend = "yaml"
        /\ \/ ~IsDuplicate(st, k, e) /\ Insert(p, st) /\ Touch
           \/ /\ IsDuplicate(st, k, e)
              /\ state' = IF backend = "sqlite" THEN st ELSE state
              /\ UNCHANGED <<rec, changed>>
        /\ Done(p)
        /\ UNCHANGED <<host, reading, chanVars, handed, pushes, missed,
                       faults>>

\* SQLite, not superseding: the SELECT, outside any transaction ...
EnqueueCheck(p) ==
    /\ job[p] # NoJob /\ job[p].at = "check"
    /\ KindOf[job[p].event] \notin Digests /\ backend = "sqlite"
    /\ IF IsDuplicate(state, job[p].key, job[p].event)
       THEN Done(p) ELSE job' = [job EXCEPT ![p].at = "insert"]
    /\ UNCHANGED <<host, rec, state, reading, changed, chanVars, handed,
                   pushes, missed, faults>>

\* ... and the INSERT.
EnqueueInsert(p) ==
    /\ job[p] # NoJob /\ job[p].at = "insert"
    /\ Insert(p, state) /\ Touch
    /\ Done(p)
    /\ UNCHANGED <<host, reading, chanVars, handed, pushes, missed, faults>>

\* The database is busy or the process dies: the callers log it and go on.
EnqueueFails(p) ==
    /\ job[p] # NoJob
    /\ Done(p)
    /\ UNCHANGED <<host, rec, state, reading, changed, chanVars, handed,
                   pushes, missed, faults>>

Dispatcher(p) ==
    \/ Dispatch(p) \/ EnqueueAtOnce(p) \/ EnqueueCheck(p) \/ EnqueueInsert(p)
    \/ EnqueueFails(p)

MarkedSeen(S) ==
    [i \in Ids |-> IF i \in S /\ Present(i) THEN "seen" ELSE state[i]]

\* poll_inbox(mark_seen=True) of the unseen records or of all.
Selection(k, unseenOnly) ==
    {i \in Ids : /\ IF unseenOnly THEN state[i] = "unseen" ELSE Present(i)
                 /\ rec[i].key = k}

PollSelect(r) ==
    /\ backend = "sqlite" /\ reading[r] = NoJob
    /\ \E only \in BOOLEAN :
          /\ Selection(Key, only) # {}
          /\ reading' = [reading EXCEPT ![r] = Selection(Key, only)]
    /\ UNCHANGED <<host, rec, state, job, changed, chanVars, handed, pushes,
                   missed, faults>>

\* What was selected is returned, whatever has become of it since.
PollMark(r) ==
    /\ reading[r] # NoJob
    /\ state' = MarkedSeen(reading[r])
    /\ handed' = handed \cup reading[r]
    /\ reading' = [reading EXCEPT ![r] = NoJob]
    /\ Touch
    /\ UNCHANGED <<host, rec, job, chanVars, pushes, missed, faults>>

PollAtOnce(r) ==
    /\ backend = "yaml"
    /\ \E only \in BOOLEAN :
          /\ Selection(Key, only) # {}
          /\ state' = MarkedSeen(Selection(Key, only))
          /\ handed' = handed \cup Selection(Key, only)
    /\ Touch
    /\ UNCHANGED <<host, rec, job, reading, chanVars, pushes, missed, faults>>

Reader(r) == PollSelect(r) \/ PollMark(r) \/ PollAtOnce(r)

-----------------------------------------------------------------------------
(* The channel servers.                                                    *)

\* Mutant of RecipientKeys: the raw name only.
RecipientKeysRaw == {"name"}

RecipientKeys == IF registered THEN {"name", "uid"} ELSE {"name"}

\* should_drain: the file backend's first tick, or its file has changed
ShouldDrain(s) == backend = "yaml" => changed[s]

CapReached(s) == count[s] >= Cap

Goto(s, l) == pc' = [pc EXCEPT ![s] = l]

\* A tick begins a drain, of all the agent's keys or, when resolving them
\* fails, of the raw name.
StartDrain(s, ks) ==
    /\ pc[s] = "idle" /\ ShouldDrain(s)
    /\ changed' = [changed EXCEPT ![s] = backend = "sqlite"]
    /\ keys' = [keys EXCEPT ![s] = ks]
    /\ Goto(s, "drain")
    /\ UNCHANGED <<host, rec, state, job, reading, todo, count, handed, pushes,
                   missed>>

Tick(s) == StartDrain(s, RecipientKeys) /\ UNCHANGED faults

\* The next key, raw name first: its unseen records are read.
PollKey(s) ==
    /\ pc[s] = "drain" /\ todo[s] = {} /\ ~CapReached(s)
    /\ \E k \in keys[s] :
          /\ "name" \in keys[s] => k = "name"
          /\ keys' = [keys EXCEPT ![s] = @ \ {k}]
          /\ todo' = [todo EXCEPT ![s] = Selection(k, TRUE)]
    /\ UNCHANGED <<host, rec, state, job, reading, pc, count, changed, handed,
                   pushes, missed, faults>>

\* drain_once returns or raises; count belongs to the call.
Leave(s) ==
    /\ Goto(s, "idle")
    /\ keys' = [keys EXCEPT ![s] = {}]
    /\ todo' = [todo EXCEPT ![s] = {}]
    /\ count' = [count EXCEPT ![s] = 0]

\* Nothing left, or the burst cap is reached: what was read stays unseen.
EndDrain(s) ==
    /\ pc[s] = "drain"
    /\ CapReached(s) \/ (todo[s] = {} /\ keys[s] = {})
    /\ Leave(s)
    /\ UNCHANGED <<host, rec, state, job, reading, changed, handed, pushes,
                   missed, faults>>

\* The oldest of the records this server has read and not dealt with.
Oldest(s, i) == i \in todo[s] /\ \A j \in todo[s] : i <= j

Push(s) ==
    /\ pc[s] = "drain" /\ ~CapReached(s)
    /\ \E i \in Ids :
          /\ Oldest(s, i)
          /\ handed' = handed \cup {i}
          /\ pushes' = [pushes EXCEPT ![<<s, i>>] = @ + 1]
    /\ Goto(s, "ack")
    /\ UNCHANGED <<host, rec, state, job, reading, keys, todo, count, changed,
                   missed, faults>>

\* The server is done with i, acknowledged or not.
Dealt(s, i) ==
    /\ todo' = [todo EXCEPT ![s] = @ \ {i}]
    /\ count' = [count EXCEPT ![s] = @ + 1]
    /\ Goto(s, "drain")

\* Mutant of Acked: under the raw name whatever key the record came from.
AckedRaw(i) == IF rec[i].key = "name" THEN MarkedSeen({i}) ELSE state

\* ack: flips i if it is there and unseen
Acked(i) == MarkedSeen({i})

Ack(s) ==
    /\ pc[s] = "ack"
    /\ \E i \in Ids :
          /\ Oldest(s, i)
          /\ state' = Acked(i)
          /\ IF state[i] = "unseen" THEN Touch ELSE UNCHANGED changed
          /\ Dealt(s, i)
    /\ UNCHANGED <<host, rec, job, reading, keys, handed, pushes, missed,
                   faults>>

Drain(s) ==
    Tick(s) \/ PollKey(s) \/ Push(s) \/ Ack(s) \/ EndDrain(s)

-----------------------------------------------------------------------------
(* What goes wrong in a channel server.                                    *)

Fault == faults < MaxFaults /\ faults' = faults + 1

KeysUnresolved(s) == StartDrain(s, {"name"}) /\ Fault

\* Mutant of PushFails: the failure falls through to the ack.
PushFailsAcks(s) ==
    /\ Fault
    /\ pc[s] = "drain" /\ ~CapReached(s) /\ todo[s] # {}
    /\ Goto(s, "ack")
    /\ UNCHANGED <<host, rec, state, job, reading, keys, todo, count, changed,
                   handed, pushes, missed>>

\* send raises: the record stays unseen and the rest of the batch goes on.
PushFails(s) ==
    /\ Fault
    /\ pc[s] = "drain" /\ ~CapReached(s)
    /\ \E i \in Ids : Oldest(s, i) /\ todo' = [todo EXCEPT ![s] = @ \ {i}]
    /\ UNCHANGED <<host, rec, state, job, reading, pc, keys, count, changed,
                   handed, pushes, missed>>

\* The ack raises: the record was pushed, counts, and stays unseen.
AckFails(s) ==
    /\ Fault
    /\ pc[s] = "ack"
    /\ \E i \in Ids :
          /\ Oldest(s, i)
          /\ missed' = [missed EXCEPT ![<<s, i>>] = @ + 1]
          /\ Dealt(s, i)
    /\ UNCHANGED <<host, rec, state, job, reading, keys, changed, handed,
                   pushes>>

\* Reading a key fails, which ends the drain.
PollFails(s) ==
    /\ Fault
    /\ pc[s] = "drain" /\ todo[s] = {} /\ keys[s] # {} /\ ~CapReached(s)
    /\ Leave(s)
    /\ UNCHANGED <<host, rec, state, job, reading, changed, handed, pushes,
                   missed>>

\* The server dies and its host starts another, which has seen no mtime.
Restart(s) ==
    /\ Fault
    /\ pc[s] # "idle"
    /\ Leave(s)
    /\ changed' = [changed EXCEPT ![s] = TRUE]
    /\ missed' = [x \in Sessions \X Ids |->
                    IF x[1] = s /\ pc[s] = "ack" /\ Oldest(s, x[2])
                    THEN missed[x] + 1 ELSE missed[x]]
    /\ UNCHANGED <<host, rec, state, job, reading, handed, pushes>>

Faulty(s) ==
    \/ KeysUnresolved(s) \/ PushFails(s) \/ AckFails(s) \/ PollFails(s)
    \/ Restart(s)

Next ==
    \/ Register
    \/ \E p \in Dispatchers : Dispatcher(p)
    \/ \E r \in Readers : Reader(r)
    \/ \E s \in Sessions : Drain(s) \/ Faulty(s)

\* A channel server keeps ticking: _poll_loop survives every error.
Spec == Init /\ [][Next]_vars /\ \A s \in Sessions : WF_vars(Drain(s))

-----------------------------------------------------------------------------
(* Properties.                                                             *)

SameSlot(i, j) ==
    rec[i].key = rec[j].key /\ KindOf[rec[i].event] = KindOf[rec[j].event]

\* Nothing is lost: a record stops being pending only when the agent got it,
\* or when it is a digest and the inbox still holds one for the same key.
\* drain_once acknowledges "ONLY after a successful send".
NothingLost ==
    \A i \in Ids : state[i] \in {"seen", "gone"} =>
        \/ i \in handed
        \/ /\ state[i] = "gone" /\ KindOf[rec[i].event] \in Digests
           /\ \E j \in Ids : Present(j) /\ SameSlot(i, j)

\* "At most ONE pending digest per recipient survives", however many
\* dispatchers enqueue them at once.
OnePendingDigest ==
    \A i, j \in Ids :
        /\ state[i] = "unseen" /\ state[j] = "unseen" /\ SameSlot(i, j)
        /\ KindOf[rec[i].event] \in Digests
        => i = j

\* A dispatcher that emits an event again does not enqueue it again.  Two
\* records of one event come from two dispatchers that looked for a duplicate
\* at the same time.
NoReEmit ==
    \A i, j \in Ids :
        /\ Present(i) /\ Present(j) /\ i # j
        /\ rec[i].key = rec[j].key /\ rec[i].event = rec[j].event
        => rec[i].by # rec[j].by

\* A channel server pushes a record again only after failing to acknowledge
\* it: its turns in the terminal are not repeated by polls, supersedes or
\* other servers.
PushedOnce ==
    \A s \in Sessions, i \in Ids : pushes[<<s, i>>] <= 1 + missed[<<s, i>>]

\* Every pending record is eventually pushed, read or superseded, also one
\* keyed by the name of an agent that was registered since, and one behind a
\* burst cap or a failed push: it "is retried on the next drain".
Delivered ==
    \A i \in Ids : state[i] = "unseen" ~> (i \in handed \/ state[i] # "unseen")
=============================================================================
