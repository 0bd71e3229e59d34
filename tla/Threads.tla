------------------------------ MODULE Threads -------------------------------
(***************************************************************************)
(* Direct messages between the operator and the agents: the sidecar file   *)
(* (_threads.py), the views of the chat page (_django/handlers/dm.py) and  *)
(* the page itself (chat.js, chat_diff.js).                                *)
(*                                                                         *)
(* A writer holds the sidecar's lock while it reads the file, changes the  *)
(* threads and replaces the file; the board server's readers take no lock  *)
(* and share a parse of the file, filed under the stat taken before the    *)
(* parse.  A request of the open thread marks it read and then reads it;   *)
(* the next one does not wait for its answer, and the operator may open    *)
(* another thread while it is under way.                                   *)
(*                                                                         *)
(* A thread is the operator's with one peer.  A message is its number, who *)
(* it is to and whether it is read.  The stat of the file is the number of *)
(* times it was replaced.  The file exists, and no threads.yaml is left to *)
(* migrate.  The agent list and its badges are left out.                   *)
(***************************************************************************)
EXTENDS Naturals, Sequences, FiniteSets

CONSTANTS
    Peers,
    Requests,        \* those of the page that can be in flight
    None,
    MaxMessages,     \* bound on the messages of a behaviour
    MaxOpens,        \* bound on the threads the operator opens
    MaxFaults        \* bound on failed writes, dispatches and requests

ASSUME NoneAssumption ==
    /\ None \notin Peers \cup Requests \cup {"sender"} /\ "sender" \notin Requests
    /\ "operator" \notin Peers
ASSUME BoundAssumption == MaxMessages \in Nat /\ MaxOpens \in Nat /\ MaxFaults \in Nat

VARIABLES
    threads, stat,   \* the sidecar file and its mtime and size
    lock,            \* .threads.json.lock: for whom it is held, and what is to be written
    inbox,           \* the messages dispatched to a pull-inbox
    parsed,          \* _READ_CACHE of the board server
    req,             \* what each request is doing
    page,            \* the open peer, the messages painted and those `state.rendered' names
    sent, opens, faults

store == <<threads, stat, lock, inbox>>
bounds == <<sent, opens, faults>>
vars == <<store, parsed, req, page, bounds>>

Operator == "operator"
Messages == [id : Nat, to : Peers \cup {Operator}, read : BOOLEAN]
Documents == [Peers -> Seq(Messages)]
IdsOf(thread) == [i \in DOMAIN thread |-> thread[i].id]
NoThreads == [p \in Peers |-> <<>>]
Free == [by |-> None, id |-> 0, new |-> NoThreads]
Idle == [phase |-> "idle", peer |-> None, stat |-> 0, answer |-> <<>>]

Phases == {"idle", "unread?", "unread", "flip", "flipping", "get?", "get", "answer"}
TypeOK ==
    /\ threads \in Documents /\ stat \in Nat /\ sent \in 0..MaxMessages
    /\ lock \in [by : {None, "sender"} \cup Requests, id : 0..sent, new : Documents]
    /\ lock.by = "sender" => lock.id > 0
    /\ inbox \subseteq 1..sent
    /\ parsed \in [stat : 0..stat, threads : Documents]
    /\ req \in [Requests -> [phase : Phases, peer : Peers \cup {None}, stat : 0..stat,
                            answer : Seq(Nat)]]
    /\ page \in [peer : Peers \cup {None}, painted : Seq(Nat), rendered : Seq(Nat)]
    /\ opens \in 0..MaxOpens /\ faults \in 0..MaxFaults

Init ==
    /\ threads = NoThreads /\ stat = 1 /\ lock = Free /\ inbox = {}
    /\ parsed = [stat |-> 0, threads |-> NoThreads]
    /\ req = [r \in Requests |-> Idle]
    /\ page = [peer |-> None, painted |-> <<>>, rendered |-> <<>>]
    /\ sent = 0 /\ opens = 0 /\ faults = 0

Faulty == faults < MaxFaults /\ faults' = faults + 1
Goes(r, phase) == req' = [req EXCEPT ![r].phase = phase]

-----------------------------------------------------------------------------
(* The writers.  A writer that fails or dies before the replacement leaves *)
(* the file as it was and the lock free.                                   *)

FromCache == parsed.threads               \* bug: a writer served by the readers' cache
_load_threads == threads

Unread(m) == m.to = Operator /\ ~m.read   \* _is_unread_for, of the operator
AnyUnread(thread) == \E i \in DOMAIN thread : Unread(thread[i])
Flipped(thread) == [i \in DOMAIN thread |-> [thread[i] EXCEPT !.read = @ \/ Unread(thread[i])]]

append_message(p, to) ==                  \* by the page or by an agent's process
    /\ lock = Free
    /\ sent < MaxMessages /\ sent' = sent + 1
    /\ LET m == [id |-> sent + 1, to |-> to, read |-> FALSE]
       IN lock' = [by |-> "sender", id |-> sent + 1,
                   new |-> [_load_threads EXCEPT ![p] = Append(@, m)]]
    /\ UNCHANGED <<threads, stat, inbox, parsed, req, page, opens, faults>>

Replace ==                                \* _save_threads_unlocked
    /\ threads' = lock.new
    /\ stat' = stat + 1
    /\ lock' = Free

Stored ==                                 \* then _dispatch_to_inbox, which swallows its failures
    /\ lock.by = "sender"
    /\ Replace
    /\ \/ inbox' = inbox \cup {lock.id} /\ UNCHANGED faults
       \/ Faulty /\ UNCHANGED inbox
    /\ UNCHANGED <<parsed, req, page, sent, opens>>

NotStored ==
    /\ lock.by = "sender"
    /\ Faulty
    /\ lock' = Free
    /\ UNCHANGED <<threads, stat, inbox, parsed, req, page, sent, opens>>

-----------------------------------------------------------------------------
(* dm_thread_view: mark_read, with a FAST NO from the readers' cache, and  *)
(* get_thread, from the cache again.                                       *)

Stat(r) ==
    /\ \/ req[r].phase = "unread?" /\ req' = [req EXCEPT ![r].phase = "unread", ![r].stat = stat]
       \/ req[r].phase = "get?" /\ req' = [req EXCEPT ![r].phase = "get", ![r].stat = stat]
    /\ UNCHANGED <<store, parsed, page, bounds>>

_load_threads_cached(r) ==                \* what it makes of the cache
    IF parsed.stat = req[r].stat THEN parsed ELSE [stat |-> req[r].stat, threads |-> threads]

FastNo(r) ==
    /\ req[r].phase = "unread"
    /\ parsed' = _load_threads_cached(r)
    /\ req' = [req EXCEPT ![r].stat = 0, ![r].phase =
                  IF AnyUnread(parsed'.threads[req[r].peer]) THEN "flip" ELSE "get?"]
    /\ UNCHANGED <<store, page, bounds>>

Flip(r) ==
    /\ req[r].phase = "flip"
    /\ lock = Free
    /\ IF AnyUnread(_load_threads[req[r].peer])
       THEN /\ lock' = [by |-> r, id |-> 0,
                        new |-> [_load_threads EXCEPT ![req[r].peer] = Flipped(@)]]
            /\ Goes(r, "flipping")
       ELSE Goes(r, "get?") /\ UNCHANGED lock
    /\ UNCHANGED <<threads, stat, inbox, parsed, page, bounds>>

FlipStored(r) ==
    /\ lock.by = r
    /\ Replace
    /\ Goes(r, "get?")
    /\ UNCHANGED <<inbox, parsed, page, bounds>>

get_thread(r) ==
    /\ req[r].phase = "get"
    /\ parsed' = _load_threads_cached(r)
    /\ req' = [req EXCEPT ![r].stat = 0, ![r].phase = "answer",
                          ![r].answer = IdsOf(parsed'.threads[req[r].peer])]
    /\ UNCHANGED <<store, page, bounds>>

Fails(r) ==                               \* a 500, or no answer
    /\ req[r].phase \in {"flipping", "answer"}
    /\ Faulty
    /\ req' = [req EXCEPT ![r] = Idle]
    /\ lock' = IF lock.by = r THEN Free ELSE lock
    /\ UNCHANGED <<threads, stat, inbox, parsed, page, sent, opens>>

-----------------------------------------------------------------------------
(* The page. *)

refreshThread(r) ==
    /\ page.peer # None /\ req[r].phase = "idle"
    /\ req' = [req EXCEPT ![r] = [Idle EXCEPT !.phase = "unread?", !.peer = page.peer]]
    /\ UNCHANGED <<store, parsed, page, bounds>>

StillPainted(p) ==                        \* bug: the rendered set outlives the pane it names
    [page EXCEPT !.peer = p, !.painted = <<>>]
Opened(p) == [peer |-> p, painted |-> <<>>, rendered |-> <<>>]

openThread(p) ==
    /\ opens < MaxOpens /\ opens' = opens + 1
    /\ page' = Opened(p)
    /\ UNCHANGED <<store, parsed, req, sent, faults>>

(* planRender and applyPlan: what the page is after an answer of `ids'.    *)
Prefix(s, t) == Len(s) <= Len(t) /\ \A i \in DOMAIN s : s[i] = t[i]
Painted(ids) ==
    [page EXCEPT !.rendered = ids,
                 !.painted = IF ids = page.rendered /\ ids # <<>> THEN @
                             ELSE IF ~Prefix(page.rendered, ids) THEN ids
                             ELSE IF page.rendered = <<>> THEN ids
                             ELSE @ \o SubSeq(ids, Len(page.rendered) + 1, Len(ids))]

AnyPeer(r) == TRUE                        \* bug: an answer of the thread left is painted
Wanted(r) == req[r].peer = page.peer

Arrive(r) ==
    /\ req[r].phase = "answer"
    /\ page' = IF Wanted(r) THEN Painted(req[r].answer) ELSE page
    /\ req' = [req EXCEPT ![r] = Idle]
    /\ UNCHANGED <<store, parsed, bounds>>

sendMessage ==
    /\ page.peer # None
    /\ append_message(page.peer, page.peer)

-----------------------------------------------------------------------------
Handle(r) ==
    \/ Stat(r) \/ FastNo(r) \/ Flip(r) \/ FlipStored(r) \/ get_thread(r) \/ Arrive(r)
Poll(r) == refreshThread(r) \/ Handle(r)

Next ==
    \/ sendMessage
    \/ \E p \in Peers : append_message(p, Operator) \/ openThread(p)
    \/ Stored \/ NotStored
    \/ \E r \in Requests : Poll(r) \/ Fails(r)

(* The page polls on a timer, requests are served, and a lock is given up. *)
Spec ==
    /\ Init /\ [][Next]_vars
    /\ WF_vars(Stored)
    /\ \A r \in Requests : WF_vars(Poll(r))

-----------------------------------------------------------------------------
(* A message that is in the file stays there, in its place, and one that   *)
(* is read stays read, whoever writes and whatever the readers have cached *)
(* (_threads.py "a stale read there would silently DROP a message").       *)
Keeps(s, t) ==
    /\ Len(s) <= Len(t)
    /\ \A i \in DOMAIN s : t[i] = s[i] \/ t[i] = [s[i] EXCEPT !.read = TRUE]
MessagesKept == [][\A p \in Peers : Keeps(threads[p], threads'[p])]_vars

(* The pane shows the beginning of the open thread and nothing else, for   *)
(* all the answers under way, late or of another thread (chat.js).         *)
PaneInOrder == page.peer # None => Prefix(page.painted, IdsOf(threads[page.peer]))

(* In the end the open thread is all on the pane, and read: a cached NO    *)
(* costs "at most one poll's delay, never data" (_threads.py).             *)
ThreadCatchesUp ==
    <>[](page.peer # None => LET t == threads[page.peer]
                             IN page.painted = IdsOf(t) /\ ~AnyUnread(t))
=============================================================================
