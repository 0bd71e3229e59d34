----------------------------- MODULE CardPeople -----------------------------
(***************************************************************************)
(* Who hears of a card: its owner, collaborators and subscribers, under    *)
(* the verbs that change them (reassign_task, reassign_all,                *)
(* set_collaborator, set_subscriber, set_edge), the events the verbs emit  *)
(* (_store_events, _events.emit), the roles an event reaches (_notify) and *)
(* the unblock drive: completing a card comments on every dependent that   *)
(* became runnable.                                                        *)
(*                                                                         *)
(* A verb writes the store in one locked step (StoreTxn) and then, with    *)
(* the lock released, works off what it owes: it loads the store again for *)
(* the drive, looks a comment up, appends it, loads the card an event is   *)
(* about, and enqueues.  Between any two of these steps other writers      *)
(* write, and the process may die.                                         *)
(*                                                                         *)
(* A card is what Runnable looks at and its people.  `agent' and           *)
(* `assignee' are set together by every verb here and are one field.       *)
(* Comments are the [unblocked by u] tokens among them.  Plug-ins run      *)
(* after the built-in handlers and are external.                           *)
(***************************************************************************)
EXTENDS Runnable, Integers

CONSTANTS
    People,
    Callers,      \* those of them who call verbs
    Nobody,       \* an event without an actor
    Writers,      \* the processes that call verbs
    Initial,      \* the boards to start from
    Waits,        \* <<kind, source, target>>: the edges callers set
    Calls,        \* <<verb, card>>: the calls they make
    Mutes,        \* <<person, event type>>: the users' notify settings
    Watches,
    MaxWrites,    \* bound on the writes of a behaviour
    MaxFaults     \* bound on its deaths and failed deliveries

EventTypes == {"completed", "status_changed", "reassigned", "commented"}
UsedStatuses == {"in_progress", "blocked", "done"}

Cards == [status : UsedStatuses, blocker : BOOLEAN,
          deps : SUBSET Ids, blocks : SUBSET Ids,
          agent : People, created_by : People,
          collaborators : SUBSET People, subscribers : SUBSET People]

PeopleAssumption ==
    /\ Nobody \notin People /\ Callers \subseteq People
    /\ Initial \subseteq [Ids -> Cards]
    /\ \A b \in Initial, i \in Ids : b[i] # NoCard
    /\ Waits \subseteq {"depends_on", "blocks"} \X Ids \X Ids
    /\ \A e \in Waits : e[2] # e[3]
    /\ Calls \subseteq {"complete_task", "resolve_task", "update_task", "reopen_task",
                        "reassign_task", "set_subscriber", "set_collaborator",
                        "comment_task"} \X Ids
    /\ Mutes \cup Watches \subseteq People \X EventTypes
    /\ MaxWrites \in Nat /\ MaxFaults \in Nat

VARIABLES
    board,     \* the tasks table
    tokens,    \* the unlockers each card's comments name
    proc,      \* what each writer still has to do
    writes,    \* writes so far
    faults,    \* deaths and failed deliveries so far
    \* For the properties only:
    freed,     \* <<u, i>>: completing u made i runnable, and so it still is
    aware,     \* who was told of a card since it was last freed
    past,      \* who handed a card on and did not ask to be left alone
    lost       \* the cards whose news a fault or a bulk rename swallowed

history == <<freed, aware, past, lost>>
vars == <<board, tokens, proc, writes, faults, history>>


NoEvent == [type |-> "none", card |-> NoCard, actor |-> Nobody]
Event(type, i, by) == [type |-> type, card |-> i, actor |-> by]
Events == [type : EventTypes, card : Ids, actor : People \cup {Nobody}]

\* at: load, check, comment are the drive's steps; resolve, send an
\* event's; member is the second write of set_collaborator.
\* left: dependents still to comment on; ev: the event at hand; tail: the
\* event after the drive, about the unlocker; to: recipients found.
Idle == [at |-> "idle", by |-> Nobody, left |-> {}, ev |-> NoEvent,
         tail |-> NoEvent, to |-> {}]
Procs == {Idle} \cup
    [at : {"load", "check", "comment", "resolve", "send", "member"},
     by : People \cup {Nobody}, left : SUBSET Ids,
     ev : Events \cup {NoEvent}, tail : Events \cup {NoEvent},
     to : SUBSET People]

TypeOK ==
    /\ board \in [Ids -> Cards]
    /\ tokens \in [Ids -> SUBSET Ids]
    /\ proc \in [Writers -> Procs]
    /\ writes \in 0 .. MaxWrites
    /\ faults \in 0 .. MaxFaults
    /\ freed \subseteq Ids \X Ids
    /\ aware \in [Ids -> SUBSET People]
    /\ past \in [Ids -> SUBSET People]
    /\ lost \subseteq Ids

Init ==
    /\ board \in Initial
    /\ tokens = [i \in Ids |-> {}]
    /\ proc = [w \in Writers |-> Idle]
    /\ writes = 0
    /\ faults = 0
    /\ freed = {}
    /\ aware = [i \in Ids |-> {}]
    /\ past = [i \in Ids |-> {}]
    /\ lost = {}

-----------------------------------------------------------------------------
(* Whom an event reaches.                                                  *)

Rules == [completed      |-> {"owner", "subscribers"},
          status_changed |-> {"subscribers"},
          reassigned     |-> {"owner"},
          commented      |-> {"owner", "collaborators", "subscribers"}]

card_role_members(c) == [owner         |-> {c.agent},
                         collaborators |-> c.collaborators,
                         subscribers   |-> c.subscribers]

Members(c) == {c.agent} \cup c.collaborators \cup c.subscribers

resolve_recipients(type, c) ==
    LET named == UNION {card_role_members(c)[r] : r \in Rules[type]}
    IN  {p \in named : <<p, type>> \notin Mutes}
            \cup {p \in Members(c) : <<p, type>> \in Watches}

-----------------------------------------------------------------------------
(* The writes.  Each is one locked read-modify-write.                      *)

\* Direct dependents: by their depends_on, or by the unlocker's blocks.
Dependents(b, u) == {i \in Ids : u \in b[i].deps \/ i \in b[u].blocks}

Valid(b) == \A i \in Ids : b[i].blocker => b[i].status = "blocked"

\* What completing u frees: cards that become runnable and are not yet
\* said to be unblocked by u.
NewlyFreed(b, u) ==
    {i \in RunnableTasks(b) \ RunnableTasks(board) : u \notin tokens[i]}

\* The store now holds b; by completed `done' and wrote on the cards `on'.
\* A card stays freed while it is runnable and waits on what freed it.
Store(b, done, by, on) ==
    LET new == {<<u, i>> : u \in done, i \in UNION {NewlyFreed(b, v) : v \in done}}
    IN  /\ writes < MaxWrites
        /\ Valid(b)
        /\ board' = b
        /\ writes' = writes + 1
        /\ freed' = {f \in freed \cup new : /\ f[2] \in RunnableTasks(b)
                                            /\ f[2] \in Dependents(b, f[1])}
        /\ aware' = [i \in Ids |->
                        IF \E u \in done : <<u, i>> \in new THEN {by}
                        ELSE IF i \in on THEN aware[i] \cup {by} ELSE aware[i]]

Free(w) == proc[w] = Idle
Becomes(w, p) == proc' = [proc EXCEPT ![w] = p]
\* The verb has an event to emit, or returns.
Emits(w, by, ev) ==
    Becomes(w, [Idle EXCEPT !.at = "resolve", !.by = by, !.ev = ev])
Drives(w, by, tail) ==
    Becomes(w, [Idle EXCEPT !.at = "load", !.by = by, !.tail = tail])
Returns == UNCHANGED proc
Quietly == UNCHANGED <<tokens, faults, past, lost>>

WithStatus(i, s) == [board EXCEPT ![i].status = s]

complete_task(w, i, by) ==
    /\ Free(w) /\ board[i].status # "done"
    /\ Store(WithStatus(i, "done"), {i}, by, {i})
    /\ Drives(w, by, Event("completed", i, by))
    /\ Quietly

resolve_task(w, i, by) ==
    /\ Free(w) /\ board[i].status # "done"
    /\ Store([board EXCEPT ![i].status = "done", ![i].blocker = FALSE], {i}, by, {i})
    /\ Drives(w, by, Event("status_changed", i, by))
    /\ Quietly

update_task(w, i, s, by) ==
    /\ Free(w) /\ board[i].status # s
    /\ Store(WithStatus(i, s), {i} \cap {j \in Ids : s = "done"}, by, {i})
    /\ IF s = "done" THEN Drives(w, by, Event("completed", i, Nobody))
                     ELSE Emits(w, by, Event("status_changed", i, Nobody))
    /\ Quietly

reopen_task(w, i) ==
    /\ Free(w)
    /\ Store([board EXCEPT ![i].status = "blocked", ![i].blocker = TRUE], {}, Nobody, {})
    /\ Returns
    /\ Quietly

\* Delegation keeps responsibility: the previous owner and the creator
\* stay subscribed.
Handed(c, new) ==
    [c EXCEPT !.agent = new,
              !.subscribers = @ \cup ({c.agent, c.created_by} \ {new})]

HandedOn(S) ==
    past' = [i \in Ids |-> IF i \notin S THEN past[i]
                           ELSE past[i] \cup {board[i].agent, board[i].created_by}]

reassign_task(w, i, new, by) ==
    /\ Free(w) /\ board[i].agent # new
    /\ Store([board EXCEPT ![i] = Handed(@, new)], {}, by, {i})
    /\ Emits(w, by, Event("reassigned", i, by))
    /\ HandedOn({i})
    /\ UNCHANGED <<tokens, faults, lost>>

\* The batch event names no card the dispatcher can load, so it reaches
\* nobody: telling the new owner is the caller's job.
reassign_all(w, old, new) ==
    LET moved == {i \in Ids : board[i].agent = old}
    IN  /\ Free(w) /\ old # new /\ moved # {}
        /\ Store([i \in Ids |-> IF i \in moved THEN Handed(board[i], new)
                                ELSE board[i]], {}, Nobody, {})
        /\ Returns
        /\ HandedOn(moved)
        /\ lost' = lost \cup moved
        /\ UNCHANGED <<tokens, faults>>

Joined(S, p, action) == IF action = "add" THEN S \cup {p} ELSE S \ {p}

Subscribe(i, p, action) ==
    Store([board EXCEPT ![i].subscribers = Joined(@, p, action)], {}, Nobody, {})

\* Dropping out is asked for here and nowhere else.
set_subscriber(w, i, p, action) ==
    /\ Free(w)
    /\ Subscribe(i, p, action)
    /\ past' = IF action = "add" THEN past ELSE [past EXCEPT ![i] = @ \ {p}]
    /\ Returns
    /\ UNCHANGED <<tokens, faults, lost>>

set_collaborator(w, i, p, action) ==
    /\ Free(w)
    /\ Store([board EXCEPT ![i].collaborators = Joined(@, p, action)], {}, Nobody, {})
    /\ IF action = "add"
       THEN Becomes(w, [Idle EXCEPT !.at = "member", !.to = {p},
                                    !.ev = Event("commented", i, Nobody)])
       ELSE Returns
    /\ Quietly

SubscribeCollaborator(w) ==
    /\ proc[w].at = "member"
    /\ \E p \in proc[w].to : Subscribe(proc[w].ev.card, p, "add")
    /\ Becomes(w, Idle)
    /\ Quietly

\* The owner of the waiting card is subscribed to the card it waits on.
set_edge(w, e, action) ==
    LET src == e[2]
        tgt == e[3]
        waiter == IF e[1] = "depends_on" THEN src ELSE tgt
        awaited == IF e[1] = "depends_on" THEN tgt ELSE src
        Edges(S) == IF action = "add" THEN S \cup {tgt} ELSE S \ {tgt}
        linked == IF e[1] = "depends_on"
                  THEN [board EXCEPT ![src].deps = Edges(@)]
                  ELSE [board EXCEPT ![src].blocks = Edges(@)]
    IN  /\ Free(w)
        /\ Store(IF action = "add"
                 THEN [linked EXCEPT ![awaited].subscribers =
                                            @ \cup {board[waiter].agent}]
                 ELSE linked, {}, Nobody, {})
        /\ Returns
        /\ Quietly

comment_task(w, i, by) ==
    /\ Free(w)
    /\ Store(board, {}, by, {i})
    /\ Emits(w, by, Event("commented", i, by))
    /\ Quietly

-----------------------------------------------------------------------------
(* The drive and the events, with the lock released.                       *)

\* Mutant of Unblocked: only the cards that name the unlocker themselves.
UnblockedByDeps(u) == {i \in RunnableTasks(board) : u \in board[i].deps}

\* _emit_unblock_for_dependents loads the store and keeps the dependents
\* that are runnable now.
Unblocked(u) == Dependents(board, u) \cap RunnableTasks(board)

LoadDependents(w) ==
    /\ proc[w].at = "load"
    /\ Becomes(w, [proc[w] EXCEPT !.at = "check", !.left = Unblocked(proc[w].tail.card)])
    /\ UNCHANGED <<board, tokens, writes, faults, history>>

\* Mutant of Told: any unblock comment will do.
ToldOfAny(i, u) == tokens[i] # {}

\* _comment_token_present
Told(i, u) == u \in tokens[i]

PassOver(w, i) ==
    /\ proc[w].at = "check" /\ i \in proc[w].left
    /\ Told(i, proc[w].tail.card)
    /\ Becomes(w, [proc[w] EXCEPT !.left = @ \ {i}])
    /\ UNCHANGED <<board, tokens, writes, faults, history>>

Pick(w, i) ==
    /\ proc[w].at = "check" /\ i \in proc[w].left
    /\ ~Told(i, proc[w].tail.card)
    /\ Becomes(w, [proc[w] EXCEPT !.at = "comment", !.left = @ \ {i},
                                  !.ev = Event("commented", i, proc[w].by)])
    /\ UNCHANGED <<board, tokens, writes, faults, history>>

AppendToken(w) ==
    LET i == proc[w].ev.card
    IN  /\ proc[w].at = "comment"
        /\ tokens' = [tokens EXCEPT ![i] = @ \cup {proc[w].tail.card}]
        /\ aware' = [aware EXCEPT ![i] = @ \cup {proc[w].by}]
        /\ Becomes(w, [proc[w] EXCEPT !.at = "resolve"])
        /\ UNCHANGED <<board, writes, faults, freed, past, lost>>

EndDrive(w) ==
    /\ proc[w].at = "check" /\ proc[w].left = {}
    /\ Becomes(w, IF proc[w].tail = NoEvent THEN Idle
                  ELSE [proc[w] EXCEPT !.at = "resolve", !.ev = proc[w].tail,
                                       !.tail = NoEvent])
    /\ UNCHANGED <<board, tokens, writes, faults, history>>

\* dispatch_notifications loads the card, finds the recipients and leaves
\* the actor out ...
Resolve(w) ==
    LET ev == proc[w].ev
    IN  /\ proc[w].at = "resolve"
        /\ Becomes(w, [proc[w] EXCEPT !.at = "send",
                        !.to = resolve_recipients(ev.type, board[ev.card])
                                    \ {ev.actor}])
        /\ UNCHANGED <<board, tokens, writes, faults, history>>

\* A comment's event belongs to a drive that goes on; the others are last.
Onward(p) == IF p.tail = NoEvent THEN Idle
             ELSE [p EXCEPT !.at = "check", !.ev = NoEvent, !.to = {}]

\* ... and enqueues the event for each of them.
Send(w) ==
    /\ proc[w].at = "send"
    /\ aware' = [aware EXCEPT ![proc[w].ev.card] = @ \cup proc[w].to]
    /\ Becomes(w, Onward(proc[w]))
    /\ UNCHANGED <<board, tokens, writes, faults, freed, past, lost>>

\* Every layer is fail-soft: an event that cannot be resolved or enqueued
\* is logged and given up.
DispatchFails(w) ==
    /\ faults < MaxFaults
    /\ proc[w].at \in {"resolve", "send"}
    /\ faults' = faults + 1
    /\ lost' = lost \cup {proc[w].ev.card}
    /\ Becomes(w, Onward(proc[w]))
    /\ UNCHANGED <<board, tokens, writes, freed, aware, past>>

\* The process is killed: what it still owed is owed by nobody.
Die(w) ==
    LET was == proc[w]
        owed == was.left \cup {e.card : e \in {was.ev, was.tail} \ {NoEvent}}
                    \cup {i \in Ids : <<was.tail.card, i>> \in freed}
    IN  /\ faults < MaxFaults
        /\ was # Idle
        /\ faults' = faults + 1
        /\ lost' = lost \cup owed
        /\ Becomes(w, Idle)
        /\ UNCHANGED <<board, tokens, writes, freed, aware, past>>

-----------------------------------------------------------------------------

Called(verb, i) == <<verb, i>> \in Calls

Verb(w) ==
    \/ \E i \in Ids, by \in Callers :
          \/ Called("complete_task", i) /\ complete_task(w, i, by)
          \/ Called("resolve_task", i) /\ resolve_task(w, i, by)
          \/ Called("comment_task", i) /\ comment_task(w, i, by)
          \/ /\ Called("update_task", i)
             /\ \E s \in UsedStatuses : update_task(w, i, s, by)
          \/ /\ Called("reassign_task", i)
             /\ \E new \in People : reassign_task(w, i, new, by)
    \/ \E i \in Ids : Called("reopen_task", i) /\ reopen_task(w, i)
    \/ \E old, new \in People : reassign_all(w, old, new)
    \/ \E i \in Ids, p \in People, action \in {"add", "remove"} :
          \/ Called("set_subscriber", i) /\ set_subscriber(w, i, p, action)
          \/ Called("set_collaborator", i) /\ set_collaborator(w, i, p, action)
    \/ \E e \in Waits, action \in {"add", "remove"} : set_edge(w, e, action)

Work(w) ==
    \/ SubscribeCollaborator(w)
    \/ LoadDependents(w)
    \/ \E i \in Ids : PassOver(w, i) \/ Pick(w, i)
    \/ AppendToken(w) \/ EndDrive(w)
    \/ Resolve(w) \/ Send(w) \/ DispatchFails(w) \/ Die(w)

Next == \E w \in Writers : Verb(w) \/ Work(w)

Spec == Init /\ [][Next]_vars

-----------------------------------------------------------------------------

Quiet == \A w \in Writers : proc[w] = Idle

\* Whoever owns a card that a completion made runnable is told about it,
\* whatever was reassigned, completed, reopened or commented on meanwhile:
\* once no writer has anything left to do, the owner of every such card
\* was the one who did it or has a notification about it (or muted the
\* unblock comment, or the handover if there was one in between).
\* The drive reads the store after its own write, so of two completions
\* that free a card together at least one sees it runnable; and an event
\* is resolved when it is dispatched, so a card handed over in between
\* reaches its new owner.
FreedReachesOwner ==
    Quiet => \A f \in freed :
        \/ f[2] \in lost
        \/ board[f[2]].agent \in aware[f[2]]
        \/ \E type \in {"commented", "reassigned"} : <<board[f[2]].agent, type>> \in Mutes

\* "Dropping out is an explicit set_subscriber remove, never a side effect
\* of handing off" (reassign_task): whoever handed a card on, and whoever
\* created it, still hears of its completion.
DelegatorHears ==
    \A i \in Ids : \A p \in past[i] :
        \/ p \in resolve_recipients("completed", board[i])
        \/ <<p, "completed">> \in Mutes

\* A completion reaches those ahead of the card and those behind it.
RightPeopleHear == FreedReachesOwner /\ DelegatorHears
=============================================================================
