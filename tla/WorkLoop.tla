------------------------------ MODULE WorkLoop ------------------------------
(***************************************************************************)
(* An agent's working day on the board: cards are started, kept, parked,   *)
(* dated, scored and handed over while time passes, and the views the      *)
(* agent works from are computed on what is there:                         *)
(*   triage     which deferred cards are offered, which are proposed for   *)
(*              cancellation (_backlog_triage.py);                         *)
(*   may_stop   the work that keeps the agent from stopping, beside the    *)
(*              idle guard and the nudges, which read Staleness;           *)
(*   is_overdue which card has missed a deadline (_deadlines.py);          *)
(*   rank       the dispatch order rescore_task leaves behind;             *)
(*   next       what the agent picks up, by the priorities the board's     *)
(*              drags leave behind (_next.py).                             *)
(*                                                                         *)
(* The clock runs in half days: a deadline with a time falls at noon, one  *)
(* without is its day's midnight.  Cards are numbers, the order of ids.    *)
(* The WIP gate, edges and the unread inbox may_stop also lists are left   *)
(* out; last_triaged_at is written by no code, so nothing is in cooldown.  *)
(* Deadlines are the list `deadlines', which the validator does not        *)
(* compare with `scheduled'.  Priorities come from drags only.             *)
(***************************************************************************)
EXTENDS Integers, FiniteSets, FiniteSetsExt

CONSTANTS
    Cards,
    Agents,
    Habits,         \* what callers do to each card, chosen once: facets
    Entries,        \* deadline entries callers set
    Scores,         \* <<urgency, importance>> pairs callers set
    Horizon,        \* SCITEX_TODO_DEFERRED_EXPIRY_DAYS
    MaxIdle, StaleActiveIdle,
    NoCard, NoUndo

\* The age of a card is followed where callers let it grow old.
Facets ==
    {"ages", "agents", "waits", "dates", "parks", "axes", "deletes", "web", "drags"}

\* A plain entry has no period.  left: half days until it falls.
EarliestLeft == -3
DeadlineEntries == [timed : BOOLEAN, period : Nat, left : Int]

S == INSTANCE Staleness WITH
        Owners <- Agents, Unassigned <- NoCard, BacklogIdle <- StaleActiveIdle,
        BlockedIdle <- StaleActiveIdle, StatesOf <- [i \in Cards |-> {}]

VARIABLES
    habit,      \* the facets callers use in this run
    board,      \* the tasks table
    half,       \* 0 in the morning, 1 in the afternoon
    undo,       \* the payload of the last delete_task
    restored,   \* for the properties: a card was restored since the last rescore
    dragged     \* for the properties: <<i, j>>: the last drag put i before j,
                \* and neither was restored since

vars == <<habit, board, half, undo, restored, dragged>>

\* since: the age of deferred_at, of created_at while there is none.
\* axes is empty or holds one pair; first: when the card was first scored
\* among the others, 0 before; rank and priority are 0 when there is none.
CardRecords ==
    [status : {"deferred", "in_progress", "blocked", "done", "cancelled"},
     deleted : BOOLEAN,
     blocker : S!Blockers, parked : BOOLEAN, since : 0 .. Horizon,
     idle : 0 .. MaxIdle, agent : Agents, assignee : Agents,
     deadlines : SUBSET DeadlineEntries, scheduled : {"no", "ahead", "reached"},
     axes : SUBSET Scores, first : Nat, rank : Nat, priority : Nat]

WorkAssumption ==
    /\ Cards \subseteq Nat /\ IsFiniteSet(Cards) /\ Agents # {}
    /\ Habits \subseteq [Cards -> SUBSET Facets]
    /\ Entries \subseteq
          {e \in DeadlineEntries : e.left >= 0 /\ (e.period > 0 => e.left < e.period)}
    /\ Scores \subseteq (1 .. 5) \X (1 .. 5)
    /\ Horizon \in Nat \ {0} /\ MaxIdle \in Nat
    /\ NoCard \notin CardRecords

TypeOK ==
    /\ habit \in Habits
    /\ board \in [Cards -> {NoCard} \cup CardRecords]
    /\ half \in {0, 1}
    /\ undo = NoUndo \/ undo \in [id : Cards, card : CardRecords]
    /\ restored \in BOOLEAN
    /\ dragged \subseteq Cards \X Cards

Init ==
    /\ habit \in Habits
    /\ board = [i \in Cards |-> NoCard]
    /\ half = 0
    /\ undo = NoUndo
    /\ restored = FALSE
    /\ dragged = {}

Known == {i \in Cards : board[i] # NoCard}
Live == {i \in Known : ~board[i].deleted}
Uses(i, facet) == facet \in habit[i]

-----------------------------------------------------------------------------
(* The views.                                                              *)

\* Mutant of DeadlineInForce: the latest entry counts.
DeadlineLatest(c) == CHOOSE e \in c.deadlines : \A f \in c.deadlines : f.left <= e.left

\* The entry that decides: the earliest.  A repeater stands for its next
\* occurrence, which is never past.
DeadlineInForce(c) == CHOOSE e \in c.deadlines : \A f \in c.deadlines : e.left <= f.left

\* A deadline without a time is missed once its whole day is over.
Missed(e) == IF e.timed THEN e.left < 0 ELSE (half + e.left) \div 2 < 0

is_overdue(c) ==
    /\ c.status \notin {"done", "failed", "cancelled", "goal"}
    /\ c.deadlines # {}
    /\ Missed(DeadlineInForce(c))

is_expired(c) == c.status = "deferred" /\ ~c.parked /\ c.since >= Horizon

\* The two lists triage puts before an agent: cards it may draw, and cards it
\* proposes to cancel.  Neither looks for a tombstone, nor does next below.
candidates(a) ==
    {i \in Known : LET c == board[i]
                  IN  c.status = "deferred" /\ c.agent = a /\ ~c.parked /\ ~is_expired(c)}
expired(a) == {i \in Known : board[i].agent = a /\ is_expired(board[i])}
triage_cmd(a) == [drawn |-> candidates(a), expired |-> expired(a)]

\* The values each field may have, and whether only overdue cards are wanted.
_match(c, wanted) ==
    /\ ~c.deleted
    /\ c.agent \in wanted.agents /\ c.assignee \in wanted.assignees
    /\ c.status \in wanted.statuses
    /\ wanted.overdue => is_overdue(c)
list_tasks(wanted) == {i \in Known : _match(board[i], wanted)}

\* list --overdue, and list --agent a --status in_progress
OpenStatuses == {"deferred", "in_progress", "blocked"}
Overdue == [agents |-> Agents, assignees |-> Agents, statuses |-> OpenStatuses, overdue |-> TRUE]
AtWork(a) == [agents |-> {a}, assignees |-> Agents, statuses |-> {"in_progress"}, overdue |-> FALSE]

\* _UNGATED_BLOCKERS
Ungated(c) == c.blocker \in {"unset", "none"}

Owns(a, c) == a \in {c.agent, c.assignee}

\* The cards in the items of may_stop(a).
MayStopItems(a) ==
    {i \in Live :
        LET c == board[i]
        IN  /\ Owns(a, c) /\ c.status \in {"in_progress", "blocked", "deferred"}
            /\ \/ c.status = "in_progress"
               \/ c.status = "blocked" /\ Ungated(c)
               \/ c.status = "deferred" /\ c.scheduled = "reached"
               \/ is_overdue(c)}

\* Mutant of _is_runnable: only the assignee picks a card up.
_is_runnable_assigned(a, c) ==
    c.status \in {"deferred", "in_progress"} /\ c.blocker = "unset" /\ c.assignee = a

\* Parked and scheduled cards are handed out too.
_is_runnable(a, c) ==
    c.status \in {"deferred", "in_progress"} /\ c.blocker = "unset" /\ Owns(a, c)

\* Cards without a priority come last; among equals the latest touched does,
\* which is any of them here.
_sort_key(i, j) == board[i].priority # 0 /\ (board[j].priority = 0 \/ board[i].priority < board[j].priority)

\* The cards next may hand to a.
next_task(a) ==
    LET runnable == {i \in Known : _is_runnable(a, board[i])}
    IN  {i \in runnable : \A j \in runnable : ~_sort_key(j, i)}

\* What detect_stale_active holds against a; the idle guard stops a for
\* the cards in progress among them.
HeldAgainst(a) ==
    {i \in Live : /\ S!is_owner_actionable(board[i])
                  /\ S!Untouched(board[i], StaleActiveIdle)
                  /\ board[i].agent = a}

-----------------------------------------------------------------------------
(* The rank engine.                                                        *)

HIGH_THRESHOLD == 3
UNRANKED_STATUSES == {"done", "cancelled", "failed"}

Urgency(c) == (CHOOSE s \in c.axes : TRUE)[1]
Importance(c) == (CHOOSE s \in c.axes : TRUE)[2]
Score(c) == 2 * Importance(c) + Urgency(c)
High(c) == Importance(c) >= HIGH_THRESHOLD

\* _order_key: i is dispatched before j.
Before(b, i, j) ==
    \/ High(b[i]) /\ ~High(b[j])
    \/ /\ High(b[i]) = High(b[j])
       /\ \/ Score(b[i]) > Score(b[j])
          \/ /\ Score(b[i]) = Score(b[j])
             /\ \/ b[i].first < b[j].first
                \/ b[i].first = b[j].first /\ i < j

Ranked(b) ==
    {i \in Cards : /\ b[i] # NoCard /\ b[i].axes # {}
                   /\ b[i].status \notin UNRANKED_STATUSES}

Position(b, i) == Cardinality({j \in Ranked(b) : Before(b, j, i)}) + 1

\* Mutant of recompute_ranks: ranks of the others are left to themselves.
recompute_ranks_of_scored(b) ==
    [i \in Cards |-> IF i \in Ranked(b) /\ b[i].rank = 0
                     THEN [b[i] EXCEPT !.rank = Position(b, i)] ELSE b[i]]

\* Ranks 1..N over the scored open cards; every other rank is removed.
recompute_ranks(b) ==
    [i \in Cards |-> IF b[i] = NoCard THEN NoCard
                     ELSE [b[i] EXCEPT !.rank = IF i \in Ranked(b) THEN Position(b, i) ELSE 0]]

-----------------------------------------------------------------------------
(* The verbs.  A rejected document is not a step.                          *)

Valid(c) == c.blocker # "unset" => c.status = "blocked"

Put(i, c) ==
    /\ Valid(c)
    /\ board' = [board EXCEPT ![i] = c]
    /\ UNCHANGED <<habit, half, undo, restored, dragged>>

UsedStatuses(i) ==
    {"deferred", "in_progress"} \cup IF Uses(i, "waits") THEN {"blocked"} ELSE {}

\* Without the facet, one agent stands for all.
Owners(i) == IF Uses(i, "agents") THEN Agents ELSE {CHOOSE a \in Agents : TRUE}

add_task(i) ==
    /\ board[i] = NoCard /\ habit[i] # {}
    /\ \E st \in UsedStatuses(i), a \in Owners(i) :
          Put(i, [status |-> st, deleted |-> FALSE, blocker |-> "unset",
                  parked |-> FALSE, since |-> 0, idle |-> 0, agent |-> a,
                  assignee |-> a, deadlines |-> {}, scheduled |-> "no",
                  axes |-> {}, first |-> 0, rank |-> 0, priority |-> 0])

\* Mutant of _stamp_deferred_at: keeping a card deferred stamps it again.
stamp_again(c, prior) == IF c.status = "deferred" THEN [c EXCEPT !.since = 0] ELSE c

\* Only the entry into the backlog stamps deferred_at.
_stamp_deferred_at(c, prior) ==
    IF c.status = "deferred" /\ prior # "deferred" THEN [c EXCEPT !.since = 0] ELSE c

\* update_task writes the fields it was given and touches the card.
Update(i, c) ==
    /\ i \in Live
    /\ Put(i, _stamp_deferred_at([c EXCEPT !.idle = 0], board[i].status))

\* update_task with a status, keeping a card deferred included
SetStatus(i) ==
    \E st \in UsedStatuses(i) \cup {"done", "cancelled"}, bl \in S!Blockers :
        Update(i, [board[i] EXCEPT !.status = st, !.blocker = bl])
SetParked(i) ==
    Uses(i, "parks") /\ \E p \in BOOLEAN : Update(i, [board[i] EXCEPT !.parked = p])
SetDeadlines(i) ==
    /\ Uses(i, "dates")
    /\ \E es \in SUBSET Entries :
          /\ Cardinality(es) <= 2
          /\ \A e \in es : ~e.timed => (half + e.left) % 2 = 0
          /\ \A e \in es : e.timed => (half + e.left) % 2 = 1
          /\ Update(i, [board[i] EXCEPT !.deadlines = es])
SetScheduled(i) ==
    /\ Uses(i, "dates")
    /\ \E at \in {"no", "ahead"} : Update(i, [board[i] EXCEPT !.scheduled = at])
\* update_task(agent=...) leaves the assignee.
SetAgent(i) ==
    /\ Uses(i, "agents")
    /\ \E a \in Agents : Update(i, [board[i] EXCEPT !.agent = a])

comment_task(i) == i \in Live /\ Put(i, [board[i] EXCEPT !.idle = 0])

reassign_task(i) ==
    /\ Uses(i, "agents") /\ i \in Live
    /\ \E a \in Agents :
          Put(i, [board[i] EXCEPT !.agent = a, !.assignee = a, !.idle = 0])

\* Neither completing nor reopening a card touches last_activity.
complete_task(i) ==
    /\ i \in Live /\ board[i].status # "done"
    /\ Put(i, [board[i] EXCEPT !.status = "done"])

reopen_task(i) ==
    /\ Uses(i, "waits") /\ i \in Live
    /\ Put(i, [board[i] EXCEPT !.status = "blocked", !.blocker = "external"])

\* The board's archive and Undo do not go through update_task: a card enters
\* the backlog with the age it has.
handle_archive(i) ==
    /\ Uses(i, "web") /\ i \in Known
    /\ Put(i, [board[i] EXCEPT !.status = "deferred"])

handle_reopen(i) ==
    /\ Uses(i, "web") /\ i \in Known
    /\ \E st \in UsedStatuses(i) :
          Put(i, [board[i] EXCEPT !.status = st,
                                  !.blocker = IF st = "blocked" THEN "external" ELSE "unset"])

delete_task(i) ==
    /\ Uses(i, "deletes") /\ i \in Live
    /\ LET c == [board[i] EXCEPT !.status = "cancelled", !.deleted = TRUE, !.idle = 0]
       IN  Valid(c) /\ board' = [board EXCEPT ![i] = c]
    /\ undo' = [id |-> i, card |-> board[i]]
    /\ UNCHANGED <<habit, half, restored, dragged>>

\* close: a comment, then the status.  The validator refuses the status while
\* a blocker is named, and the comment stays.
close_cmd(i) ==
    /\ i \in Live
    /\ LET closed == [board[i] EXCEPT !.status = "cancelled", !.idle = 0]
       IN  Put(i, IF Valid(closed) THEN closed ELSE [board[i] EXCEPT !.idle = 0])

\* The row is what it was, its rank and priority included.
restore_task(i) ==
    /\ undo # NoUndo /\ undo.id = i /\ i \notin Live
    /\ board' = [board EXCEPT ![i] = undo.card]
    /\ restored' = TRUE
    /\ dragged' = {p \in dragged : p[1] # i /\ p[2] # i}
    /\ UNCHANGED <<habit, half, undo>>

\* scored_at is the second of the first score: the latest there is, or one
\* more.
Scored(i, c) ==
    IF c.first > 0 THEN {c.first}
    ELSE {n \in 1 .. Cardinality(Cards) :
             /\ \A j \in Known : board[j].first <= n
             /\ n > 1 => \E j \in Known : board[j].first >= n - 1}

rescore_task(i) ==
    /\ Uses(i, "axes") /\ i \in Live
    /\ \E s \in Scores, at \in Scored(i, board[i]) :
          board' = recompute_ranks(
                      [board EXCEPT ![i] = [@ EXCEPT !.axes = {s}, !.first = at, !.idle = 0]])
    /\ restored' = FALSE
    /\ UNCHANGED <<habit, half, undo, dragged>>

Orders == {o \in UNION {[1 .. n -> Cards] : n \in 1 .. Cardinality(Cards)} :
             \A m, n \in DOMAIN o : m # n => o[m] # o[n]}

Places(order, i) == {n \in DOMAIN order : order[n] = i}

\* Mutant of Prioritised: a card that has a priority keeps it.
PrioritisedOnce(order, i) ==
    IF board[i].priority # 0 THEN board[i].priority ELSE Max({0} \cup Places(order, i))

\* The place in the order; a card outside it keeps what it has, and may tie.
Prioritised(order, i) ==
    IF Places(order, i) # {} THEN Max(Places(order, i)) ELSE board[i].priority

\* A drag on the board.  Unknown ids are skipped; nothing is touched.
handle_priority ==
    \E order \in Orders :
        /\ \A n \in DOMAIN order : Uses(order[n], "drags")
        /\ board' = [i \in Cards |->
                       IF i \notin Known THEN NoCard
                       ELSE [board[i] EXCEPT !.priority = Prioritised(order, i)]]
        /\ dragged' = {p \in Known \X Known :
                          \E m, n \in DOMAIN order :
                              m < n /\ order[m] = p[1] /\ order[n] = p[2]}
        /\ UNCHANGED <<habit, half, undo, restored>>

Verb ==
    \E i \in Cards :
        \/ add_task(i) \/ SetStatus(i) \/ SetParked(i) \/ SetDeadlines(i)
        \/ SetScheduled(i) \/ SetAgent(i) \/ comment_task(i) \/ reassign_task(i)
        \/ complete_task(i) \/ reopen_task(i) \/ handle_archive(i)
        \/ handle_reopen(i) \/ close_cmd(i) \/ delete_task(i) \/ restore_task(i) \/ rescore_task(i)

-----------------------------------------------------------------------------
(* Half a day goes by.                                                     *)

UpTo(limit, n) == IF n < limit THEN n + 1 ELSE limit

\* Repeater.next_occurrence rolls on as soon as its time is past.
Later(e) ==
    IF e.period > 0 THEN [e EXCEPT !.left = IF @ = 0 THEN e.period - 1 ELSE @ - 1]
    ELSE [e EXCEPT !.left = IF @ > EarliestLeft THEN @ - 1 ELSE EarliestLeft]

Aged(i, c, reached) ==
    IF ~Uses(i, "ages") THEN c
    ELSE [c EXCEPT !.since = UpTo(Horizon, @), !.idle = UpTo(MaxIdle, @),
                   !.deadlines = {Later(e) : e \in @},
                   !.scheduled = IF reached THEN "reached" ELSE @]

Elapse ==
    /\ half' = 1 - half
    /\ \E reached \in SUBSET {i \in Known : board[i].scheduled = "ahead"} :
          board' = [i \in Cards |-> IF i \in Known THEN Aged(i, board[i], i \in reached) ELSE NoCard]
    /\ undo' = IF undo = NoUndo THEN NoUndo ELSE [undo EXCEPT !.card = Aged(undo.id, @, FALSE)]
    /\ UNCHANGED <<habit, restored, dragged>>

Next == Verb \/ handle_priority \/ Elapse

\* Time passes.  Nobody has to do anything about the cards.
Spec == Init /\ [][Next]_vars /\ WF_vars(Elapse)

-----------------------------------------------------------------------------
(* Properties.                                                             *)

\* What the nudges and the idle guard hold against an agent is in its
\* may_stop items: the two lists of blockers and the two readings of who owns
\* a card, written apart, do not let an agent stop with work it is then
\* nudged about.
HeldIsListed ==
    \A a \in Agents :
        /\ HeldAgainst(a) \subseteq MayStopItems(a)
        /\ \A i \in HeldAgainst(a) : board[i].status = "in_progress" =>
              _is_runnable(a, board[i]) /\ i \in list_tasks(AtWork(a))

InBacklog(i) ==
    /\ Uses(i, "ages") /\ i \in Live
    /\ board[i].status = "deferred" /\ ~board[i].parked

\* The anti-rot invariant of _backlog_triage: a card kept in the backlog,
\* however often it is deferred again, commented on, handed over or archived,
\* comes up for cancellation.
KeptIsDecided ==
    \A i \in Cards :
        InBacklog(i) ~> ~InBacklog(i) \/ i \in triage_cmd(board[i].agent).expired

\* A deadline of an open card has passed.
Late(i) ==
    /\ i \in Live /\ board[i].status \notin {"done", "cancelled"}
    /\ \E e \in board[i].deadlines : e.left < 0

\* A missed deadline becomes visible as overdue, whatever other deadlines
\* the card has, unless somebody changes the card's deadlines or closes it.
DeadlineBites ==
    \A i \in Cards : Late(i) ~> ~Late(i) \/ i \in list_tasks(Overdue)

\* The ranks of open cards are an order, and it is the one of their axes:
\* the cards that leave it, come back from done or blocked, and are scored
\* for the first time do not upset it.  A restored card brings the rank it
\* had; the next rescore puts that right.
RanksAreOrder ==
    ~restored =>
        \A i, j \in {k \in Ranked(board) : board[k].rank > 0} :
            i # j => (board[i].rank < board[j].rank <=> Before(board, i, j))

\* Of the cards of the last drag, next hands an agent the one dragged highest
\* of those it can pick up, whatever became of the others; a restored card
\* brings the priority it had.
DragDecides ==
    \A a \in Agents, p \in dragged :
        _is_runnable(a, board[p[1]]) => p[2] \notin next_task(a)

\* A card in the backlog comes up in one list of one agent, whoever hands it
\* over and however old it is.
TriagedOnce ==
    \A i \in Known : board[i].status = "deferred" /\ ~board[i].parked =>
        Cardinality({l \in Agents \X {"drawn", "expired"} :
                        i \in triage_cmd(l[1])[l[2]]}) = 1

\* What an agent is given to work on: nothing it is held to is missing from
\* its lists, and they come in the order of the axes and of the drags.
WorkIsInOrder == HeldIsListed /\ TriagedOnce /\ RanksAreOrder /\ DragDecides
=============================================================================
