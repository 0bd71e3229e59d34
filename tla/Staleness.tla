----------------------------- MODULE Staleness ------------------------------
(***************************************************************************)
(* Who is nudged about what: the detectors of untouched cards.  Pure       *)
(* functions of a board, [Cards -> card].  A card's idle time, the time    *)
(* since last_activity (created_at when it was never touched), is counted  *)
(* in classes: the thresholds are the only points where it matters.  A     *)
(* card without a readable timestamp is in the highest class.              *)
(***************************************************************************)
EXTENDS Naturals

CONSTANTS
    Cards,
    Owners,
    Unassigned,         \* the owner of a card without agent or assignee
    StatesOf,           \* what a touch may make of each card
    MaxIdle,            \* the highest class
    StaleActiveIdle,    \* SCITEX_TODO_STALE_ACTIVE_HOURS, 2 h
    BacklogIdle,        \* SCITEX_TODO_BACKLOG_NUDGE_HOURS, 24 h
    BlockedIdle         \* SCITEX_TODO_BLOCKED_NUDGE_HOURS, 24 h

ASSUME IdleAssumption ==
    /\ MaxIdle \in Nat
    /\ {StaleActiveIdle, BacklogIdle, BlockedIdle} \subseteq 0 .. MaxIdle - 1

STALE_ACTIVE_STATUSES == {"in_progress", "blocked"}
BACKLOG_STATUSES == {"deferred"}
\* compute, dependency, operator-decision and agent-wait are one blocker here;
\* "none" is a blocker somebody wrote down, "unset" no blocker at all
Blockers == {"unset", "none", "external"}
\* no park, one without a reason, and one with
Parks == {"no", "blank", "reason"}

CardStates ==
    [status : {"deferred", "in_progress", "blocked", "done"},
     blocker : Blockers, parked : Parks, owner : Owners \cup {Unassigned},
     idle : 0 .. MaxIdle]

Boards == [Cards -> CardStates]

ASSUME UnassignedAssumption == Unassigned \notin Owners
ASSUME TouchAssumption ==
    /\ StatesOf \in [Cards -> SUBSET CardStates]
    /\ \A i \in Cards : \A c \in StatesOf[i] : c.idle = 0

\* boards whose cards have all just been touched
FreshBoards ==
    {b \in [Cards -> UNION {StatesOf[i] : i \in Cards}] : \A i \in Cards : b[i] \in StatesOf[i]}

is_externally_blocked(c) == c.status = "blocked" /\ c.blocker = "external"

is_owner_actionable(c) ==
    c.status \in STALE_ACTIVE_STATUSES /\ ~is_externally_blocked(c)

\* _age_hours(c) > threshold
Untouched(c, threshold) == c.idle > threshold

detect_stale_active(board) ==
    {i \in Cards : /\ is_owner_actionable(board[i])
                   /\ Untouched(board[i], StaleActiveIdle)}

detect_blocked_external(board) ==
    {i \in Cards : /\ is_externally_blocked(board[i])
                   /\ Untouched(board[i], BlockedIdle)}

\* only a written reason parks a card
is_parked(c) == c.parked = "reason"

detect_pending_backlog(board) ==
    {i \in Cards : /\ board[i].status \in BACKLOG_STATUSES /\ ~is_parked(board[i])
                   /\ Untouched(board[i], BacklogIdle)}

\* the bucket of an owner
OwnedBy(board, ids, o) == {i \in ids : board[i].owner = o}
=============================================================================
