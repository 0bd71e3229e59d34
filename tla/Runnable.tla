------------------------------ MODULE Runnable ------------------------------
(***************************************************************************)
(* The dispatcher's view of the board: which cards an agent may pick up    *)
(* now (runnable_tasks) and why a card is held back (blocked_tasks).       *)
(* Pure functions of a board, [Ids -> card or NoCard].                     *)
(***************************************************************************)
CONSTANTS Ids, NoCard

RUNNABLE_STATUSES == {"deferred", "in_progress"}
RESOLVED_STATUSES == {"done", "goal"}

Known(b) == {i \in Ids : b[i] # NoCard}

\* status_by_id knows the card, and its status does not resolve it.  An
\* upstream id the board does not have holds nobody back.
Unresolved(b, i) == i \in Known(b) /\ b[i].status \notin RESOLVED_STATUSES

UnresolvedDeps(b, i) == {u \in b[i].deps : Unresolved(b, u)}
\* blocks_into: the cards that list i under `blocks'
UnresolvedBlocks(b, i) ==
    {u \in Known(b) : i \in b[u].blocks /\ Unresolved(b, u)}

PassesBaseFilter(c) == c.status \in RUNNABLE_STATUSES /\ ~c.blocker

DepsSatisfied(b, i) == UnresolvedDeps(b, i) = {} /\ UnresolvedBlocks(b, i) = {}

RunnableTasks(b) ==
    {i \in Known(b) : PassesBaseFilter(b[i]) /\ DepsSatisfied(b, i)}

\* _diagnose_blocked; "none" is a card that is not blocked
DiagnoseBlocked(b, i) ==
    IF b[i].status = "blocked"
    THEN IF b[i].blocker THEN "explicit-blocker" ELSE "manual-block"
    ELSE IF UnresolvedDeps(b, i) # {} THEN "depends-on"
    ELSE IF UnresolvedBlocks(b, i) # {} THEN "reverse-blocks"
    ELSE "none"

BlockedTasks(b) ==
    {i \in Known(b) : /\ b[i].status \in RUNNABLE_STATUSES \cup {"blocked"}
                      /\ DiagnoseBlocked(b, i) # "none"}
=============================================================================
