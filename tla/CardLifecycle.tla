--------------------------- MODULE CardLifecycle ---------------------------
(***************************************************************************)
(* The life of cards on one board: created, worked, blocked, completed,    *)
(* reopened, deleted and brought back, by the store verbs (Python, CLI,    *)
(* MCP) and by the web board's POST handlers, which share the table.       *)
(*                                                                         *)
(* Each verb is one locked read-modify-write, so one step here (StoreTxn   *)
(* shows that such writes take effect one after the other).  A verb that   *)
(* raises, or whose document _validate_tasks rejects, changes nothing and  *)
(* is not a step.                                                          *)
(*                                                                         *)
(* Of a card we keep what these verbs decide on: its status, whether it    *)
(* names a blocker, the stamps in _log_meta and its edges.  `parent' is    *)
(* scrubbed the way edges are and is left out, and so are titles, people,  *)
(* comments, timestamps and the WIP gate, which only refuses additions.    *)
(***************************************************************************)
EXTENDS Runnable

CONSTANTS
    Statuses,    \* the status values callers use
    EdgeKinds,   \* for each id, the edge fields they set on it
    HelpIds,     \* ids that are some agent's help card
    Surfaces,    \* who acts: "store" verbs, "web" handlers
    NoUndo,      \* no delete to undo
    NoBoard      \* somebody wrote since the delete

AllStatuses ==
    {"goal", "in_progress", "blocked", "done", "deferred", "failed", "cancelled"}
Stamps == {"completed", "closed", "deleted"}

\* meta: the stamps in _log_meta; the mapping is absent when there is none
Cards == [status : AllStatuses, blocker : BOOLEAN, meta : SUBSET Stamps,
          deps : SUBSET Ids, blocks : SUBSET Ids]

Boards == [Ids -> {NoCard} \cup Cards]

ASSUME StatusAssumption == Statuses \subseteq AllStatuses
ASSUME KindAssumption ==
    EdgeKinds \in [Ids -> SUBSET {"depends_on", "blocks"}]
ASSUME SurfaceAssumption == Surfaces \subseteq {"store", "web"}
ASSUME HelpAssumption == HelpIds \subseteq Ids
ASSUME NoCardAssumption == \A c \in Cards : c # NoCard

VARIABLES
    board,    \* the tasks table
    undo      \* what the last delete gave its caller, to bring the card back

vars == <<board, undo>>

\* card: the payload; refs: the <<id, field>> pairs the web delete scrubbed.
\* For the properties only: was, the card as it was; before, the board as
\* it was, forgotten once somebody writes.
Undos == [by : {"store", "web"}, id : Ids, card : Cards,
          refs : SUBSET (Ids \X {"depends_on", "blocks"}),
          was : Cards, before : {NoBoard} \cup Boards]

TypeOK ==
    /\ board \in Boards
    /\ undo = NoUndo \/ undo \in Undos

Init ==
    /\ board = [i \in Ids |-> NoCard]
    /\ undo = NoUndo

-----------------------------------------------------------------------------

Tombstoned(c) == "deleted" \in c.meta
\* _find_live_task
Live(i) == board[i] # NoCard /\ ~Tombstoned(board[i])
\* the web handlers and help_wait look the id up in every row
Found(i) == board[i] # NoCard

\* Mutant of Valid: the stray blocker is only warned about.
ValidWarns(b) == TRUE

\* _validate_tasks raises for a real blocker on a row that is not blocked.
Valid(b) == \A i \in Known(b) : b[i].blocker => b[i].status = "blocked"

\* The verb's document is written.  Whoever holds a payload is no longer
\* the last to write.
Commit(b) ==
    /\ Valid(b)
    /\ board' = b
    /\ undo' = IF undo = NoUndo THEN NoUndo ELSE [undo EXCEPT !.before = NoBoard]

Rewrite(i, c) == Commit([board EXCEPT ![i] = c])

\* Every other card without its edges to i.
Scrubbed(b, i) ==
    [j \in Ids |-> IF j \notin Known(b) \ {i} THEN b[j]
                   ELSE [b[j] EXCEPT !.deps = @ \ {i}, !.blocks = @ \ {i}]]

\* Mutant of ScrubbedRefs: only depends_on is remembered.
ScrubbedRefsDeps(b, i) ==
    {r \in (Known(b) \ {i}) \X {"depends_on"} : i \in b[r[1]].deps}

\* The <<id, field>> pairs of those edges.
ScrubbedRefs(b, i) ==
    {r \in (Known(b) \ {i}) \X {"depends_on", "blocks"} :
        i \in IF r[2] = "depends_on" THEN b[r[1]].deps ELSE b[r[1]].blocks}

EdgeSets(i, kind) == IF kind \in EdgeKinds[i] THEN SUBSET (Ids \ {i}) ELSE {{}}

-----------------------------------------------------------------------------
(* The store verbs.                                                        *)

\* A tombstoned row keeps its id: the validator refuses the duplicate.
AddTask(i) ==
    /\ ~Found(i)
    /\ \E st \in Statuses, bl \in BOOLEAN,
          d \in EdgeSets(i, "depends_on"), k \in EdgeSets(i, "blocks") :
          Rewrite(i, [status |-> st, blocker |-> bl, meta |-> {},
                      deps |-> d, blocks |-> k])

\* status and blocker given, cleared or left; no stamp is touched
UpdateTask(i) ==
    /\ Live(i)
    /\ \E st \in Statuses \cup {board[i].status}, bl \in BOOLEAN :
          Rewrite(i, [board[i] EXCEPT !.status = st, !.blocker = bl])

\* The blocker stays, so this is refused for a card that names one.
CompleteTask(i) ==
    /\ Live(i)
    /\ board[i].status # "done"
    /\ Rewrite(i, [board[i] EXCEPT !.status = "done",
                                   !.meta = @ \cup {"completed"}])

ResolveTask(i) ==
    /\ Live(i)
    /\ Rewrite(i, [board[i] EXCEPT !.status = "done", !.blocker = FALSE])

\* clear_completion_stamp
Uncompleted(c) == [c EXCEPT !.meta = @ \ {"completed"}]

ReopenTask(i) ==
    /\ Live(i)
    /\ Rewrite(i, Uncompleted([board[i] EXCEPT !.status = "blocked",
                                               !.blocker = TRUE]))

\* The caller's snapshot is shallow: a _log_meta the card already had is the
\* same mapping the tombstone is then written into.
UndoPayload(c) ==
    IF c.meta = {} THEN c ELSE [c EXCEPT !.meta = @ \cup {"deleted"}]

DeleteTask(i) ==
    /\ Live(i)
    /\ LET b == [Scrubbed(board, i) EXCEPT ![i].status = "cancelled",
                                    ![i].meta = @ \cup {"deleted"}]
       IN  Valid(b) /\ board' = b
    /\ undo' = [by |-> "store", id |-> i, card |-> UndoPayload(board[i]),
                refs |-> {}, was |-> board[i], before |-> board]

\* Un-tombstones in place, or appends a row that is gone.
RestoreTask(i) ==
    /\ undo # NoUndo /\ undo.by = "store" /\ undo.id = i
    /\ ~Live(i)
    /\ Rewrite(i, undo.card)

SetEdge(s, t, kind) ==
    /\ s # t /\ Live(s) /\ Live(t)
    /\ \E op \in {"add", "remove"} :
          LET now(edges) == IF op = "add" THEN edges \cup {t} ELSE edges \ {t}
          IN  Rewrite(s, IF kind = "depends_on"
                         THEN [board[s] EXCEPT !.deps = now(@)]
                         ELSE [board[s] EXCEPT !.blocks = now(@)])

HelpWait(i) ==
    LET old == IF Found(i) THEN board[i]
               ELSE [status |-> "blocked", blocker |-> TRUE, meta |-> {},
                     deps |-> {}, blocks |-> {}]
    IN  Rewrite(i, [old EXCEPT !.status = "blocked", !.blocker = TRUE])

HelpClear(i) ==
    /\ Found(i)
    /\ Rewrite(i, [board[i] EXCEPT !.status = "done", !.blocker = FALSE])

StoreVerb ==
    \E i \in Ids :
        \/ AddTask(i) \/ UpdateTask(i) \/ CompleteTask(i) \/ ResolveTask(i)
        \/ ReopenTask(i) \/ DeleteTask(i) \/ RestoreTask(i)
        \/ \E t \in Ids, kind \in EdgeKinds[i] : SetEdge(i, t, kind)

HelpVerb == \E i \in HelpIds : HelpWait(i) \/ HelpClear(i)

-----------------------------------------------------------------------------
(* The web board's handlers.  None of them looks for a tombstone.          *)

\* The row is removed and named in deleted_ids.
HandleDelete(i) ==
    /\ Found(i)
    /\ LET b == [Scrubbed(board, i) EXCEPT ![i] = NoCard] IN Valid(b) /\ board' = b
    /\ undo' = [by |-> "web", id |-> i, card |-> board[i],
                refs |-> ScrubbedRefs(board, i), was |-> board[i],
                before |-> board]

\* by_id is taken before the card is appended: a ref never lands on it.
HandleRestore(i) ==
    /\ undo # NoUndo /\ undo.by = "web" /\ undo.id = i
    /\ LET refd(j, kind) == j \in Known(board) /\ <<j, kind>> \in undo.refs
           with(j, kind) == IF refd(j, kind) THEN {i} ELSE {}
       IN  Commit([j \in Ids |->
              IF j \notin Known(board) THEN IF j = i THEN undo.card ELSE NoCard
              ELSE [board[j] EXCEPT !.deps = @ \cup with(j, "depends_on"),
                                    !.blocks = @ \cup with(j, "blocks")]])

HandleResolve(i) ==
    /\ Found(i)
    /\ board[i].status # "done"
    /\ Rewrite(i, [board[i] EXCEPT !.status = "done", !.blocker = FALSE])

\* The page sends the status it showed before the resolve.
HandleReopen(i) ==
    /\ Found(i)
    /\ \E prior \in Statuses :
          Rewrite(i, [board[i] EXCEPT !.status = prior,
                                      !.blocker = (prior = "blocked")])

\* Mutant of HandleArchive: it writes a new _log_meta.
HandleArchiveFreshMeta(i) ==
    /\ Found(i)
    /\ Rewrite(i, [board[i] EXCEPT !.status = "deferred", !.meta = {"closed"}])

HandleArchive(i) ==
    /\ Found(i)
    /\ Rewrite(i, [board[i] EXCEPT !.status = "deferred",
                                   !.meta = @ \cup {"closed"}])

WebHandler ==
    \E i \in Ids :
        \/ HandleDelete(i) \/ HandleRestore(i) \/ HandleResolve(i)
        \/ HandleReopen(i) \/ HandleArchive(i)

Next ==
    \/ "store" \in Surfaces /\ (StoreVerb \/ HelpVerb)
    \/ "web" \in Surfaces /\ WebHandler

Spec == Init /\ [][Next]_vars

-----------------------------------------------------------------------------
(* Properties.                                                             *)

\* What may happen to the row of a deleted card in one step.
TombstoneKept(i) ==
    Found(i) /\ Tombstoned(board[i]) =>
        \/ Found(i)' /\ Tombstoned(board'[i])
        \/ RestoreTask(i)
        \/ HandleDelete(i)

\* A tombstone stays: whatever the verbs and handlers do to the row of a
\* deleted card, it remains deleted and remains in the table, until
\* restore_task puts its payload there or the web delete removes the row.
TombstoneStays == [][\A i \in Ids : TombstoneKept(i)]_vars

\* runnable_tasks and blocked_tasks, which filter the board each in its own
\* way, agree: an open card is offered or it is explained, never both and
\* never neither.  It rests on the validator's rule about blockers.
RunnableXorBlocked ==
    \A i \in Known(board) :
        board[i].status \in RUNNABLE_STATUSES \cup {"blocked"} =>
            (i \in RunnableTasks(board) <=> i \notin BlockedTasks(board))

\* A web restore that is the first write since its delete undoes it.
WebUndoes(i) ==
    HandleRestore(i) /\ undo.before # NoBoard => board' = undo.before

\* handle_delete's promise of a lossless Undo: when nobody wrote between a
\* web delete and its restore, the board is what it was, edges included.
WebUndoLossless == [][\A i \in Ids : WebUndoes(i)]_vars

\* restore_task brings "the row back to its pre-delete state".
RestoreUndoes ==
    [][\A i \in Ids : RestoreTask(i) => board'[i] = undo.was]_vars

\* clear_completion_stamp is called "from ANY transition that takes a card OUT
\* of done": a card that leaves done does not go on counting as delivered.
StampFollowsStatus ==
    [][\A i \in Ids :
          /\ Live(i) /\ board[i].status = "done"
          /\ Live(i)' /\ board'[i].status # "done"
          => "completed" \notin board'[i].meta]_vars

WithoutTombstones ==
    [i \in Ids |-> IF Live(i) THEN board[i] ELSE NoCard]

\* delete_task: reads "treat a tombstoned row as ABSENT", so the dispatcher
\* answers as it would with the tombstoned rows taken out.
DeletedIsAbsent == RunnableTasks(board) = RunnableTasks(WithoutTombstones)
=============================================================================
