----------------------------- MODULE BoardCache -----------------------------
(***************************************************************************)
(* The board server's cache of the store (_django/services.py) under the   *)
(* views that read through it and the POST handlers that write past it.    *)
(*                                                                         *)
(* get_board takes the store's generation, looks its cache up under it,    *)
(* and only when that misses loads the store and files the load under the  *)
(* generation it took first: three steps, with requests served by threads  *)
(* of one process and a background refresh between them, and with writers  *)
(* in this process and in others (command line, MCP) that change the store *)
(* at any moment.  A locked verb is one step (StoreTxn).                   *)
(*                                                                         *)
(* A store is the version of every card, 0 for no card.  The generation is *)
(* a hash of the document, so it is the store itself here: a store that    *)
(* comes back to an earlier content has the earlier generation.  The       *)
(* identity file exists and does not change (the heartbeat of a registered *)
(* actor would: every such write is a new generation, and the cache misses *)
(* more).  Groups are loaded with the cards and left out, as is the graph  *)
(* payload derived from a board.                                           *)
(***************************************************************************)
EXTENDS Naturals

CONSTANTS
    Ids,
    Verbs,         \* what the board POSTs: members of PostVerbs
    Pollers,       \* the requests of the timeline's timer
    Others,        \* requests of any endpoint
    MaxWrites      \* bound on the versions of a behaviour, the first board's included


PostVerbs == {"create", "update", "chat", "delete", "restore", "priority"}

Callers == Pollers \cup Others

VARIABLES
    store,       \* the version of every card
    cache,       \* _board_cache: at most one board and the generation it is filed under
    refresh,     \* _refreshing: at most one refresh thread and how far it is
    req,         \* what each request is doing
    timeline,    \* what the browser's raster shows
    removed,     \* what an Undo would put back
    writes,
    seen,        \* ghost: the contents the store had since each request began
    returned     \* ghost: a content came back while a board under its generation holds another

vars == <<store, cache, refresh, req, timeline, removed, writes, seen, returned>>

Stores == [Ids -> 0..MaxWrites]
Absent == [i \in Ids |-> 0]
Board(sig, tasks) == [sig |-> sig, tasks |-> tasks]
Boards == [sig : Stores, tasks : Stores]
Nothing == <<>>
Loading(sig) == Board(sig, Nothing)
NoBoard == Board(Nothing, Nothing)
Idle == [phase |-> "idle", allow_stale |-> FALSE, board |-> NoBoard]

Phases == {"idle", "sig", "load", "insert", "read", "reset"}
TypeOK ==
    /\ store \in Stores
    /\ cache \in Boards \cup {NoBoard}
    /\ refresh \in Boards \cup [sig : Stores, tasks : {Nothing}] \cup {NoBoard}
    /\ \A r \in Callers : req[r].phase \in Phases
    /\ seen \in [Callers -> SUBSET Stores]
    /\ timeline \in Stores
    /\ removed \in Stores
    /\ writes \in 1..MaxWrites
    /\ returned \in BOOLEAN

Init ==
    /\ store = [i \in Ids |-> 1] /\ timeline = store /\ removed = Absent
    /\ cache = NoBoard /\ refresh = NoBoard
    /\ req = [r \in Callers |-> Idle]
    /\ writes = 1
    /\ seen = [r \in Callers |-> {}]
    /\ returned = FALSE

-----------------------------------------------------------------------------
(* get_board, in the steps another thread or writer can come between.      *)

Goes(r, phase, board) == req' = [req EXCEPT ![r].phase = phase, ![r].board = board]
Ends(r) == req' = [req EXCEPT ![r] = Idle]
Sees(r, contents) == seen' = [seen EXCEPT ![r] = contents]

IdentityStat(tasks) == Absent             \* bug: the identity file's stat, which no write moves
Generation(tasks) == tasks                \* store_generation

ReadSig(r, allow_stale) ==
    /\ req[r].phase = "idle"
    /\ req' = [req EXCEPT ![r] = [phase |-> "sig", allow_stale |-> allow_stale,
                                  board |-> Loading(Generation(store))]]
    /\ Sees(r, IF allow_stale THEN {} ELSE {store})
    /\ UNCHANGED <<store, cache, refresh, timeline, removed, writes, returned>>

MayBeStale(r) == req[r].allow_stale
_kick_board_refresh(sig) ==
    refresh' = IF refresh = NoBoard THEN Loading(sig) ELSE refresh

LookUp(r) ==
    /\ req[r].phase = "sig"
    /\ \/ /\ cache # NoBoard /\ cache.sig = req[r].board.sig
          /\ Goes(r, "read", cache)
          /\ UNCHANGED refresh
       \/ /\ cache # NoBoard /\ cache.sig # req[r].board.sig /\ MayBeStale(r)
          /\ _kick_board_refresh(req[r].board.sig)
          /\ Goes(r, "read", cache)
       \/ /\ cache = NoBoard \/ (cache.sig # req[r].board.sig /\ ~MayBeStale(r))
          /\ Goes(r, "load", req[r].board)
          /\ UNCHANGED refresh
    /\ UNCHANGED <<store, cache, timeline, removed, writes, seen, returned>>

Load(r) ==
    /\ req[r].phase = "load"
    /\ Goes(r, "insert", Board(req[r].board.sig, store))
    /\ UNCHANGED <<store, cache, refresh, timeline, removed, writes, seen, returned>>

FiledUnderNow(board) == Board(store, board.tasks)   \* bug: the generation taken after the load
Filed(board) == board                     \* under the generation taken before the load

Insert(r) ==
    /\ req[r].phase = "insert"
    /\ cache' = Filed(req[r].board)
    /\ Goes(r, "read", req[r].board)
    /\ UNCHANGED <<store, refresh, timeline, removed, writes, seen, returned>>

-----------------------------------------------------------------------------
(* _run of _kick_board_refresh: load, file, and give the key up whatever   *)
(* happened.                                                               *)

RefreshLoad ==
    /\ refresh # NoBoard /\ refresh.tasks = Nothing
    /\ refresh' = Board(refresh.sig, store)
    /\ UNCHANGED <<store, cache, req, timeline, removed, writes, seen, returned>>

RefreshInsert ==
    /\ refresh \in Boards
    /\ cache' = Filed(refresh)
    /\ refresh' = NoBoard
    /\ UNCHANGED <<store, req, timeline, removed, writes, seen, returned>>

RefreshFails ==
    /\ refresh # NoBoard /\ refresh.tasks = Nothing
    /\ refresh' = NoBoard
    /\ UNCHANGED <<store, cache, req, timeline, removed, writes, seen, returned>>

Expire ==                                 \* _cleanup_expired of a board of an hour ago
    /\ cache # NoBoard
    /\ cache' = NoBoard
    /\ UNCHANGED <<store, refresh, req, timeline, removed, writes, seen, returned>>

-----------------------------------------------------------------------------
(* The views.  A reply reaches the browser when it does: a poll does not   *)
(* wait for the one before it, and the page shows the last to arrive.      *)

timeline_view(r) ==
    /\ req[r].phase = "read" /\ ~MayBeStale(r)
    /\ timeline' = req[r].board.tasks
    /\ Ends(r) /\ Sees(r, {})
    /\ UNCHANGED <<store, cache, refresh, removed, writes, returned>>

handle_graph(r) ==                        \* STALE_OK_ENDPOINTS, of a GET
    /\ req[r].phase = "read" /\ MayBeStale(r)
    /\ Ends(r) /\ Sees(r, {})
    /\ UNCHANGED <<store, cache, refresh, timeline, removed, writes, returned>>

-----------------------------------------------------------------------------
(* The writers. *)

(* Some board is, or will be, filed under generation c and does not hold c. *)
Misfiled(c) ==
    \/ cache # NoBoard /\ cache.sig = c /\ cache.tasks # c
    \/ refresh # NoBoard /\ refresh.sig = c /\ refresh.tasks # c
    \/ \E r \in Callers : /\ req[r].phase \in {"sig", "load", "insert"}
                           /\ req[r].board.sig = c /\ req[r].board.tasks # c

Fresh == writes + 1
Commit(new) ==
    /\ writes < MaxWrites /\ writes' = writes + 1
    /\ store' = new
    /\ seen' = [r \in Callers |->
                  IF seen[r] = {} \/ req'[r].phase \in {"idle", "reset"} THEN {}
                  ELSE seen[r] \cup {new}]
    /\ returned' = (returned \/ (new # store /\ Misfiled(new)))

Write(i) == Commit([store EXCEPT ![i] = Fresh])

Answers(r) ==                             \* 400 or 404: nothing is written
    /\ Ends(r) /\ Sees(r, {})
    /\ UNCHANGED <<store, removed, writes, returned>>
Commits(r) == Goes(r, "reset", NoBoard)

Known(r, i) == req[r].board.tasks[i] > 0

handle_create(r, i) ==                    \* an id the board it read does not have
    /\ "create" \in Verbs /\ ~Known(r, i)
    /\ IF store[i] > 0 THEN Answers(r)
       ELSE Commits(r) /\ Write(i) /\ UNCHANGED removed

handle_update(r, i) ==                    \* and comment, edge and rescore
    /\ "update" \in Verbs
    /\ IF ~Known(r, i) \/ store[i] = 0 THEN Answers(r)
       ELSE Commits(r) /\ Write(i) /\ UNCHANGED removed

chat_view(r, i) ==                        \* a comment that resets no cache
    /\ "chat" \in Verbs
    /\ IF ~Known(r, i) \/ store[i] = 0 THEN Answers(r)
       ELSE Ends(r) /\ Write(i) /\ UNCHANGED removed

handle_delete(r, i) ==
    /\ "delete" \in Verbs
    /\ IF store[i] = 0 THEN Answers(r)
       ELSE /\ Commits(r) /\ Commit([store EXCEPT ![i] = 0])
            /\ removed' = [removed EXCEPT ![i] = store[i]]

handle_restore(r, i) ==                   \* the browser's Undo, with what delete answered
    /\ "restore" \in Verbs
    /\ IF removed[i] = 0 \/ store[i] > 0 THEN Answers(r)
       ELSE /\ Commits(r) /\ Commit([store EXCEPT ![i] = removed[i]])
            /\ UNCHANGED removed

handle_priority(r) ==                     \* every card of the order that exists
    /\ "priority" \in Verbs
    /\ Commits(r)
    /\ Commit([i \in Ids |-> IF store[i] = 0 THEN 0 ELSE Fresh])
    /\ UNCHANGED removed

Post(r) ==
    /\ req[r].phase = "read"
    /\ \/ handle_priority(r)
       \/ \E i \in Ids : \/ handle_create(r, i) \/ handle_update(r, i) \/ chat_view(r, i)
                         \/ handle_delete(r, i) \/ handle_restore(r, i)
    /\ UNCHANGED <<cache, refresh, timeline>>

_reset_cache(r) ==
    /\ req[r].phase = "reset"
    /\ cache' = NoBoard
    /\ Ends(r) /\ Sees(r, {})
    /\ UNCHANGED <<store, refresh, timeline, removed, writes, returned>>

OtherProcess ==                           \* the command line and the MCP server
    /\ UNCHANGED <<cache, refresh, req, timeline, removed>>
    /\ \E i \in Ids : Write(i)

-----------------------------------------------------------------------------
Serve(r) == LookUp(r) \/ Load(r) \/ Insert(r)
Poll(r) == ReadSig(r, FALSE) \/ Serve(r) \/ timeline_view(r)
View(r) == ReadSig(r, TRUE) \/ Serve(r) \/ handle_graph(r)
Request(r) == ReadSig(r, FALSE) \/ Serve(r) \/ Post(r) \/ _reset_cache(r)

Next ==
    \/ \E r \in Callers : Poll(r)
    \/ \E r \in Others : View(r) \/ Request(r)
    \/ RefreshLoad \/ RefreshInsert \/ RefreshFails \/ Expire
    \/ OtherProcess

(* The page polls on a timer and the server answers what it was asked.     *)
Spec == Init /\ [][Next]_vars /\ \A r \in Callers : WF_vars(Poll(r))

-----------------------------------------------------------------------------
(* A request that did not ask for a stale board works on a content the     *)
(* store had while it ran: a 404, a slug and a timeline are never about a  *)
(* board from before it (_django/services.py:265 "MUST see its own write").*)
LinearRead ==
    \A r \in Callers : req[r].phase = "read" /\ ~MayBeStale(r) =>
        req[r].board.tasks \in seen[r] \/ returned

(* Once the writing stops, the timeline comes to show the store, whatever  *)
(* refreshes, expiries and late replies did meanwhile.                     *)
TimelineCatchesUp == <>[](timeline = store \/ returned)

=============================================================================
