---------------------------- MODULE CardsProofs ----------------------------
(***************************************************************************)
(* Proofs about the life of cards, for any number of cards, any statuses   *)
(* callers use and any mix of store verbs and board handlers; about who    *)
(* hears of a card, for any cards, people and writers, any calls and any   *)
(* deaths between their steps; and about the lists an agent works from,    *)
(* for any cards, agents, deadlines and scores.                            *)
(***************************************************************************)
EXTENDS CardSides, FiniteSetTheorems, TLAPS

-----------------------------------------------------------------------------
(* Facts about the pieces.                                                 *)

LEMMA NewCard ==
    ASSUME NEW st \in AllStatuses, NEW bl \in BOOLEAN,
           NEW d \in SUBSET Ids, NEW k \in SUBSET Ids
    PROVE  [status |-> st, blocker |-> bl, meta |-> {},
            deps |-> d, blocks |-> k] \in Cards
BY DEF Cards, Stamps

LEMMA EdgeSetsType ==
    ASSUME NEW i \in Ids, NEW kind, NEW e \in EdgeSets(i, kind)
    PROVE  e \in SUBSET Ids
BY DEF EdgeSets

LEMMA CardType ==
    ASSUME NEW b \in Boards, NEW i \in Ids, b[i] # NoCard
    PROVE  b[i] \in Cards
BY DEF Boards

LEMMA ScrubbedType ==
    ASSUME NEW b \in Boards, NEW i \in Ids
    PROVE  /\ Scrubbed(b, i) \in Boards
           /\ Scrubbed(b, i)[i] = b[i]
           /\ \A j \in Ids : b[j] # NoCard => Scrubbed(b, i)[j].meta = b[j].meta
<1>1. ASSUME NEW j \in Ids
      PROVE  /\ Scrubbed(b, i)[j] \in {NoCard} \cup Cards
             /\ b[j] # NoCard => Scrubbed(b, i)[j].meta = b[j].meta
  <2>1. CASE j \notin Known(b) \ {i}
    BY <2>1 DEF Scrubbed, Boards
  <2>2. CASE j \in Known(b) \ {i}
    <3>1. b[j] \in Cards
      BY <2>2, CardType DEF Known
    <3>2. Scrubbed(b, i)[j] = [b[j] EXCEPT !.deps = @ \ {i}, !.blocks = @ \ {i}]
      BY <2>2 DEF Scrubbed
    <3>3. QED
      BY <3>1, <3>2 DEF Cards
  <2>3. QED
    BY <2>1, <2>2
<1>2. Scrubbed(b, i) \in [Ids -> {NoCard} \cup Cards]
  <2>1. Scrubbed(b, i) = [j \in Ids |-> Scrubbed(b, i)[j]]
    BY DEF Scrubbed
  <2>2. QED
    BY <1>1, <2>1
<1>3. Scrubbed(b, i)[i] = b[i]
  BY DEF Scrubbed
<1>4. QED
  BY <1>1, <1>2, <1>3 DEF Boards

\* A verb or handler that rewrites one row.
LEMMA RewriteType ==
    ASSUME TypeOK, NEW i \in Ids, NEW c \in Cards, Rewrite(i, c)
    PROVE  /\ TypeOK' /\ Valid(board')
           /\ board'[i] = c
           /\ \A j \in Ids \ {i} : board'[j] = board[j]
           /\ undo' = NoUndo \/ undo'.before = NoBoard
<1>1. board' = [board EXCEPT ![i] = c] /\ Valid(board')
  BY DEF Rewrite, Commit
<1>2. board' \in Boards
  BY <1>1 DEF TypeOK, Boards
<1>3. undo' = IF undo = NoUndo THEN NoUndo ELSE [undo EXCEPT !.before = NoBoard]
  BY DEF Rewrite, Commit
<1>4. undo' = NoUndo \/ (undo' \in Undos /\ undo'.before = NoBoard)
  BY <1>3 DEF TypeOK, Undos
<1>5. QED
  BY <1>1, <1>2, <1>4 DEF TypeOK, Boards

-----------------------------------------------------------------------------
(* Most verbs and handlers rewrite one row, and a tombstone in it stays.   *)

Rewrites(i) ==
    \E c \in Cards : /\ Rewrite(i, c)
                     /\ Found(i) /\ Tombstoned(board[i]) => Tombstoned(c)

LEMMA AddRewrites ==
    ASSUME TypeOK, NEW i \in Ids, AddTask(i)
    PROVE  Rewrites(i)
<1>1. PICK st \in Statuses, bl \in BOOLEAN,
           d \in EdgeSets(i, "depends_on"), k \in EdgeSets(i, "blocks") :
           Rewrite(i, [status |-> st, blocker |-> bl, meta |-> {},
                       deps |-> d, blocks |-> k])
  BY DEF AddTask
<1>2. st \in AllStatuses /\ d \in SUBSET Ids /\ k \in SUBSET Ids
  BY StatusAssumption, EdgeSetsType
<1>3. QED
  BY <1>1, <1>2, NewCard DEF Rewrites, AddTask, Found

\* Verbs that find a live card and change its fields.
LEMMA LiveRewrites ==
    ASSUME TypeOK, NEW i \in Ids, UpdateTask(i) \/ CompleteTask(i)
                                  \/ ResolveTask(i) \/ ReopenTask(i)
    PROVE  Rewrites(i)
<1>1. board[i] \in Cards /\ ~Tombstoned(board[i])
  BY CardType DEF TypeOK, UpdateTask, CompleteTask, ResolveTask, ReopenTask, Live
<1>2. ASSUME NEW c \in Cards, Rewrite(i, c) PROVE Rewrites(i)
  BY <1>1, <1>2 DEF Rewrites
<1>3. CASE UpdateTask(i)
  <2>1. PICK st \in Statuses \cup {board[i].status}, bl \in BOOLEAN :
             Rewrite(i, [board[i] EXCEPT !.status = st, !.blocker = bl])
    BY <1>3 DEF UpdateTask
  <2>2. [board[i] EXCEPT !.status = st, !.blocker = bl] \in Cards
    BY <1>1, StatusAssumption DEF Cards
  <2>3. QED
    BY <1>2, <2>1, <2>2
<1>4. CASE CompleteTask(i)
  <2>1. [board[i] EXCEPT !.status = "done", !.meta = @ \cup {"completed"}] \in Cards
    BY <1>1 DEF Cards, AllStatuses, Stamps
  <2>2. QED
    BY <1>2, <1>4, <2>1 DEF CompleteTask
<1>5. CASE ResolveTask(i)
  <2>1. [board[i] EXCEPT !.status = "done", !.blocker = FALSE] \in Cards
    BY <1>1 DEF Cards, AllStatuses
  <2>2. QED
    BY <1>2, <1>5, <2>1 DEF ResolveTask
<1>6. CASE ReopenTask(i)
  <2> DEFINE c == [board[i] EXCEPT !.status = "blocked", !.blocker = TRUE]
  <2>1. c \in Cards
    BY <1>1 DEF Cards, AllStatuses
  <2> HIDE DEF c
  <2>2. Uncompleted(c) \in Cards
    BY <2>1 DEF Uncompleted, Cards
  <2>3. QED
    BY <1>2, <1>6, <2>2 DEF ReopenTask, c
<1>7. QED
  BY <1>3, <1>4, <1>5, <1>6

LEMMA EdgeRewrites ==
    ASSUME TypeOK, NEW s \in Ids, NEW t \in Ids, NEW kind, SetEdge(s, t, kind)
    PROVE  Rewrites(s)
<1>1. board[s] \in Cards /\ ~Tombstoned(board[s])
  BY CardType DEF TypeOK, SetEdge, Live
<1>2. ASSUME NEW c \in Cards, Rewrite(s, c) PROVE Rewrites(s)
  BY <1>1, <1>2 DEF Rewrites
<1>3. PICK op \in {"add", "remove"} :
         LET now(edges) == IF op = "add" THEN edges \cup {t} ELSE edges \ {t}
         IN  Rewrite(s, IF kind = "depends_on"
                        THEN [board[s] EXCEPT !.deps = now(@)]
                        ELSE [board[s] EXCEPT !.blocks = now(@)])
  BY DEF SetEdge
<1> DEFINE now(edges) == IF op = "add" THEN edges \cup {t} ELSE edges \ {t}
           c == IF kind = "depends_on" THEN [board[s] EXCEPT !.deps = now(@)]
                                       ELSE [board[s] EXCEPT !.blocks = now(@)]
<1>4. c \in Cards
  BY <1>1 DEF Cards
<1>5. QED
  BY <1>2, <1>3, <1>4

\* Verbs and handlers that take any row of that id; the stamps only grow.
LEMMA FoundRewrites ==
    ASSUME TypeOK, NEW i \in Ids,
           HelpWait(i) \/ HelpClear(i) \/ HandleResolve(i)
               \/ HandleReopen(i) \/ HandleArchive(i)
    PROVE  Rewrites(i)
<1>1. Found(i) => board[i] \in Cards
  BY CardType DEF TypeOK, Found
<1>2. ASSUME NEW c \in Cards, Rewrite(i, c), Found(i) => board[i].meta \subseteq c.meta
      PROVE  Rewrites(i)
  BY <1>2 DEF Rewrites, Tombstoned
<1>3. CASE HelpWait(i)
  <2> DEFINE new == [status |-> "blocked", blocker |-> TRUE, meta |-> {},
                     deps |-> {}, blocks |-> {}]
             old == IF Found(i) THEN board[i] ELSE new
             c == [old EXCEPT !.status = "blocked", !.blocker = TRUE]
  <2>1. new \in Cards
    BY NewCard DEF AllStatuses
  <2>2. old \in Cards /\ (Found(i) => old = board[i])
    BY <1>1, <2>1
  <2>3. Rewrite(i, c)
    BY <1>3 DEF HelpWait
  <2> HIDE DEF old
  <2>4. c \in Cards /\ c.meta = old.meta
    BY <2>2 DEF Cards, AllStatuses
  <2> HIDE DEF c
  <2>5. QED
    BY <1>2, <2>2, <2>3, <2>4
<1>4. CASE HelpClear(i) \/ HandleResolve(i)
  <2> DEFINE c == [board[i] EXCEPT !.status = "done", !.blocker = FALSE]
  <2>1. Rewrite(i, c) /\ Found(i)
    BY <1>4 DEF HelpClear, HandleResolve
  <2>2. c \in Cards /\ c.meta = board[i].meta
    BY <1>1, <2>1 DEF Cards, AllStatuses
  <2> HIDE DEF c
  <2>3. QED
    BY <1>2, <2>1, <2>2
<1>5. CASE HandleReopen(i)
  <2>1. PICK prior \in Statuses :
             Rewrite(i, [board[i] EXCEPT !.status = prior,
                                         !.blocker = (prior = "blocked")])
    BY <1>5 DEF HandleReopen
  <2> DEFINE c == [board[i] EXCEPT !.status = prior, !.blocker = (prior = "blocked")]
  <2>2. Found(i)
    BY <1>5 DEF HandleReopen
  <2>3. c \in Cards /\ c.meta = board[i].meta
    BY <1>1, <2>2, StatusAssumption DEF Cards
  <2> HIDE DEF c
  <2>4. QED
    BY <1>2, <2>1, <2>3 DEF c
<1>6. CASE HandleArchive(i)
  <2> DEFINE c == [board[i] EXCEPT !.status = "deferred", !.meta = @ \cup {"closed"}]
  <2>1. Rewrite(i, c) /\ Found(i)
    BY <1>6 DEF HandleArchive
  <2>2. c \in Cards /\ board[i].meta \subseteq c.meta
    BY <1>1, <2>1 DEF Cards, AllStatuses, Stamps
  <2> HIDE DEF c
  <2>3. QED
    BY <1>2, <2>1, <2>2
<1>7. QED
  BY <1>3, <1>4, <1>5, <1>6

\* What a step is: one row rewritten, or one of the four that undo needs.
LEMMA StepCases ==
    ASSUME TypeOK, Next
    PROVE  \E i \in Ids : \/ Rewrites(i) \/ DeleteTask(i) \/ RestoreTask(i)
                          \/ HandleDelete(i) \/ HandleRestore(i)
BY AddRewrites, LiveRewrites, EdgeRewrites, FoundRewrites, HelpAssumption
DEF Next, StoreVerb, HelpVerb, WebHandler

-----------------------------------------------------------------------------
(* Types and validity.                                                     *)

LEMMA PayloadType ==
    ASSUME NEW c \in Cards
    PROVE  UndoPayload(c) \in Cards
BY DEF UndoPayload, Cards, Stamps

\* delete_task, by its parts.
LEMMA DeleteFacts ==
    ASSUME TypeOK, NEW i \in Ids, DeleteTask(i)
    PROVE  /\ TypeOK' /\ Valid(board') /\ undo'.by = "store"
           /\ \A j \in Ids : board[j] # NoCard =>
                 board'[j] # NoCard /\ board[j].meta \subseteq board'[j].meta
<1> DEFINE s == Scrubbed(board, i)
           b == [s EXCEPT ![i].status = "cancelled", ![i].meta = @ \cup {"deleted"}]
<1>1. board' = b /\ Valid(b)
  BY DEF DeleteTask
<1>2. undo' = [by |-> "store", id |-> i, card |-> UndoPayload(board[i]),
               refs |-> {}, was |-> board[i], before |-> board]
  BY DEF DeleteTask
<1>3. board \in Boards /\ board[i] \in Cards
  BY CardType DEF TypeOK, DeleteTask, Live
<1>4. /\ s \in Boards /\ s[i] = board[i]
      /\ \A j \in Ids : board[j] # NoCard => s[j].meta = board[j].meta
  BY <1>3, ScrubbedType
<1>5. \A j \in Ids : board[j] # NoCard => s[j] # NoCard
  <2> SUFFICES ASSUME NEW j \in Ids, board[j] # NoCard, j \in Known(board) \ {i}
               PROVE  s[j] # NoCard
    BY DEF Scrubbed
  <2>1. s[j] = [board[j] EXCEPT !.deps = @ \ {i}, !.blocks = @ \ {i}]
    BY DEF Scrubbed
  <2>2. [board[j] EXCEPT !.deps = @ \ {i}, !.blocks = @ \ {i}] \in Cards
    BY <1>3, CardType DEF Cards
  <2>3. QED
    BY <2>1, <2>2, NoCardAssumption
<1> HIDE DEF s
<1>6. b[i] = [s[i] EXCEPT !.status = "cancelled", !.meta = @ \cup {"deleted"}]
  BY <1>4 DEF Boards
<1>7. \A j \in Ids \ {i} : b[j] = s[j]
  BY <1>4 DEF Boards
<1>8. b[i] \in Cards /\ board[i].meta \subseteq b[i].meta
  <2> DEFINE c == [board[i] EXCEPT !.status = "cancelled",
                                   !.meta = @ \cup {"deleted"}]
  <2>1. c \in Cards /\ board[i].meta \subseteq c.meta
    BY <1>3 DEF Cards, AllStatuses, Stamps
  <2>2. b[i] = c
    BY <1>4, <1>6
  <2> HIDE DEF b, c
  <2>3. QED
    BY <2>1, <2>2
<1>9. b \in Boards
  <2>1. b = [j \in Ids |-> b[j]]
    BY <1>4 DEF Boards
  <2>2. \A j \in Ids : b[j] \in {NoCard} \cup Cards
    BY <1>4, <1>7, <1>8 DEF Boards
  <2> HIDE DEF b
  <2>3. QED
    BY <2>1, <2>2 DEF Boards
<1> HIDE DEF b
<1>10. undo' \in Undos /\ undo'.by = "store"
  BY <1>2, <1>3, PayloadType DEF Undos
<1>11. ASSUME NEW j \in Ids, board[j] # NoCard
       PROVE  board'[j] # NoCard /\ board[j].meta \subseteq board'[j].meta
  <2>1. CASE j = i
    BY <2>1, <1>1, <1>8, NoCardAssumption
  <2>2. CASE j # i
    BY <2>2, <1>1, <1>4, <1>5, <1>7, <1>11
  <2>3. QED
    BY <2>1, <2>2
<1>12. QED
  BY <1>1, <1>9, <1>10, <1>11 DEF TypeOK

\* The board's delete, by its parts.
LEMMA RemoveFacts ==
    ASSUME TypeOK, NEW i \in Ids, HandleDelete(i)
    PROVE  /\ TypeOK' /\ Valid(board')
           /\ board' = [Scrubbed(board, i) EXCEPT ![i] = NoCard]
           /\ undo' = [by |-> "web", id |-> i, card |-> board[i],
                       refs |-> ScrubbedRefs(board, i), was |-> board[i],
                       before |-> board]
           /\ \A j \in Ids \ {i} : board[j] # NoCard =>
                 board'[j] # NoCard /\ board[j].meta = board'[j].meta
<1> DEFINE s == Scrubbed(board, i)
<1>1. /\ board' = [s EXCEPT ![i] = NoCard] /\ Valid(board')
      /\ undo' = [by |-> "web", id |-> i, card |-> board[i],
                  refs |-> ScrubbedRefs(board, i), was |-> board[i],
                  before |-> board]
  BY DEF HandleDelete
<1>2. board \in Boards /\ board[i] \in Cards
  BY CardType DEF TypeOK, HandleDelete, Found
<1>3. /\ s \in Boards
      /\ \A j \in Ids : board[j] # NoCard => s[j].meta = board[j].meta
  BY <1>2, ScrubbedType
<1>4. \A j \in Ids \ {i} : board[j] # NoCard => s[j] \in Cards
  <2> SUFFICES ASSUME NEW j \in Ids \ {i}, board[j] # NoCard PROVE s[j] \in Cards
    OBVIOUS
  <2>1. s[j] = [board[j] EXCEPT !.deps = @ \ {i}, !.blocks = @ \ {i}]
    BY DEF Scrubbed, Known
  <2>2. [board[j] EXCEPT !.deps = @ \ {i}, !.blocks = @ \ {i}] \in Cards
    BY <1>2, CardType DEF Cards
  <2>3. QED
    BY <2>1, <2>2
<1>5. ScrubbedRefs(board, i) \subseteq Ids \X {"depends_on", "blocks"}
  BY DEF ScrubbedRefs, Known
<1>6. undo' \in Undos
  BY <1>1, <1>2, <1>5 DEF Undos
<1> HIDE DEF s
<1>7. board' \in Boards /\ \A j \in Ids \ {i} : board'[j] = s[j]
  BY <1>1, <1>3 DEF Boards
<1>8. QED
  BY <1>1, <1>3, <1>4, <1>6, <1>7, NoCardAssumption DEF TypeOK, s

\* The board's undo, by its parts: other cards keep their stamps.
LEMMA PutBackFacts ==
    ASSUME TypeOK, NEW i \in Ids, HandleRestore(i)
    PROVE  /\ TypeOK' /\ Valid(board')
           /\ undo' = NoUndo \/ undo'.before = NoBoard
           /\ \A j \in Ids : board[j] # NoCard =>
                 board'[j] # NoCard /\ board[j].meta = board'[j].meta
<1> DEFINE with(j, kind) == IF j \in Known(board) /\ <<j, kind>> \in undo.refs
                            THEN {i} ELSE {}
           new(j) == [board[j] EXCEPT !.deps = @ \cup with(j, "depends_on"),
                                      !.blocks = @ \cup with(j, "blocks")]
           b == [j \in Ids |->
                   IF j \notin Known(board) THEN IF j = i THEN undo.card ELSE NoCard
                   ELSE new(j)]
<1>1. Commit(b)
  BY DEF HandleRestore
<1>2. board \in Boards /\ undo \in Undos /\ undo.card \in Cards
  BY DEF TypeOK, HandleRestore, Undos
<1>3. ASSUME NEW j \in Ids, board[j] # NoCard
      PROVE  b[j] \in Cards /\ b[j].meta = board[j].meta
  <2>1. board[j] \in Cards
    BY <1>2, <1>3, CardType
  <2>2. with(j, "depends_on") \subseteq Ids /\ with(j, "blocks") \subseteq Ids
    OBVIOUS
  <2> HIDE DEF with
  <2>3. new(j) \in Cards /\ new(j).meta = board[j].meta
    BY <2>1, <2>2 DEF Cards
  <2>4. b[j] = new(j)
    BY <1>3 DEF Known
  <2>5. QED
    BY <2>3, <2>4
<1>4. ASSUME NEW j \in Ids, board[j] = NoCard PROVE b[j] \in {NoCard} \cup Cards
  BY <1>2, <1>4 DEF Known
<1>5. b \in Boards
  <2>1. b = [j \in Ids |-> b[j]]
    OBVIOUS
  <2> HIDE DEF b
  <2>2. QED
    BY <1>3, <1>4, <2>1 DEF Boards
<1> HIDE DEF b
<1>6. board' = b /\ Valid(board')
  BY <1>1 DEF Commit
<1>7. undo' = NoUndo \/ (undo' \in Undos /\ undo'.before = NoBoard)
  BY <1>1, <1>2 DEF Commit, Undos
<1>8. QED
  BY <1>3, <1>5, <1>6, <1>7, NoCardAssumption DEF TypeOK

BoardInv == TypeOK /\ Valid(board)

LEMMA BoardInit == Init => BoardInv
BY DEF Init, BoardInv, TypeOK, Boards, Valid, Known

LEMMA BoardStep == BoardInv /\ [Next]_vars => BoardInv'
<1> SUFFICES ASSUME BoardInv, [Next]_vars PROVE BoardInv'
  OBVIOUS
<1>1. CASE UNCHANGED vars
  BY <1>1 DEF vars, BoardInv, TypeOK, Valid, Known
<1>2. CASE Next
  <2>1. PICK i \in Ids : \/ Rewrites(i) \/ DeleteTask(i) \/ RestoreTask(i)
                         \/ HandleDelete(i) \/ HandleRestore(i)
    BY <1>2, StepCases DEF BoardInv
  <2>2. TypeOK' /\ Valid(board')
    <3>1. CASE Rewrites(i)
      BY <3>1, RewriteType DEF Rewrites, BoardInv
    <3>2. CASE RestoreTask(i)
      BY <3>2, RewriteType DEF RestoreTask, BoardInv, TypeOK, Undos
    <3>3. QED
      BY <2>1, <3>1, <3>2, DeleteFacts, RemoveFacts, PutBackFacts DEF BoardInv
  <2>3. QED
    BY <2>2 DEF BoardInv, Valid, Known
<1>3. QED
  BY <1>1, <1>2

\* Cards and undo payloads keep their types under every verb and handler.
THEOREM BoardTypes == Spec => []TypeOK
<1>1. BoardInv => TypeOK
  BY DEF BoardInv
<1>2. QED
  BY <1>1, BoardInit, BoardStep, PTL DEF Spec

-----------------------------------------------------------------------------
(* The dispatcher's two views.                                             *)

LEMMA ViewsPartition ==
    ASSUME BoardInv
    PROVE  RunnableXorBlocked
<1> SUFFICES ASSUME NEW i \in Known(board),
                    board[i].status \in RUNNABLE_STATUSES \cup {"blocked"}
             PROVE  i \in RunnableTasks(board) <=> i \notin BlockedTasks(board)
  BY DEF RunnableXorBlocked
<1>1. board[i].blocker => board[i].status = "blocked"
  BY DEF BoardInv, Valid
<1>2. i \in BlockedTasks(board) <=> DiagnoseBlocked(board, i) # "none"
  BY DEF BlockedTasks
<1>3. i \in RunnableTasks(board) <=>
         PassesBaseFilter(board[i]) /\ DepsSatisfied(board, i)
  BY DEF RunnableTasks
<1>4. CASE board[i].status = "blocked"
  BY <1>2, <1>3, <1>4 DEF DiagnoseBlocked, PassesBaseFilter, RUNNABLE_STATUSES
<1>5. CASE board[i].status \in RUNNABLE_STATUSES
  <2>1. board[i].status # "blocked" /\ ~board[i].blocker
    BY <1>1, <1>5 DEF RUNNABLE_STATUSES
  <2>2. QED
    BY <1>2, <1>3, <1>5, <2>1 DEF DiagnoseBlocked, PassesBaseFilter, DepsSatisfied
<1>6. QED
  BY <1>4, <1>5

\* runnable_tasks and blocked_tasks split the open cards between them: it
\* follows from the validator's rule that only a blocked card names a
\* blocker, which no verb or handler can get around.
THEOREM ViewsAgree == Spec => []RunnableXorBlocked
<1>1. BoardInv => RunnableXorBlocked
  BY ViewsPartition
<1>2. QED
  BY <1>1, BoardInit, BoardStep, PTL DEF Spec

-----------------------------------------------------------------------------
(* Tombstones.                                                             *)

LEMMA TombstoneStep == BoardInv /\ [Next]_vars => [\A i \in Ids : TombstoneKept(i)]_vars
<1> SUFFICES ASSUME BoardInv, Next, NEW j \in Ids,
                    Found(j), Tombstoned(board[j])
             PROVE  \/ Found(j)' /\ Tombstoned(board'[j])
                    \/ RestoreTask(j)
                    \/ HandleDelete(j)
  BY DEF TombstoneKept
<1>1. TypeOK /\ board[j] # NoCard
  BY DEF BoardInv, Found
<1>2. PICK i \in Ids : \/ Rewrites(i) \/ DeleteTask(i) \/ RestoreTask(i)
                       \/ HandleDelete(i) \/ HandleRestore(i)
  BY <1>1, StepCases
<1>3. CASE Rewrites(i)
  <2>1. PICK c \in Cards : /\ Rewrite(i, c)
                           /\ Found(i) /\ Tombstoned(board[i]) => Tombstoned(c)
    BY <1>3 DEF Rewrites
  <2>2. board'[i] = c /\ \A k \in Ids \ {i} : board'[k] = board[k]
    BY <1>1, <2>1, RewriteType
  <2>3. QED
    BY <1>1, <2>1, <2>2, NoCardAssumption DEF Found
<1>4. CASE DeleteTask(i)
  BY <1>1, <1>4, DeleteFacts DEF Found, Tombstoned
<1>5. CASE RestoreTask(i) /\ i # j
  <2>1. undo.card \in Cards
    BY <1>1, <1>5 DEF RestoreTask, TypeOK, Undos
  <2>2. board'[j] = board[j]
    BY <1>1, <1>5, <2>1, RewriteType DEF RestoreTask
  <2>3. QED
    BY <1>1, <2>2 DEF Found
<1>6. CASE HandleDelete(i) /\ i # j
  BY <1>1, <1>6, RemoveFacts DEF Found, Tombstoned
<1>7. CASE HandleRestore(i)
  BY <1>1, <1>7, PutBackFacts DEF Found, Tombstoned
<1>8. QED
  BY <1>2, <1>3, <1>4, <1>5, <1>6, <1>7

\* A deleted card stays deleted, and in the table, until restore_task puts
\* its payload back or the board's delete removes the row: though none of
\* the board's handlers looks for a tombstone, none can clear one.
THEOREM TombstonesStay == Spec => TombstoneStays
<1>1. Spec => []BoardInv
  BY BoardInit, BoardStep, PTL DEF Spec
<1>2. QED
  BY <1>1, TombstoneStep, PTL DEF Spec, TombstoneStays


-----------------------------------------------------------------------------
(* The board's Undo.                                                       *)

\* While nobody has written since a web delete, the board is what the delete
\* made of `before', and the payload is what it took out.
Undoable ==
    undo # NoUndo /\ undo.by = "web" /\ undo.before # NoBoard =>
        /\ undo.card = undo.before[undo.id]
        /\ undo.refs = ScrubbedRefs(undo.before, undo.id)
        /\ board = [Scrubbed(undo.before, undo.id) EXCEPT ![undo.id] = NoCard]

LEMMA UndoableStep == BoardInv /\ Undoable /\ [Next]_vars => Undoable'
<1> SUFFICES ASSUME BoardInv, Undoable, [Next]_vars PROVE Undoable'
  OBVIOUS
<1>1. CASE UNCHANGED vars
  BY <1>1 DEF vars, Undoable
<1>2. CASE Next
  <2>1. TypeOK
    BY DEF BoardInv
  <2>2. PICK i \in Ids : \/ Rewrites(i) \/ DeleteTask(i) \/ RestoreTask(i)
                         \/ HandleDelete(i) \/ HandleRestore(i)
    BY <1>2, <2>1, StepCases
  <2>3. CASE Rewrites(i)
    BY <2>1, <2>3, RewriteType DEF Rewrites, Undoable
  <2>4. CASE DeleteTask(i)
    BY <2>1, <2>4, DeleteFacts DEF Undoable
  <2>5. CASE RestoreTask(i)
    <3>1. undo.card \in Cards
      BY <2>1, <2>5 DEF RestoreTask, TypeOK, Undos
    <3>2. QED
      BY <2>1, <2>5, <3>1, RewriteType DEF RestoreTask, Undoable
  <2>6. CASE HandleDelete(i)
    <3>1. undo' = [by |-> "web", id |-> i, card |-> board[i],
                   refs |-> ScrubbedRefs(board, i), was |-> board[i],
                   before |-> board]
      BY <2>1, <2>6, RemoveFacts
    <3>2. board' = [Scrubbed(board, i) EXCEPT ![i] = NoCard]
      BY <2>1, <2>6, RemoveFacts
    <3>3. /\ undo'.card = board[i] /\ undo'.id = i /\ undo'.before = board
          /\ undo'.refs = ScrubbedRefs(board, i)
      BY <3>1
    <3>4. QED
      BY <3>2, <3>3 DEF Undoable
  <2>7. CASE HandleRestore(i)
    BY <2>1, <2>7, PutBackFacts DEF Undoable
  <2>8. QED
    BY <2>2, <2>3, <2>4, <2>5, <2>6, <2>7
<1>3. QED
  BY <1>1, <1>2

LEMMA WebUndoStep ==
    ASSUME BoardInv, Undoable, NEW i \in Ids, HandleRestore(i),
           undo.before # NoBoard
    PROVE  board' = undo.before
<1> DEFINE was == undo.before
           s == Scrubbed(was, i)
           with(j, kind) == IF j \in Known(board) /\ <<j, kind>> \in undo.refs
                            THEN {i} ELSE {}
           b == [j \in Ids |->
                   IF j \notin Known(board) THEN IF j = i THEN undo.card ELSE NoCard
                   ELSE [board[j] EXCEPT !.deps = @ \cup with(j, "depends_on"),
                                         !.blocks = @ \cup with(j, "blocks")]]
<1>1. board' = b
  BY DEF HandleRestore, Commit
<1>2. undo \in Undos /\ was \in Boards /\ undo.card \in Cards
  BY DEF BoardInv, TypeOK, HandleRestore, Undos
<1>3. /\ undo.card = was[i] /\ undo.refs = ScrubbedRefs(was, i)
      /\ board = [s EXCEPT ![i] = NoCard]
  BY DEF Undoable, HandleRestore
<1>4. s \in Boards
  BY <1>2, ScrubbedType
<1>5. board[i] = NoCard /\ \A j \in Ids \ {i} : board[j] = s[j]
  <2> HIDE DEF s
  <2>1. QED
    BY <1>3, <1>4 DEF Boards
<1>6. ASSUME NEW j \in Ids PROVE b[j] = was[j]
  <2>1. CASE j = i
    BY <2>1, <1>3, <1>5 DEF Known
  <2>2. CASE j # i /\ was[j] = NoCard
    <3>1. s[j] = was[j]
      BY <2>2 DEF Scrubbed, Known
    <3>2. QED
      BY <2>2, <3>1, <1>5 DEF Known
  <2>3. CASE j # i /\ was[j] # NoCard
    <3>1. was[j] \in Cards
      BY <2>3, <1>2, CardType
    <3>2. s[j] = [was[j] EXCEPT !.deps = @ \ {i}, !.blocks = @ \ {i}]
      BY <2>3 DEF Scrubbed, Known
    <3>3. [was[j] EXCEPT !.deps = @ \ {i}, !.blocks = @ \ {i}] \in Cards
      BY <3>1 DEF Cards
    <3>4. board[j] = s[j] /\ j \in Known(board)
      BY <2>3, <1>5, <3>2, <3>3, NoCardAssumption DEF Known
    <3>5. /\ <<j, "depends_on">> \in undo.refs <=> i \in was[j].deps
          /\ <<j, "blocks">> \in undo.refs <=> i \in was[j].blocks
      BY <2>3, <1>3 DEF ScrubbedRefs, Known
    <3>6. /\ with(j, "depends_on") = was[j].deps \cap {i}
          /\ with(j, "blocks") = was[j].blocks \cap {i}
      <4> HIDE DEF was
      <4>1. QED
        BY <3>4, <3>5
    <3>7. b[j] = [s[j] EXCEPT !.deps = @ \cup with(j, "depends_on"),
                              !.blocks = @ \cup with(j, "blocks")]
      BY <3>4
    <3> DEFINE c == was[j]
               x == s[j]
               D == with(j, "depends_on")
               K == with(j, "blocks")
               r == b[j]
    <3>8. /\ c \in Cards /\ D = c.deps \cap {i} /\ K = c.blocks \cap {i}
          /\ x = [c EXCEPT !.deps = @ \ {i}, !.blocks = @ \ {i}]
          /\ r = [x EXCEPT !.deps = @ \cup D, !.blocks = @ \cup K]
      <4> HIDE DEF s, was, with, b
      <4>1. QED
        BY <3>1, <3>2, <3>6, <3>7
    <3> HIDE DEF c, x, D, K, r
    <3>9. r = c
      <4>1. (c.deps \ {i}) \cup D = c.deps /\ (c.blocks \ {i}) \cup K = c.blocks
        BY <3>8
      <4>2. /\ x \in Cards
            /\ x.status = c.status /\ x.blocker = c.blocker /\ x.meta = c.meta
            /\ x.deps = c.deps \ {i} /\ x.blocks = c.blocks \ {i}
        BY <3>8 DEF Cards
      <4>3. QED
        BY <3>8, <4>1, <4>2 DEF Cards
    <3>10. QED
      BY <3>9 DEF r, c
  <2>4. QED
    BY <2>1, <2>2, <2>3
<1>7. b = was
  <2>1. was = [j \in Ids |-> was[j]]
    BY <1>2 DEF Boards
  <2>2. b = [j \in Ids |-> b[j]]
    OBVIOUS
  <2> HIDE DEF b, was
  <2>3. QED
    BY <1>6, <2>1, <2>2
<1>8. QED
  BY <1>1, <1>7

\* The web board's Undo is lossless for every board: when nobody wrote in
\* between, restoring a deleted card gives back the card, its place and every
\* edge that pointed at it.
THEOREM WebUndoIsLossless == Spec => WebUndoLossless
<1>1. Init => BoardInv /\ Undoable
  BY BoardInit DEF Init, Undoable
<1>2. BoardInv /\ Undoable /\ [Next]_vars => (BoardInv /\ Undoable)'
  BY BoardStep, UndoableStep
<1>3. BoardInv /\ Undoable => [\A i \in Ids : WebUndoes(i)]_vars
  BY WebUndoStep DEF WebUndoes
<1>4. QED
  BY <1>1, <1>2, <1>3, PTL DEF Spec, WebUndoLossless

-----------------------------------------------------------------------------
(* Who hears of a card (CardPeople, the instance Hear): its types.         *)

Ats == {"idle", "load", "check", "comment", "resolve", "send", "member"}
ProcRecords ==
    [at : Ats, by : People \cup {Nobody}, left : SUBSET Shared,
     ev : Hear!Events \cup {Hear!NoEvent}, tail : Hear!Events \cup {Hear!NoEvent},
     to : SUBSET People]

HearTypes ==
    /\ roster \in [Shared -> Hear!Cards]
    /\ tokens \in [Shared -> SUBSET Shared]
    /\ proc \in [Writers -> ProcRecords]
    /\ freed \subseteq Shared \X Shared
    /\ aware \in [Shared -> SUBSET (People \cup {Nobody})]
    /\ past \in [Shared -> SUBSET People]
    /\ lost \subseteq Shared

LEMMA EventFacts ==
    /\ \A type \in Hear!EventTypes, i \in Shared, by \in People \cup {Nobody} :
          /\ Hear!Event(type, i, by) \in Hear!Events
          /\ Hear!Event(type, i, by).type = type
          /\ Hear!Event(type, i, by).card = i
          /\ Hear!Event(type, i, by).actor = by
    /\ \A e \in Hear!Events : /\ e.card \in Shared /\ e # Hear!NoEvent
                              /\ e.actor \in People \cup {Nobody}
    /\ "completed" \in Hear!EventTypes /\ "status_changed" \in Hear!EventTypes
    /\ "reassigned" \in Hear!EventTypes /\ "commented" \in Hear!EventTypes
BY DEF Hear!Event, Hear!Events, Hear!EventTypes, Hear!NoEvent

LEMMA IdleFacts ==
    /\ Hear!Idle \in ProcRecords
    /\ Hear!Idle.at = "idle" /\ Hear!Idle.left = {} /\ Hear!Idle.to = {}
    /\ Hear!Idle.ev = Hear!NoEvent /\ Hear!Idle.tail = Hear!NoEvent
BY DEF Hear!Idle, ProcRecords, Ats

\* What a verb leaves its process to do.
LEMMA EmitsFacts ==
    ASSUME HearTypes, NEW w \in Writers, NEW by \in People \cup {Nobody},
           NEW e \in Hear!Events, Hear!Emits(w, by, e)
    PROVE  /\ proc' \in [Writers -> ProcRecords]
           /\ \A v \in Writers \ {w} : proc'[v] = proc[v]
           /\ proc'[w].at = "resolve" /\ proc'[w].by = by /\ proc'[w].ev = e
           /\ proc'[w].tail = Hear!NoEvent
<1> DEFINE p == [Hear!Idle EXCEPT !.at = "resolve", !.by = by, !.ev = e]
<1>1. proc' = [proc EXCEPT ![w] = p]
  BY DEF Hear!Emits, Hear!Becomes
<1>2. /\ p \in ProcRecords /\ p.at = "resolve" /\ p.by = by /\ p.ev = e
      /\ p.tail = Hear!NoEvent
  BY IdleFacts DEF ProcRecords, Ats
<1> HIDE DEF p
<1>3. QED
  BY <1>1, <1>2 DEF HearTypes

LEMMA DrivesFacts ==
    ASSUME HearTypes, NEW w \in Writers, NEW by \in People \cup {Nobody},
           NEW e \in Hear!Events, Hear!Drives(w, by, e)
    PROVE  /\ proc' \in [Writers -> ProcRecords]
           /\ \A v \in Writers \ {w} : proc'[v] = proc[v]
           /\ proc'[w].at = "load" /\ proc'[w].by = by /\ proc'[w].tail = e
<1> DEFINE p == [Hear!Idle EXCEPT !.at = "load", !.by = by, !.tail = e]
<1>1. proc' = [proc EXCEPT ![w] = p]
  BY DEF Hear!Drives, Hear!Becomes
<1>2. p \in ProcRecords /\ p.at = "load" /\ p.by = by /\ p.tail = e
  BY IdleFacts DEF ProcRecords, Ats
<1> HIDE DEF p
<1>3. QED
  BY <1>1, <1>2 DEF HearTypes

-----------------------------------------------------------------------------
(* What a drive or an event still owes the owner of card i.                *)

\* The event at hand is in the hands of the dispatcher, with the owner
\* among its recipients.
Sending(w, i) ==
    proc[w].at = "send" /\ proc[w].ev.card = i /\ roster[i].agent \in proc[w].to

\* The event at hand is still to be resolved, and goes to the owner.
Resolving(w, i) ==
    /\ proc[w].at = "resolve" /\ proc[w].ev.card = i
    /\ proc[w].ev.type \in {"commented", "reassigned"}
    /\ proc[w].ev.actor \in aware[i]

\* The drive of u has i before it.
Driving(w, u, i) ==
    /\ u \notin tokens[i]
    /\ proc[w].tail # Hear!NoEvent /\ proc[w].tail.card = u
    /\ \/ proc[w].at = "load"
       \/ proc[w].at \in {"check", "comment", "resolve", "send"} /\ i \in proc[w].left
       \/ proc[w].at = "comment" /\ proc[w].ev.card = i

Owed(u, i) ==
    \E w \in Writers : Sending(w, i) \/ Resolving(w, i) \/ Driving(w, u, i)

Heard(i) ==
    \/ i \in lost
    \/ roster[i].agent \in aware[i]
    \/ \E type \in {"commented", "reassigned"} : <<roster[i].agent, type>> \in Mutes

\* Every card a completion freed, and that still is, has been or will be
\* heard of.
FreedIsOwed ==
    \A f \in freed :
        /\ f[2] \in Hear!RunnableTasks(roster)
        /\ f[2] \in Hear!Dependents(roster, f[1])
        /\ Heard(f[2]) \/ Owed(f[1], f[2])

\* What a process has at hand at each step.
ProcFits(p) ==
    /\ p.at \in {"load", "check", "comment"} => p.tail # Hear!NoEvent
    /\ p.at \in {"comment", "resolve", "send", "member"} => p.ev # Hear!NoEvent
    /\ p.at = "comment" => p.ev.type = "commented" /\ p.ev.actor = p.by
ProcsFit == \A w \in Writers : ProcFits(proc[w])

\* Whoever handed a card on, or created it, is its owner or subscribed.
PastStay ==
    \A i \in Shared : past[i] \subseteq {roster[i].agent} \cup roster[i].subscribers

HearInv == HearTypes /\ ProcsFit /\ FreedIsOwed /\ PastStay

-----------------------------------------------------------------------------
(* A write.                                                                *)

LEMMA StoreFacts ==
    ASSUME HearTypes, NEW b \in [Shared -> Hear!Cards], NEW done \in SUBSET Shared,
           NEW by \in People \cup {Nobody}, NEW on \in SUBSET Shared,
           \A d, e \in done : d = e, Hear!Store(b, done, by, on)
    PROVE  /\ roster' = b /\ freed' \subseteq Shared \X Shared
           /\ aware' \in [Shared -> SUBSET (People \cup {Nobody})]
           /\ \A f \in freed' : /\ f[2] \in Hear!RunnableTasks(roster')
                                /\ f[2] \in Hear!Dependents(roster', f[1])
           /\ \A f \in freed' : f \in freed \/ (f[1] \in done /\ f[1] \notin tokens[f[2]])
           /\ \A i \in Hear!RunnableTasks(roster) : aware[i] \subseteq aware'[i]
           /\ \A i \in on : by \in aware'[i]
<1> DEFINE new == {<<u, i>> : u \in done,
                              i \in UNION {Hear!NewlyFreed(b, v) : v \in done}}
<1>1. /\ roster' = b
      /\ freed' = {f \in freed \cup new : /\ f[2] \in Hear!RunnableTasks(b)
                                          /\ f[2] \in Hear!Dependents(b, f[1])}
      /\ aware' = [i \in Shared |->
                      IF \E u \in done : <<u, i>> \in new THEN {by}
                      ELSE IF i \in on THEN aware[i] \cup {by} ELSE aware[i]]
  BY DEF Hear!Store
<1>2. ASSUME NEW f \in new
      PROVE  /\ f \in Shared \X Shared /\ f[1] \in done /\ f[1] \notin tokens[f[2]]
             /\ f[2] \notin Hear!RunnableTasks(roster)
  <2>1. PICK u \in done, i \in UNION {Hear!NewlyFreed(b, v) : v \in done} : f = <<u, i>>
    OBVIOUS
  <2>2. i \in Hear!NewlyFreed(b, u)
    BY <2>1
  <2>3. i \in Shared /\ i \notin Hear!RunnableTasks(roster) /\ u \notin tokens[i]
    BY <2>2 DEF Hear!NewlyFreed, Hear!RunnableTasks, Hear!Known
  <2>4. QED
    BY <2>1, <2>3
<1> HIDE DEF new
<1>3. \A i \in Shared, u \in done : <<u, i>> \in new => i \notin Hear!RunnableTasks(roster)
  <2> TAKE i \in Shared, u \in done
  <2>1. SUFFICES ASSUME <<u, i>> \in new PROVE i \notin Hear!RunnableTasks(roster)
    OBVIOUS
  <2>2. <<u, i>>[2] \notin Hear!RunnableTasks(roster)
    BY <1>2, <2>1
  <2>3. QED
    BY <2>2
<1>4. \A i \in Hear!RunnableTasks(roster) : i \in Shared
  BY DEF Hear!RunnableTasks, Hear!Known
<1>5. /\ aware' \in [Shared -> SUBSET (People \cup {Nobody})]
      /\ \A i \in Hear!RunnableTasks(roster) : aware[i] \subseteq aware'[i]
      /\ \A i \in on : by \in aware'[i]
  BY <1>1, <1>3, <1>4 DEF HearTypes
<1>6. /\ freed' \subseteq Shared \X Shared
      /\ \A f \in freed' : f \in freed \/ (f[1] \in done /\ f[1] \notin tokens[f[2]])
  <2>1. \A f \in freed' : f \in freed \/ f \in new
    BY <1>1
  <2>2. freed \subseteq Shared \X Shared
    BY DEF HearTypes
  <2>3. QED
    BY <1>2, <2>1, <2>2
<1>7. QED
  BY <1>1, <1>5, <1>6

\* A process with nothing to tell writes, and has the drive of what it
\* completed before it.  Where the owner changes, the new one is told.
LEMMA WriteKeeps ==
    ASSUME HearInv, NEW w \in Writers, proc[w].at \in {"idle", "member"},
           NEW b \in [Shared -> Hear!Cards], NEW done \in SUBSET Shared,
           NEW by \in People \cup {Nobody}, NEW on \in SUBSET Shared,
           \A d, e \in done : d = e, Hear!Store(b, done, by, on),
           tokens' = tokens, lost \subseteq lost', lost' \subseteq Shared,
           proc' \in [Writers -> ProcRecords], ProcFits(proc'[w]),
           \A v \in Writers \ {w} : proc'[v] = proc[v],
           \A d \in done : /\ proc'[w].at = "load" /\ proc'[w].tail # Hear!NoEvent
                           /\ proc'[w].tail.card = d,
           \A i \in Shared : \/ b[i].agent = roster[i].agent
                             \/ i \in lost' \/ Resolving(w, i)',
           past' \in [Shared -> SUBSET People],
           \A i \in Shared : past'[i] \subseteq {b[i].agent} \cup b[i].subscribers
    PROVE  HearInv'
<1>1. HearTypes
  BY DEF HearInv
<1>2. /\ roster' = b /\ freed' \subseteq Shared \X Shared
      /\ aware' \in [Shared -> SUBSET (People \cup {Nobody})]
      /\ \A f \in freed' : /\ f[2] \in Hear!RunnableTasks(roster')
                           /\ f[2] \in Hear!Dependents(roster', f[1])
      /\ \A f \in freed' : f \in freed \/ (f[1] \in done /\ f[1] \notin tokens[f[2]])
      /\ \A i \in Hear!RunnableTasks(roster) : aware[i] \subseteq aware'[i]
  BY <1>1, StoreFacts
<1>3. HearTypes'
  BY <1>1, <1>2 DEF HearTypes
<1>4. ProcsFit' /\ PastStay'
  BY <1>2 DEF HearInv, ProcsFit, PastStay
<1>5. ASSUME NEW f \in freed' PROVE Heard(f[2])' \/ Owed(f[1], f[2])'
  <2>1. f[1] \in Shared /\ f[2] \in Shared
    BY <1>2, <1>5
  <2>2. CASE f[1] \in done /\ f[1] \notin tokens[f[2]]
    <3>1. Driving(w, f[1], f[2])'
      BY <2>2 DEF Driving
    <3>2. QED
      BY <3>1 DEF Owed
  <2>3. CASE f \in freed /\ (f[2] \in lost' \/ Resolving(w, f[2])')
    BY <2>3 DEF Heard, Owed
  <2>4. CASE f \in freed /\ b[f[2]].agent = roster[f[2]].agent
    <3>1. aware[f[2]] \subseteq aware'[f[2]] /\ (Heard(f[2]) \/ Owed(f[1], f[2]))
      BY <1>2, <2>4 DEF HearInv, FreedIsOwed
    <3>2. CASE Heard(f[2])
      BY <1>2, <2>4, <3>1, <3>2 DEF Heard
    <3>3. CASE Owed(f[1], f[2])
      <4>1. PICK v \in Writers :
               Sending(v, f[2]) \/ Resolving(v, f[2]) \/ Driving(v, f[1], f[2])
        BY <3>3 DEF Owed
      <4>2. proc'[v] = proc[v]
        BY <4>1 DEF Sending, Resolving, Driving
      <4>3. Sending(v, f[2])' \/ Resolving(v, f[2])' \/ Driving(v, f[1], f[2])'
        BY <1>2, <2>4, <3>1, <4>1, <4>2 DEF Sending, Resolving, Driving
      <4>4. QED
        BY <4>3 DEF Owed
    <3>4. QED
      BY <3>1, <3>2, <3>3
  <2>5. QED
    BY <1>2, <2>1, <2>2, <2>3, <2>4
<1>6. FreedIsOwed'
  BY <1>2, <1>5 DEF FreedIsOwed
<1>7. QED
  BY <1>3, <1>4, <1>6 DEF HearInv

\* Writes that leave the owners as they are and nobody out.
Milder(b) ==
    /\ b \in [Shared -> Hear!Cards]
    /\ \A i \in Shared : /\ b[i].agent = roster[i].agent
                         /\ roster[i].subscribers \subseteq b[i].subscribers

\* One row is rewritten.
LEMMA MildRow ==
    ASSUME HearTypes, NEW i \in Shared, NEW c \in Hear!Cards,
           c.agent = roster[i].agent, roster[i].subscribers \subseteq c.subscribers
    PROVE  Milder([roster EXCEPT ![i] = c])
BY DEF Milder, HearTypes

LEMMA MildFields ==
    ASSUME HearTypes, NEW i \in Shared, NEW s \in Hear!UsedStatuses
    PROVE  /\ Milder([roster EXCEPT ![i].status = s])
           /\ \A bl \in BOOLEAN :
                 Milder([roster EXCEPT ![i].status = s, ![i].blocker = bl])
<1>1. roster \in [Shared -> Hear!Cards] /\ roster[i] \in Hear!Cards
  BY DEF HearTypes
<1>2. Milder([roster EXCEPT ![i].status = s])
  <2> DEFINE c == [roster[i] EXCEPT !.status = s]
  <2>1. /\ c \in Hear!Cards /\ c.agent = roster[i].agent
        /\ c.subscribers = roster[i].subscribers
    BY <1>1 DEF Hear!Cards
  <2>2. [roster EXCEPT ![i].status = s] = [roster EXCEPT ![i] = c]
    BY <1>1
  <2> HIDE DEF c
  <2>3. Milder([roster EXCEPT ![i] = c])
    BY <2>1, MildRow
  <2>4. QED
    BY <2>2, <2>3
<1>3. ASSUME NEW bl \in BOOLEAN
      PROVE  Milder([roster EXCEPT ![i].status = s, ![i].blocker = bl])
  <2> DEFINE c == [roster[i] EXCEPT !.status = s, !.blocker = bl]
  <2>1. /\ c \in Hear!Cards /\ c.agent = roster[i].agent
        /\ c.subscribers = roster[i].subscribers
    BY <1>1 DEF Hear!Cards
  <2>2. [roster EXCEPT ![i].status = s, ![i].blocker = bl] = [roster EXCEPT ![i] = c]
    BY <1>1
  <2> HIDE DEF c
  <2>3. Milder([roster EXCEPT ![i] = c])
    BY <2>1, MildRow
  <2>4. QED
    BY <2>2, <2>3
<1>4. QED
  BY <1>2, <1>3

LEMMA MildWrite ==
    ASSUME HearInv, NEW w \in Writers, proc[w].at \in {"idle", "member"},
           NEW b, Milder(b), NEW done \in SUBSET Shared,
           NEW by \in People \cup {Nobody}, NEW on \in SUBSET Shared,
           \A d, e \in done : d = e, Hear!Store(b, done, by, on), Hear!Quietly,
           proc' \in [Writers -> ProcRecords], ProcFits(proc'[w]),
           \A v \in Writers \ {w} : proc'[v] = proc[v],
           \A d \in done : /\ proc'[w].at = "load" /\ proc'[w].tail # Hear!NoEvent
                           /\ proc'[w].tail.card = d
    PROVE  HearInv'
<1>1. /\ tokens' = tokens /\ lost \subseteq lost' /\ lost' \subseteq Shared
      /\ past' = past /\ past' \in [Shared -> SUBSET People]
  BY DEF Hear!Quietly, HearInv, HearTypes
<1>2. b \in [Shared -> Hear!Cards]
  BY DEF Milder
<1>3. \A i \in Shared : \/ b[i].agent = roster[i].agent
                        \/ i \in lost' \/ Resolving(w, i)'
  BY DEF Milder
<1>4. \A i \in Shared : past'[i] \subseteq {b[i].agent} \cup b[i].subscribers
  BY <1>1 DEF Milder, HearInv, PastStay
<1>5. QED
  BY <1>1, <1>2, <1>3, <1>4, WriteKeeps

LEMMA FreeIsIdle ==
    ASSUME NEW w \in Writers, Hear!Free(w)
    PROVE  proc[w] = Hear!Idle /\ proc[w].at \in {"idle", "member"}
BY IdleFacts DEF Hear!Free

LEMMA CallersArePeople == Callers \subseteq People
BY HearAssumption DEF Hear!PeopleAssumption

\* A verb that completes i, and drives its dependents.
LEMMA CompletingKeeps ==
    ASSUME HearInv, NEW w \in Writers, Hear!Free(w), NEW i \in Shared,
           NEW b, Milder(b), NEW done \in SUBSET {i}, NEW by \in People,
           Hear!Store(b, done, by, {i}), Hear!Quietly,
           NEW e \in Hear!Events, e.card = i, Hear!Drives(w, by, e)
    PROVE  HearInv'
<1>1. HearTypes
  BY DEF HearInv
<1>2. /\ proc' \in [Writers -> ProcRecords]
      /\ \A v \in Writers \ {w} : proc'[v] = proc[v]
      /\ proc'[w].at = "load" /\ proc'[w].by = by /\ proc'[w].tail = e
  BY <1>1, DrivesFacts
<1>3. e # Hear!NoEvent
  BY EventFacts
<1>4. ProcFits(proc'[w])
  BY <1>2, <1>3 DEF ProcFits
<1>5. \A d \in done : /\ proc'[w].at = "load" /\ proc'[w].tail # Hear!NoEvent
                      /\ proc'[w].tail.card = d
  BY <1>2, <1>3
<1>6. done \in SUBSET Shared /\ {i} \in SUBSET Shared /\ by \in People \cup {Nobody}
  OBVIOUS
<1>7. \A d, f \in done : d = f
  OBVIOUS
<1>8. proc[w].at \in {"idle", "member"}
  BY FreeIsIdle
<1>9. QED
  BY <1>2, <1>4, <1>5, <1>6, <1>7, <1>8, MildWrite

\* A verb that completes nothing and emits an event.
LEMMA EmittingKeeps ==
    ASSUME HearInv, NEW w \in Writers, Hear!Free(w),
           NEW b, Milder(b), NEW by \in People \cup {Nobody}, NEW on \in SUBSET Shared,
           NEW doer \in People \cup {Nobody}, Hear!Store(b, {}, doer, on), Hear!Quietly,
           NEW e \in Hear!Events, Hear!Emits(w, by, e)
    PROVE  HearInv'
<1>1. HearTypes
  BY DEF HearInv
<1>2. /\ proc' \in [Writers -> ProcRecords]
      /\ \A v \in Writers \ {w} : proc'[v] = proc[v]
      /\ proc'[w].at = "resolve" /\ proc'[w].ev = e
  BY <1>1, EmitsFacts
<1>3. ProcFits(proc'[w])
  BY <1>2, EventFacts DEF ProcFits
<1>4. proc[w].at \in {"idle", "member"}
  BY FreeIsIdle
<1>5. QED
  BY <1>2, <1>3, <1>4, MildWrite

\* A verb that emits nothing.
LEMMA ReturningKeeps ==
    ASSUME HearInv, NEW w \in Writers, Hear!Free(w),
           NEW b, Milder(b), Hear!Store(b, {}, Nobody, {}), Hear!Quietly,
           Hear!Returns
    PROVE  HearInv'
<1>1. proc' = proc
  BY DEF Hear!Returns
<1>2. /\ proc' \in [Writers -> ProcRecords] /\ ProcFits(proc'[w])
      /\ \A v \in Writers \ {w} : proc'[v] = proc[v]
  BY <1>1 DEF HearInv, HearTypes, ProcsFit
<1>3. proc[w].at \in {"idle", "member"} /\ Nobody \in People \cup {Nobody}
  BY FreeIsIdle
<1>4. QED
  BY <1>2, <1>3, MildWrite

-----------------------------------------------------------------------------
(* The verbs.                                                              *)

LEMMA CompleteKeeps ==
    ASSUME HearInv, NEW w \in Writers, NEW i \in Shared, NEW by \in Callers,
           Hear!complete_task(w, i, by) \/ Hear!resolve_task(w, i, by)
    PROVE  HearInv'
<1> DEFINE c == [roster EXCEPT ![i].status = "done"]
           r == [roster EXCEPT ![i].status = "done", ![i].blocker = FALSE]
<1>1. by \in People
  BY CallersArePeople
<1>2. Milder(c) /\ Milder(r)
  BY MildFields DEF HearInv, Hear!UsedStatuses
<1>3. CASE Hear!complete_task(w, i, by)
  <2> DEFINE e == Hear!Event("completed", i, by)
  <2>1. e \in Hear!Events /\ e.card = i
    BY <1>1, EventFacts
  <2>2. /\ Hear!Free(w) /\ Hear!Store(c, {i}, by, {i})
        /\ Hear!Drives(w, by, e) /\ Hear!Quietly
    BY <1>3 DEF Hear!complete_task, Hear!WithStatus
  <2> HIDE DEF c, e
  <2>3. QED
    BY <1>1, <1>2, <2>1, <2>2, CompletingKeeps
<1>4. CASE Hear!resolve_task(w, i, by)
  <2> DEFINE e == Hear!Event("status_changed", i, by)
  <2>1. e \in Hear!Events /\ e.card = i
    BY <1>1, EventFacts
  <2>2. /\ Hear!Free(w) /\ Hear!Store(r, {i}, by, {i})
        /\ Hear!Drives(w, by, e) /\ Hear!Quietly
    BY <1>4 DEF Hear!resolve_task
  <2> HIDE DEF r, e
  <2>3. QED
    BY <1>1, <1>2, <2>1, <2>2, CompletingKeeps
<1>5. QED
  BY <1>3, <1>4

LEMMA UpdateKeeps ==
    ASSUME HearInv, NEW w \in Writers, NEW i \in Shared, NEW by \in Callers,
           NEW s \in Hear!UsedStatuses, Hear!update_task(w, i, s, by)
    PROVE  HearInv'
<1> DEFINE c == [roster EXCEPT ![i].status = s]
           done == {i} \cap {j \in Shared : s = "done"}
<1>1. by \in People
  BY CallersArePeople
<1>2. Milder(c)
  BY MildFields DEF HearInv
<1>3. Hear!Free(w) /\ Hear!Store(c, done, by, {i}) /\ Hear!Quietly
  BY DEF Hear!update_task, Hear!WithStatus
<1>4. CASE s = "done"
  <2> DEFINE e == Hear!Event("completed", i, Nobody)
  <2>1. e \in Hear!Events /\ e.card = i
    BY EventFacts
  <2>2. Hear!Drives(w, by, e) /\ done \in SUBSET {i}
    BY <1>4 DEF Hear!update_task
  <2> HIDE DEF c, e, done
  <2>3. QED
    BY <1>1, <1>2, <1>3, <2>1, <2>2, CompletingKeeps
<1>5. CASE s # "done"
  <2> DEFINE e == Hear!Event("status_changed", i, Nobody)
  <2>1. e \in Hear!Events
    BY EventFacts
  <2>2. Hear!Emits(w, by, e) /\ done = {}
    BY <1>5 DEF Hear!update_task
  <2> HIDE DEF c, e, done
  <2>3. QED
    BY <1>1, <1>2, <1>3, <2>1, <2>2, EmittingKeeps
<1>6. QED
  BY <1>4, <1>5

LEMMA CommentKeeps ==
    ASSUME HearInv, NEW w \in Writers, NEW i \in Shared, NEW by \in Callers,
           Hear!comment_task(w, i, by)
    PROVE  HearInv'
<1> DEFINE e == Hear!Event("commented", i, by)
<1>1. by \in People
  BY CallersArePeople
<1>2. Milder(roster)
  BY DEF Milder, HearInv, HearTypes
<1>3. e \in Hear!Events
  BY <1>1, EventFacts
<1>4. /\ Hear!Free(w) /\ Hear!Store(roster, {}, by, {i})
      /\ Hear!Emits(w, by, e) /\ Hear!Quietly
  BY DEF Hear!comment_task
<1> HIDE DEF e
<1>5. QED
  BY <1>1, <1>2, <1>3, <1>4, EmittingKeeps

LEMMA ReopenKeeps ==
    ASSUME HearInv, NEW w \in Writers, NEW i \in Shared, Hear!reopen_task(w, i)
    PROVE  HearInv'
<1> DEFINE c == [roster EXCEPT ![i].status = "blocked", ![i].blocker = TRUE]
<1>1. Milder(c)
  BY MildFields DEF HearInv, Hear!UsedStatuses
<1>2. /\ Hear!Free(w) /\ Hear!Store(c, {}, Nobody, {})
      /\ Hear!Returns /\ Hear!Quietly
  BY DEF Hear!reopen_task
<1> HIDE DEF c
<1>3. QED
  BY <1>1, <1>2, ReturningKeeps

LEMMA EdgeKeeps ==
    ASSUME HearInv, NEW w \in Writers, NEW e \in Waits,
           NEW action \in {"add", "remove"}, Hear!set_edge(w, e, action)
    PROVE  HearInv'
<1> DEFINE src == e[2]
           tgt == e[3]
           waiter == IF e[1] = "depends_on" THEN src ELSE tgt
           awaited == IF e[1] = "depends_on" THEN tgt ELSE src
           edges(S) == IF action = "add" THEN S \cup {tgt} ELSE S \ {tgt}
           linked == IF e[1] = "depends_on"
                     THEN [roster EXCEPT ![src].deps = edges(@)]
                     ELSE [roster EXCEPT ![src].blocks = edges(@)]
           b == IF action = "add"
                THEN [linked EXCEPT ![awaited].subscribers =
                                           @ \cup {roster[waiter].agent}]
                ELSE linked
<1>1. /\ Hear!Free(w) /\ Hear!Store(b, {}, Nobody, {})
      /\ Hear!Returns /\ Hear!Quietly
  BY DEF Hear!set_edge
<1>2. src \in Shared /\ tgt \in Shared
  BY HearAssumption DEF Hear!PeopleAssumption
<1>3. waiter \in Shared /\ awaited \in Shared
  BY <1>2
<1>4. roster \in [Shared -> Hear!Cards]
  BY DEF HearInv, HearTypes
<1>5. Milder(linked)
  <2>1. CASE e[1] = "depends_on"
    <3> DEFINE c == [roster[src] EXCEPT !.deps = edges(@)]
    <3>1. /\ c \in Hear!Cards /\ c.agent = roster[src].agent
          /\ c.subscribers = roster[src].subscribers
      BY <1>2, <1>4 DEF Hear!Cards
    <3>2. linked = [roster EXCEPT ![src] = c]
      BY <1>2, <1>4, <2>1
    <3> HIDE DEF c, linked
    <3>3. Milder([roster EXCEPT ![src] = c])
      BY <1>2, <3>1, MildRow DEF HearInv
    <3>4. QED
      BY <3>2, <3>3
  <2>2. CASE e[1] # "depends_on"
    <3> DEFINE c == [roster[src] EXCEPT !.blocks = edges(@)]
    <3>1. /\ c \in Hear!Cards /\ c.agent = roster[src].agent
          /\ c.subscribers = roster[src].subscribers
      BY <1>2, <1>4 DEF Hear!Cards
    <3>2. linked = [roster EXCEPT ![src] = c]
      BY <1>2, <1>4, <2>2
    <3> HIDE DEF c, linked
    <3>3. Milder([roster EXCEPT ![src] = c])
      BY <1>2, <3>1, MildRow DEF HearInv
    <3>4. QED
      BY <3>2, <3>3
  <2>3. QED
    BY <2>1, <2>2
<1>6. roster[waiter].agent \in People
  BY <1>3, <1>4 DEF Hear!Cards
<1> HIDE DEF linked, waiter, awaited
<1>7. Milder(b)
  <2>1. CASE action = "add"
    <3> DEFINE p == roster[waiter].agent
               c == [linked[awaited] EXCEPT !.subscribers = @ \cup {p}]
    <3>1. linked \in [Shared -> Hear!Cards]
      BY <1>5 DEF Milder
    <3>2. /\ c \in Hear!Cards /\ c.agent = linked[awaited].agent
          /\ linked[awaited].subscribers \subseteq c.subscribers
      BY <1>3, <1>6, <3>1 DEF Hear!Cards
    <3>3. b = [linked EXCEPT ![awaited] = c]
      BY <1>3, <2>1, <3>1
    <3> HIDE DEF c, b
    <3>4. b \in [Shared -> Hear!Cards] /\ b[awaited] = c
          /\ \A j \in Shared \ {awaited} : b[j] = linked[j]
      BY <1>3, <3>1, <3>2, <3>3
    <3>5. QED
      BY <1>5, <3>2, <3>4 DEF Milder
  <2>2. CASE action # "add"
    BY <1>5, <2>2
  <2>3. QED
    BY <2>1, <2>2
<1> HIDE DEF b
<1>8. QED
  BY <1>1, <1>7, ReturningKeeps

LEMMA JoinedFacts ==
    ASSUME NEW S \in SUBSET People, NEW p \in People, NEW action
    PROVE  /\ Hear!Joined(S, p, action) \in SUBSET People
           /\ action = "add" => S \subseteq Hear!Joined(S, p, action)
           /\ S \ {p} \subseteq Hear!Joined(S, p, action)
BY DEF Hear!Joined

LEMMA SubscribedFacts ==
    ASSUME HearTypes, NEW i \in Shared, NEW p \in People, NEW action
    PROVE  LET b == [roster EXCEPT ![i].subscribers = Hear!Joined(@, p, action)]
           IN  /\ b \in [Shared -> Hear!Cards]
               /\ \A j \in Shared : /\ b[j].agent = roster[j].agent
                                    /\ j # i => b[j] = roster[j]
               /\ roster[i].subscribers \ {p} \subseteq b[i].subscribers
               /\ action = "add" => Milder(b)
<1> DEFINE c == [roster[i] EXCEPT !.subscribers = Hear!Joined(@, p, action)]
           b == [roster EXCEPT ![i].subscribers = Hear!Joined(@, p, action)]
<1>1. roster \in [Shared -> Hear!Cards] /\ roster[i].subscribers \in SUBSET People
  BY DEF HearTypes, Hear!Cards
<1>2. /\ c \in Hear!Cards /\ c.agent = roster[i].agent
      /\ action = "add" => roster[i].subscribers \subseteq c.subscribers
      /\ roster[i].subscribers \ {p} \subseteq c.subscribers
  <2> DEFINE J == Hear!Joined(roster[i].subscribers, p, action)
  <2>1. /\ J \in SUBSET People
        /\ action = "add" => roster[i].subscribers \subseteq J
        /\ roster[i].subscribers \ {p} \subseteq J
    BY <1>1, JoinedFacts
  <2>2. c = [roster[i] EXCEPT !.subscribers = J] /\ roster[i] \in Hear!Cards
    BY <1>1
  <2> HIDE DEF J, c
  <2>3. /\ c \in Hear!Cards /\ c.agent = roster[i].agent /\ c.subscribers = J
    BY <2>1, <2>2 DEF Hear!Cards
  <2>4. QED
    BY <2>1, <2>3
<1>3. b = [roster EXCEPT ![i] = c]
  BY <1>1
<1> HIDE DEF c, b
<1>4. /\ b \in [Shared -> Hear!Cards] /\ b[i] = c
      /\ \A j \in Shared : j # i => b[j] = roster[j]
  BY <1>1, <1>2, <1>3
<1>5. action = "add" => Milder(b)
  BY <1>2, <1>3, MildRow
<1>6. QED
  BY <1>2, <1>4, <1>5 DEF b

LEMMA SubscriberKeeps ==
    ASSUME HearInv, NEW w \in Writers, NEW i \in Shared, NEW p \in People,
           NEW action \in {"add", "remove"}, Hear!set_subscriber(w, i, p, action)
    PROVE  HearInv'
<1> DEFINE b == [roster EXCEPT ![i].subscribers = Hear!Joined(@, p, action)]
<1>1. /\ Hear!Free(w) /\ Hear!Store(b, {}, Nobody, {}) /\ proc' = proc
      /\ past' = IF action = "add" THEN past ELSE [past EXCEPT ![i] = @ \ {p}]
      /\ tokens' = tokens /\ lost' = lost
  BY DEF Hear!set_subscriber, Hear!Subscribe, Hear!Returns
<1>2. HearTypes
  BY DEF HearInv
<1>3. /\ b \in [Shared -> Hear!Cards]
      /\ \A j \in Shared : /\ b[j].agent = roster[j].agent
                           /\ j # i => b[j] = roster[j]
      /\ roster[i].subscribers \ {p} \subseteq b[i].subscribers
      /\ action = "add" => Milder(b)
  BY <1>2, SubscribedFacts
<1> HIDE DEF b
<1>4. \A j \in Shared : past'[j] \subseteq {b[j].agent} \cup b[j].subscribers
  <2>1. \A j \in Shared : past[j] \subseteq {roster[j].agent} \cup roster[j].subscribers
    BY DEF HearInv, PastStay
  <2>2. CASE action = "add"
    BY <1>1, <1>3, <2>1, <2>2 DEF Milder
  <2>3. CASE action # "add"
    BY <1>1, <1>2, <1>3, <2>1, <2>3 DEF HearTypes
  <2>4. QED
    BY <2>2, <2>3
<1>5. past' \in [Shared -> SUBSET People]
  BY <1>1, <1>2 DEF HearTypes
<1>6. /\ proc' \in [Writers -> ProcRecords] /\ ProcFits(proc'[w])
      /\ \A v \in Writers \ {w} : proc'[v] = proc[v]
  BY <1>1 DEF HearInv, HearTypes, ProcsFit
<1>7. proc[w].at \in {"idle", "member"} /\ Nobody \in People \cup {Nobody}
  BY <1>1, FreeIsIdle
<1>8. tokens' = tokens /\ lost \subseteq lost' /\ lost' \subseteq Shared
  BY <1>1, <1>2 DEF HearTypes
<1>9. QED
  BY <1>1, <1>3, <1>4, <1>5, <1>6, <1>7, <1>8, WriteKeeps

LEMMA CollaboratorKeeps ==
    ASSUME HearInv, NEW w \in Writers, NEW i \in Shared, NEW p \in People,
           NEW action \in {"add", "remove"}, Hear!set_collaborator(w, i, p, action)
    PROVE  HearInv'
<1> DEFINE b == [roster EXCEPT ![i].collaborators = Hear!Joined(@, p, action)]
<1>1. Hear!Free(w) /\ Hear!Store(b, {}, Nobody, {}) /\ Hear!Quietly
  BY DEF Hear!set_collaborator
<1>2. HearTypes /\ roster \in [Shared -> Hear!Cards]
  BY DEF HearInv, HearTypes
<1>3. Milder(b)
  <2> DEFINE J == Hear!Joined(roster[i].collaborators, p, action)
             c == [roster[i] EXCEPT !.collaborators = J]
  <2>1. roster[i] \in Hear!Cards /\ roster[i].collaborators \in SUBSET People
    BY <1>2 DEF Hear!Cards
  <2>2. J \in SUBSET People
    BY <2>1, JoinedFacts
  <2>3. b = [roster EXCEPT ![i] = c]
    BY <1>2
  <2> HIDE DEF J
  <2>4. /\ c \in Hear!Cards /\ c.agent = roster[i].agent
        /\ c.subscribers = roster[i].subscribers
    BY <2>1, <2>2 DEF Hear!Cards
  <2> HIDE DEF c, b
  <2>5. Milder([roster EXCEPT ![i] = c])
    BY <1>2, <2>4, MildRow
  <2>6. QED
    BY <2>3, <2>5
<1> HIDE DEF b
<1>4. CASE action = "add"
  <2> DEFINE e == Hear!Event("commented", i, Nobody)
             q == [Hear!Idle EXCEPT !.at = "member", !.to = {p}, !.ev = e]
  <2>1. proc' = [proc EXCEPT ![w] = q]
    BY <1>4 DEF Hear!set_collaborator, Hear!Becomes
  <2>2. e \in Hear!Events /\ e # Hear!NoEvent
    BY EventFacts
  <2> HIDE DEF e
  <2>3. q \in ProcRecords /\ q.at = "member" /\ q.ev = e
    BY <2>2, IdleFacts DEF ProcRecords, Ats
  <2>4. ProcFits(q)
    BY <2>2, <2>3 DEF ProcFits
  <2> HIDE DEF q
  <2>5. /\ proc' \in [Writers -> ProcRecords] /\ ProcFits(proc'[w])
        /\ \A v \in Writers \ {w} : proc'[v] = proc[v]
    BY <1>2, <2>1, <2>3, <2>4 DEF HearTypes
  <2>6. proc[w].at \in {"idle", "member"} /\ Nobody \in People \cup {Nobody}
    BY <1>1, FreeIsIdle
  <2>7. QED
    BY <1>1, <1>3, <2>5, <2>6, MildWrite
<1>5. CASE action # "add"
  <2>1. Hear!Returns
    BY <1>5 DEF Hear!set_collaborator
  <2>2. QED
    BY <1>1, <1>3, <2>1, ReturningKeeps
<1>6. QED
  BY <1>4, <1>5

LEMMA JoinKeeps ==
    ASSUME HearInv, NEW w \in Writers, Hear!SubscribeCollaborator(w)
    PROVE  HearInv'
<1>1. /\ proc[w].at = "member" /\ proc' = [proc EXCEPT ![w] = Hear!Idle]
      /\ Hear!Quietly
  BY DEF Hear!SubscribeCollaborator, Hear!Becomes
<1>2. HearTypes /\ proc[w] \in ProcRecords /\ ProcFits(proc[w])
  BY DEF HearInv, HearTypes, ProcsFit
<1> DEFINE i == proc[w].ev.card
<1>3. i \in Shared
  BY <1>1, <1>2, EventFacts DEF ProcFits, ProcRecords
<1>4. PICK p \in proc[w].to : Hear!Subscribe(i, p, "add")
  BY DEF Hear!SubscribeCollaborator
<1>5. p \in People
  BY <1>2, <1>4 DEF ProcRecords
<1> HIDE DEF i
<1> DEFINE b == [roster EXCEPT ![i].subscribers = Hear!Joined(@, p, "add")]
<1>6. Hear!Store(b, {}, Nobody, {})
  BY <1>4 DEF Hear!Subscribe
<1>7. Milder(b)
  BY <1>2, <1>3, <1>5, SubscribedFacts
<1> HIDE DEF b
<1>8. /\ proc' \in [Writers -> ProcRecords] /\ ProcFits(proc'[w])
      /\ \A v \in Writers \ {w} : proc'[v] = proc[v]
  BY <1>1, <1>2, IdleFacts DEF HearTypes, ProcFits
<1>9. proc[w].at \in {"idle", "member"} /\ Nobody \in People \cup {Nobody}
  BY <1>1
<1>10. QED
  BY <1>1, <1>6, <1>7, <1>8, <1>9, MildWrite

\* Who has it and who created it stay with a card that is handed on.
LEMMA HandedFacts ==
    ASSUME NEW c \in Hear!Cards, NEW new \in People
    PROVE  /\ Hear!Handed(c, new) \in Hear!Cards
           /\ Hear!Handed(c, new).agent = new
           /\ {c.agent, c.created_by} \cup c.subscribers
                 \subseteq {new} \cup Hear!Handed(c, new).subscribers
<1> DEFINE S == c.subscribers \cup ({c.agent, c.created_by} \ {new})
           h == [c EXCEPT !.agent = new, !.subscribers = S]
<1>1. S \in SUBSET People
  BY DEF Hear!Cards
<1>2. Hear!Handed(c, new) = h
  BY DEF Hear!Handed
<1>3. {c.agent, c.created_by} \cup c.subscribers \subseteq {new} \cup S
  OBVIOUS
<1> HIDE DEF S
<1>4. h \in Hear!Cards /\ h.agent = new /\ h.subscribers = S
  BY <1>1 DEF Hear!Cards
<1>5. QED
  BY <1>2, <1>3, <1>4

\* The cards of S are handed to `new', the others stay.
LEMMA HandingKeeps ==
    ASSUME HearInv, NEW w \in Writers, Hear!Free(w), NEW S \in SUBSET Shared,
           NEW new \in People, NEW b, b \in [Shared -> Hear!Cards],
           \A i \in S : b[i] = Hear!Handed(roster[i], new),
           \A i \in Shared \ S : b[i] = roster[i],
           NEW by \in People \cup {Nobody}, NEW on \in SUBSET Shared,
           Hear!Store(b, {}, by, on), Hear!HandedOn(S),
           tokens' = tokens, lost \subseteq lost', lost' \subseteq Shared,
           proc' \in [Writers -> ProcRecords], ProcFits(proc'[w]),
           \A v \in Writers \ {w} : proc'[v] = proc[v],
           \A i \in S : i \in lost' \/ Resolving(w, i)'
    PROVE  HearInv'
<1>1. past' = [i \in Shared |-> IF i \notin S THEN past[i]
                 ELSE past[i] \cup {roster[i].agent, roster[i].created_by}]
  BY DEF Hear!HandedOn
<1>2. /\ roster \in [Shared -> Hear!Cards] /\ past \in [Shared -> SUBSET People]
      /\ \A i \in Shared : past[i] \subseteq {roster[i].agent} \cup roster[i].subscribers
  BY DEF HearInv, HearTypes, PastStay
<1>3. past' \in [Shared -> SUBSET People]
  <2>1. \A i \in Shared : roster[i].agent \in People /\ roster[i].created_by \in People
    BY <1>2 DEF Hear!Cards
  <2>2. QED
    BY <1>1, <1>2, <2>1
<1>4. ASSUME NEW i \in Shared
      PROVE  past'[i] \subseteq {b[i].agent} \cup b[i].subscribers
  <2>1. CASE i \in S
    <3>1. /\ b[i].agent = new
          /\ {roster[i].agent, roster[i].created_by} \cup roster[i].subscribers
                \subseteq {new} \cup b[i].subscribers
      BY <1>2, <2>1, HandedFacts
    <3>2. QED
      BY <1>1, <1>2, <2>1, <3>1
  <2>2. CASE i \notin S
    BY <1>1, <1>2, <2>2
  <2>3. QED
    BY <2>1, <2>2
<1>5. \A i \in Shared : \/ b[i].agent = roster[i].agent
                        \/ i \in lost' \/ Resolving(w, i)'
  OBVIOUS
<1>6. proc[w].at \in {"idle", "member"}
  BY FreeIsIdle
<1>7. QED
  BY <1>3, <1>4, <1>5, <1>6, WriteKeeps

LEMMA ReassignKeeps ==
    ASSUME HearInv, NEW w \in Writers, NEW i \in Shared, NEW new \in People,
           NEW by \in Callers, Hear!reassign_task(w, i, new, by)
    PROVE  HearInv'
<1> DEFINE b == [roster EXCEPT ![i] = Hear!Handed(@, new)]
           e == Hear!Event("reassigned", i, by)
<1>1. /\ Hear!Free(w) /\ Hear!Store(b, {}, by, {i}) /\ Hear!Emits(w, by, e)
      /\ Hear!HandedOn({i}) /\ tokens' = tokens /\ lost' = lost
  BY DEF Hear!reassign_task
<1>2. HearTypes /\ roster \in [Shared -> Hear!Cards] /\ by \in People
  BY CallersArePeople DEF HearInv, HearTypes
<1>3. Hear!Handed(roster[i], new) \in Hear!Cards
  BY <1>2, HandedFacts
<1>4. /\ b \in [Shared -> Hear!Cards] /\ \A j \in {i} : b[j] = Hear!Handed(roster[j], new)
      /\ \A j \in Shared \ {i} : b[j] = roster[j]
  BY <1>2, <1>3
<1>5. /\ e \in Hear!Events /\ e # Hear!NoEvent /\ e.card = i /\ e.actor = by
      /\ e.type = "reassigned"
  BY <1>2, EventFacts
<1> HIDE DEF b, e
<1>6. /\ proc' \in [Writers -> ProcRecords]
      /\ \A v \in Writers \ {w} : proc'[v] = proc[v]
      /\ proc'[w].at = "resolve" /\ proc'[w].ev = e
  BY <1>1, <1>2, <1>5, EmitsFacts
<1>7. ProcFits(proc'[w])
  BY <1>5, <1>6 DEF ProcFits
<1>8. by \in aware'[i]
  <2>1. \A d, f \in {} : d = f
    OBVIOUS
  <2>2. {} \in SUBSET Shared /\ {i} \in SUBSET Shared /\ by \in People \cup {Nobody}
    BY <1>2
  <2>3. b \in [Shared -> Hear!Cards] /\ Hear!Store(b, {}, by, {i})
    BY <1>1, <1>4
  <2>4. \A j \in {i} : by \in aware'[j]
    BY <1>2, <2>1, <2>2, <2>3, StoreFacts
  <2>5. QED
    BY <2>4
<1>9. \A j \in {i} : j \in lost' \/ Resolving(w, j)'
  BY <1>5, <1>6, <1>8 DEF Resolving
<1>10. lost \subseteq lost' /\ lost' \subseteq Shared
  BY <1>1, <1>2 DEF HearTypes
<1>11. QED
  BY <1>1, <1>2, <1>4, <1>6, <1>7, <1>9, <1>10, HandingKeeps

LEMMA ReassignAllKeeps ==
    ASSUME HearInv, NEW w \in Writers, NEW old \in People, NEW new \in People,
           Hear!reassign_all(w, old, new)
    PROVE  HearInv'
<1> DEFINE moved == {i \in Shared : roster[i].agent = old}
           b == [i \in Shared |-> IF i \in moved THEN Hear!Handed(roster[i], new)
                                  ELSE roster[i]]
<1>1. /\ Hear!Free(w) /\ Hear!Store(b, {}, Nobody, {}) /\ proc' = proc
      /\ Hear!HandedOn(moved) /\ tokens' = tokens /\ lost' = lost \cup moved
  BY DEF Hear!reassign_all, Hear!Returns
<1>2. HearTypes /\ roster \in [Shared -> Hear!Cards]
  BY DEF HearInv, HearTypes
<1>3. \A i \in Shared : Hear!Handed(roster[i], new) \in Hear!Cards
  BY <1>2, HandedFacts
<1>4. moved \in SUBSET Shared
  OBVIOUS
<1> HIDE DEF moved
<1>5. /\ b \in [Shared -> Hear!Cards]
      /\ \A i \in moved : b[i] = Hear!Handed(roster[i], new)
      /\ \A i \in Shared \ moved : b[i] = roster[i]
  BY <1>2, <1>3, <1>4
<1> HIDE DEF b
<1>6. /\ proc' \in [Writers -> ProcRecords] /\ ProcFits(proc'[w])
      /\ \A v \in Writers \ {w} : proc'[v] = proc[v]
  BY <1>1 DEF HearInv, HearTypes, ProcsFit
<1>7. /\ lost \subseteq lost' /\ lost' \subseteq Shared
      /\ \A i \in moved : i \in lost' \/ Resolving(w, i)'
  BY <1>1, <1>2, <1>4 DEF HearTypes
<1>8. Nobody \in People \cup {Nobody} /\ {} \in SUBSET Shared
  OBVIOUS
<1>9. QED
  BY <1>1, <1>4, <1>5, <1>6, <1>7, <1>8, HandingKeeps

LEMMA VerbKeeps ==
    ASSUME HearInv, NEW w \in Writers, Hear!Verb(w)
    PROVE  HearInv'
BY CompleteKeeps, UpdateKeeps, CommentKeeps, ReopenKeeps, EdgeKeeps,
   SubscriberKeeps, CollaboratorKeeps, ReassignKeeps, ReassignAllKeeps DEF Hear!Verb

-----------------------------------------------------------------------------
(* The drive and the events.                                               *)

Owes(w, u, i) == Sending(w, i) \/ Resolving(w, i) \/ Driving(w, u, i)

\* A step of process w that writes no card: what w owed, it or the step
\* still answers for.
LEMMA WorkKeeps ==
    ASSUME HearInv, NEW w \in Writers, roster' = roster, freed' = freed, past' = past,
           proc' \in [Writers -> ProcRecords], ProcFits(proc'[w]),
           \A v \in Writers \ {w} : proc'[v] = proc[v],
           tokens' \in [Shared -> SUBSET Shared],
           aware' \in [Shared -> SUBSET (People \cup {Nobody})],
           \A i \in Shared : aware[i] \subseteq aware'[i],
           lost \subseteq lost', lost' \subseteq Shared,
           \A i \in Shared : tokens'[i] = tokens[i] \/ Resolving(w, i)',
           \A f \in freed : Owes(w, f[1], f[2]) =>
                                Heard(f[2])' \/ Owes(w, f[1], f[2])'
    PROVE  HearInv'
<1>1. HearTypes'
  BY DEF HearInv, HearTypes
<1>2. ProcsFit' /\ PastStay'
  BY DEF HearInv, ProcsFit, PastStay
<1>3. ASSUME NEW f \in freed' PROVE Heard(f[2])' \/ Owed(f[1], f[2])'
  <2>1. f \in freed /\ f[2] \in Shared /\ (Heard(f[2]) \/ Owed(f[1], f[2]))
    BY <1>3 DEF HearInv, HearTypes, FreedIsOwed
  <2>2. CASE Heard(f[2])
    BY <2>1, <2>2 DEF Heard
  <2>3. CASE Owed(f[1], f[2])
    <3>1. PICK v \in Writers : Owes(v, f[1], f[2])
      BY <2>3 DEF Owed, Owes
    <3>2. CASE v = w
      BY <2>1, <3>1, <3>2 DEF Owes, Owed
    <3>3. CASE v # w /\ tokens'[f[2]] = tokens[f[2]]
      <4>1. Owes(v, f[1], f[2])'
        BY <2>1, <3>1, <3>3 DEF Owes, Sending, Resolving, Driving
      <4>2. QED
        BY <4>1 DEF Owes, Owed
    <3>4. CASE Resolving(w, f[2])'
      BY <3>4 DEF Owed
    <3>5. QED
      BY <2>1, <3>2, <3>3, <3>4
  <2>4. QED
    BY <2>1, <2>2, <2>3
<1>4. FreedIsOwed'
  BY <1>3 DEF HearInv, FreedIsOwed
<1>5. QED
  BY <1>1, <1>2, <1>4 DEF HearInv

\* The same where only the process itself changes.
LEMMA StepKeeps ==
    ASSUME HearInv, NEW w \in Writers, NEW p \in ProcRecords, ProcFits(p),
           proc' = [proc EXCEPT ![w] = p],
           UNCHANGED <<roster, tokens, freed, aware, past>>,
           lost \subseteq lost', lost' \subseteq Shared,
           \A f \in freed : Owes(w, f[1], f[2]) =>
                                Heard(f[2])' \/ Owes(w, f[1], f[2])'
    PROVE  HearInv'
<1>1. /\ proc' \in [Writers -> ProcRecords] /\ ProcFits(proc'[w])
      /\ \A v \in Writers \ {w} : proc'[v] = proc[v]
  BY DEF HearInv, HearTypes
<1>2. /\ tokens' \in [Shared -> SUBSET Shared]
      /\ aware' \in [Shared -> SUBSET (People \cup {Nobody})]
      /\ \A i \in Shared : aware[i] \subseteq aware'[i]
      /\ \A i \in Shared : tokens'[i] = tokens[i] \/ Resolving(w, i)'
  BY DEF HearInv, HearTypes
<1>3. QED
  BY <1>1, <1>2, WorkKeeps

LEMMA ProcFacts ==
    ASSUME HearInv, NEW w \in Writers
    PROVE  HearTypes /\ proc[w] \in ProcRecords /\ ProcFits(proc[w])
BY DEF HearInv, HearTypes, ProcsFit

LEMMA LoadKeeps ==
    ASSUME HearInv, NEW w \in Writers, Hear!LoadDependents(w)
    PROVE  HearInv'
<1> DEFINE u == proc[w].tail.card
           p == [proc[w] EXCEPT !.at = "check", !.left = Hear!Unblocked(u)]
<1>1. /\ proc[w].at = "load" /\ proc' = [proc EXCEPT ![w] = p]
      /\ UNCHANGED <<roster, tokens, freed, aware, past, lost>>
  BY DEF Hear!LoadDependents, Hear!Becomes, Hear!history
<1>2. HearTypes /\ proc[w] \in ProcRecords /\ ProcFits(proc[w])
  BY ProcFacts
<1>3. Hear!Unblocked(u) \in SUBSET Shared
  BY DEF Hear!Unblocked, Hear!Dependents
<1>4. /\ p \in ProcRecords /\ p.at = "check" /\ p.left = Hear!Unblocked(u)
      /\ p.tail = proc[w].tail
  BY <1>2, <1>3 DEF ProcRecords, Ats
<1>5. ProcFits(p)
  BY <1>1, <1>2, <1>4 DEF ProcFits
<1> HIDE DEF p
<1>6. proc'[w] = p
  BY <1>1, <1>2 DEF HearTypes
<1>7. ASSUME NEW f \in freed, Owes(w, f[1], f[2])
      PROVE  Heard(f[2])' \/ Owes(w, f[1], f[2])'
  <2>1. Driving(w, f[1], f[2])
    BY <1>1, <1>7 DEF Owes, Sending, Resolving
  <2>2. f[2] \in Hear!Unblocked(u)
    BY <2>1 DEF Driving, Hear!Unblocked, HearInv, FreedIsOwed
  <2>3. Driving(w, f[1], f[2])'
    BY <1>1, <1>4, <1>6, <2>1, <2>2 DEF Driving
  <2>4. QED
    BY <2>3 DEF Owes
<1>8. lost \subseteq lost' /\ lost' \subseteq Shared
  BY <1>1, <1>2 DEF HearTypes
<1>9. QED
  BY <1>1, <1>4, <1>5, <1>7, <1>8, StepKeeps

LEMMA PassOverKeeps ==
    ASSUME HearInv, NEW w \in Writers, NEW i \in Shared, Hear!PassOver(w, i)
    PROVE  HearInv'
<1> DEFINE p == [proc[w] EXCEPT !.left = @ \ {i}]
<1>1. /\ proc[w].at = "check" /\ proc' = [proc EXCEPT ![w] = p]
      /\ proc[w].tail.card \in tokens[i]
      /\ UNCHANGED <<roster, tokens, freed, aware, past, lost>>
  BY DEF Hear!PassOver, Hear!Told, Hear!Becomes, Hear!history
<1>2. HearTypes /\ proc[w] \in ProcRecords /\ ProcFits(proc[w])
  BY ProcFacts
<1>3. /\ p \in ProcRecords /\ p.at = "check" /\ p.left = proc[w].left \ {i}
      /\ p.tail = proc[w].tail
  BY <1>1, <1>2 DEF ProcRecords
<1>4. ProcFits(p)
  BY <1>1, <1>2, <1>3 DEF ProcFits
<1> HIDE DEF p
<1>5. proc'[w] = p
  BY <1>1, <1>2 DEF HearTypes
<1>6. ASSUME NEW f \in freed, Owes(w, f[1], f[2])
      PROVE  Heard(f[2])' \/ Owes(w, f[1], f[2])'
  <2>1. Driving(w, f[1], f[2])
    BY <1>1, <1>6 DEF Owes, Sending, Resolving
  <2>2. f[2] # i
    BY <1>1, <2>1 DEF Driving
  <2>3. Driving(w, f[1], f[2])'
    BY <1>1, <1>3, <1>5, <2>1, <2>2 DEF Driving
  <2>4. QED
    BY <2>3 DEF Owes
<1>7. lost \subseteq lost' /\ lost' \subseteq Shared
  BY <1>1, <1>2 DEF HearTypes
<1>8. QED
  BY <1>1, <1>3, <1>4, <1>6, <1>7, StepKeeps

LEMMA PickKeeps ==
    ASSUME HearInv, NEW w \in Writers, NEW i \in Shared, Hear!Pick(w, i)
    PROVE  HearInv'
<1> DEFINE e == Hear!Event("commented", i, proc[w].by)
           p == [proc[w] EXCEPT !.at = "comment", !.left = @ \ {i}, !.ev = e]
<1>1. /\ proc[w].at = "check" /\ proc' = [proc EXCEPT ![w] = p]
      /\ UNCHANGED <<roster, tokens, freed, aware, past, lost>>
  BY DEF Hear!Pick, Hear!Becomes, Hear!history
<1>2. HearTypes /\ proc[w] \in ProcRecords /\ ProcFits(proc[w])
  BY ProcFacts
<1>3. /\ e \in Hear!Events /\ e # Hear!NoEvent /\ e.card = i /\ e.type = "commented"
      /\ e.actor = proc[w].by
  BY <1>2, EventFacts DEF ProcRecords
<1> HIDE DEF e
<1>4. /\ p \in ProcRecords /\ p.at = "comment" /\ p.left = proc[w].left \ {i}
      /\ p.tail = proc[w].tail /\ p.ev = e /\ p.by = proc[w].by
  BY <1>2, <1>3 DEF ProcRecords, Ats
<1>5. ProcFits(p)
  BY <1>1, <1>2, <1>3, <1>4 DEF ProcFits
<1> HIDE DEF p
<1>6. proc'[w] = p
  BY <1>1, <1>2 DEF HearTypes
<1>7. ASSUME NEW f \in freed, Owes(w, f[1], f[2])
      PROVE  Heard(f[2])' \/ Owes(w, f[1], f[2])'
  <2>1. Driving(w, f[1], f[2])
    BY <1>1, <1>7 DEF Owes, Sending, Resolving
  <2>2. Driving(w, f[1], f[2])'
    BY <1>1, <1>3, <1>4, <1>6, <2>1 DEF Driving
  <2>3. QED
    BY <2>2 DEF Owes
<1>8. lost \subseteq lost' /\ lost' \subseteq Shared
  BY <1>1, <1>2 DEF HearTypes
<1>9. QED
  BY <1>1, <1>4, <1>5, <1>7, <1>8, StepKeeps

LEMMA AppendKeeps ==
    ASSUME HearInv, NEW w \in Writers, Hear!AppendToken(w)
    PROVE  HearInv'
<1> DEFINE i == proc[w].ev.card
           u == proc[w].tail.card
           p == [proc[w] EXCEPT !.at = "resolve"]
<1>1. /\ proc[w].at = "comment" /\ proc' = [proc EXCEPT ![w] = p]
      /\ tokens' = [tokens EXCEPT ![i] = @ \cup {u}]
      /\ aware' = [aware EXCEPT ![i] = @ \cup {proc[w].by}]
      /\ UNCHANGED <<roster, freed, past, lost>>
  BY DEF Hear!AppendToken, Hear!Becomes
<1>2. HearTypes /\ proc[w] \in ProcRecords /\ ProcFits(proc[w])
  BY ProcFacts
<1>3. /\ i \in Shared /\ u \in Shared /\ proc[w].by \in People \cup {Nobody}
      /\ proc[w].ev.type = "commented" /\ proc[w].ev.actor = proc[w].by
      /\ proc[w].ev # Hear!NoEvent
  BY <1>1, <1>2, EventFacts DEF ProcFits, ProcRecords
<1>4. /\ p \in ProcRecords /\ p.at = "resolve" /\ p.left = proc[w].left
      /\ p.tail = proc[w].tail /\ p.ev = proc[w].ev
  BY <1>2 DEF ProcRecords, Ats
<1> HIDE DEF p
<1>5. ProcFits(p)
  BY <1>3, <1>4 DEF ProcFits
<1>6. /\ proc' \in [Writers -> ProcRecords] /\ proc'[w] = p
      /\ \A v \in Writers \ {w} : proc'[v] = proc[v]
  BY <1>1, <1>2, <1>4 DEF HearTypes
<1>7. /\ tokens' \in [Shared -> SUBSET Shared]
      /\ aware' \in [Shared -> SUBSET (People \cup {Nobody})]
      /\ \A j \in Shared : aware[j] \subseteq aware'[j]
      /\ \A j \in Shared \ {i} : tokens'[j] = tokens[j]
      /\ proc[w].by \in aware'[i]
  BY <1>1, <1>2, <1>3 DEF HearTypes
<1>8. \A j \in {i} : Resolving(w, j)'
  BY <1>3, <1>4, <1>6, <1>7 DEF Resolving
<1>9. \A j \in Shared : tokens'[j] = tokens[j] \/ Resolving(w, j)'
  BY <1>7, <1>8
<1>10. ASSUME NEW f \in freed, Owes(w, f[1], f[2])
       PROVE  Heard(f[2])' \/ Owes(w, f[1], f[2])'
  <2>1. Driving(w, f[1], f[2]) /\ f[2] \in Shared
    BY <1>1, <1>2, <1>10 DEF Owes, Sending, Resolving, HearTypes
  <2>2. CASE f[2] = i
    BY <1>8, <2>2 DEF Owes
  <2>3. CASE f[2] # i
    <3>1. Driving(w, f[1], f[2])'
      BY <1>1, <1>4, <1>6, <1>7, <2>1, <2>3 DEF Driving
    <3>2. QED
      BY <3>1 DEF Owes
  <2>4. QED
    BY <2>2, <2>3
<1>11. lost \subseteq lost' /\ lost' \subseteq Shared
  BY <1>1, <1>2 DEF HearTypes
<1>12. roster' = roster /\ freed' = freed /\ past' = past /\ ProcFits(proc'[w])
  BY <1>1, <1>5, <1>6
<1>13. QED
  BY <1>6, <1>7, <1>9, <1>10, <1>11, <1>12, WorkKeeps

LEMMA EndKeeps ==
    ASSUME HearInv, NEW w \in Writers, Hear!EndDrive(w)
    PROVE  HearInv'
<1> DEFINE p == [proc[w] EXCEPT !.at = "resolve", !.ev = proc[w].tail,
                                !.tail = Hear!NoEvent]
<1>1. HearTypes /\ proc[w] \in ProcRecords /\ ProcFits(proc[w])
  BY ProcFacts
<1>2. /\ proc[w].at = "check" /\ proc[w].left = {} /\ proc[w].tail # Hear!NoEvent
  BY <1>1 DEF Hear!EndDrive, ProcFits
<1>3. /\ proc' = [proc EXCEPT ![w] = p]
      /\ UNCHANGED <<roster, tokens, freed, aware, past, lost>>
  BY <1>2 DEF Hear!EndDrive, Hear!Becomes, Hear!history
<1>4. p \in ProcRecords /\ p.at = "resolve" /\ p.ev = proc[w].tail
  BY <1>1 DEF ProcRecords, Ats
<1>5. ProcFits(p)
  BY <1>2, <1>4 DEF ProcFits
<1> HIDE DEF p
<1>6. \A f \in freed : ~Owes(w, f[1], f[2])
  BY <1>2 DEF Owes, Sending, Resolving, Driving
<1>7. lost \subseteq lost' /\ lost' \subseteq Shared
  BY <1>1, <1>3 DEF HearTypes
<1>8. \A f \in freed : Owes(w, f[1], f[2]) => Heard(f[2])' \/ Owes(w, f[1], f[2])'
  BY <1>6
<1>9. QED
  BY <1>3, <1>4, <1>5, <1>7, <1>8, StepKeeps

\* A comment and a handover go to the owner.
LEMMA OwnerIsReached ==
    ASSUME NEW type \in {"commented", "reassigned"}, NEW c \in Hear!Cards,
           <<c.agent, type>> \notin Mutes
    PROVE  c.agent \in Hear!resolve_recipients(type, c)
<1>1. /\ "owner" \in Hear!Rules[type]
      /\ Hear!card_role_members(c)["owner"] = {c.agent}
  BY DEF Hear!Rules, Hear!card_role_members
<1>2. QED
  BY <1>1 DEF Hear!resolve_recipients

LEMMA RecipientsType ==
    ASSUME NEW type \in Hear!EventTypes, NEW c \in Hear!Cards
    PROVE  Hear!resolve_recipients(type, c) \in SUBSET People
<1>1. Hear!Members(c) \subseteq People
  BY DEF Hear!Members, Hear!Cards
<1>2. \A r \in Hear!Rules[type] : Hear!card_role_members(c)[r] \subseteq People
  BY DEF Hear!EventTypes, Hear!Rules, Hear!card_role_members, Hear!Cards
<1>3. QED
  BY <1>1, <1>2 DEF Hear!resolve_recipients

LEMMA ResolveKeeps ==
    ASSUME HearInv, NEW w \in Writers, Hear!Resolve(w)
    PROVE  HearInv'
<1> DEFINE ev == proc[w].ev
           to == Hear!resolve_recipients(ev.type, roster[ev.card]) \ {ev.actor}
           p == [proc[w] EXCEPT !.at = "send", !.to = to]
<1>1. HearTypes /\ proc[w] \in ProcRecords /\ ProcFits(proc[w])
  BY ProcFacts
<1>2. /\ proc[w].at = "resolve" /\ proc' = [proc EXCEPT ![w] = p]
      /\ UNCHANGED <<roster, tokens, freed, aware, past, lost>>
  BY DEF Hear!Resolve, Hear!Becomes, Hear!history
<1>3. /\ ev \in Hear!Events /\ ev # Hear!NoEvent /\ ev.card \in Shared
      /\ ev.type \in Hear!EventTypes /\ roster[ev.card] \in Hear!Cards
  <2>1. ev \in Hear!Events /\ ev # Hear!NoEvent
    BY <1>1, <1>2 DEF ProcFits, ProcRecords
  <2>2. ev.card \in Shared /\ ev.type \in Hear!EventTypes
    BY <2>1 DEF Hear!Events
  <2>3. QED
    BY <1>1, <2>1, <2>2 DEF HearTypes
<1>4. to \in SUBSET People
  BY <1>3, RecipientsType
<1> HIDE DEF to
<1>5. /\ p \in ProcRecords /\ p.at = "send" /\ p.to = to /\ p.ev = ev
      /\ p.tail = proc[w].tail /\ p.left = proc[w].left
  BY <1>1, <1>4 DEF ProcRecords, Ats
<1>6. ProcFits(p)
  BY <1>3, <1>5 DEF ProcFits
<1> HIDE DEF p
<1>7. proc'[w] = p
  BY <1>1, <1>2 DEF HearTypes
<1>8. ASSUME NEW f \in freed, Owes(w, f[1], f[2])
      PROVE  Heard(f[2])' \/ Owes(w, f[1], f[2])'
  <2>1. CASE Driving(w, f[1], f[2])
    <3>1. Driving(w, f[1], f[2])'
      BY <1>2, <1>5, <1>7, <2>1 DEF Driving
    <3>2. QED
      BY <3>1 DEF Owes
  <2>2. CASE Resolving(w, f[2])
    <3> DEFINE c == roster[f[2]]
    <3>1. /\ ev.card = f[2] /\ ev.type \in {"commented", "reassigned"}
          /\ ev.actor \in aware[f[2]]
      BY <2>2 DEF Resolving
    <3>2. c \in Hear!Cards
      BY <1>3, <3>1
    <3>3. CASE <<c.agent, ev.type>> \in Mutes
      BY <1>2, <3>1, <3>3 DEF Heard
    <3>4. CASE c.agent = ev.actor
      BY <1>2, <3>1, <3>4 DEF Heard
    <3>5. CASE <<c.agent, ev.type>> \notin Mutes /\ c.agent # ev.actor
      <4>1. c.agent \in to
        BY <3>1, <3>2, <3>5, OwnerIsReached DEF to
      <4>2. Sending(w, f[2])'
        BY <1>2, <1>5, <1>7, <3>1, <4>1 DEF Sending
      <4>3. QED
        BY <4>2 DEF Owes
    <3>6. QED
      BY <3>3, <3>4, <3>5
  <2>3. QED
    BY <1>2, <1>8, <2>1, <2>2 DEF Owes, Sending
<1>9. lost \subseteq lost' /\ lost' \subseteq Shared
  BY <1>1, <1>2 DEF HearTypes
<1>10. QED
  BY <1>2, <1>5, <1>6, <1>8, <1>9, StepKeeps

\* After an event the drive goes on with what it had left.
LEMMA OnwardFacts ==
    ASSUME NEW p \in ProcRecords
    PROVE  /\ Hear!Onward(p) \in ProcRecords /\ ProcFits(Hear!Onward(p))
           /\ p.tail # Hear!NoEvent =>
                 /\ Hear!Onward(p).at = "check" /\ Hear!Onward(p).left = p.left
                 /\ Hear!Onward(p).tail = p.tail
<1>1. CASE p.tail = Hear!NoEvent
  <2>1. Hear!Onward(p) = Hear!Idle
    BY <1>1 DEF Hear!Onward
  <2>2. QED
    BY <1>1, <2>1, IdleFacts DEF ProcFits
<1>2. CASE p.tail # Hear!NoEvent
  <2> DEFINE q == [p EXCEPT !.at = "check", !.ev = Hear!NoEvent, !.to = {}]
  <2>1. Hear!Onward(p) = q
    BY <1>2 DEF Hear!Onward
  <2>2. /\ q \in ProcRecords /\ q.at = "check" /\ q.left = p.left /\ q.tail = p.tail
    BY DEF ProcRecords, Ats
  <2> HIDE DEF q
  <2>3. QED
    BY <1>2, <2>1, <2>2 DEF ProcFits
<1>3. QED
  BY <1>1, <1>2

\* A drive under way survives the end of an event.
LEMMA DriveGoesOn ==
    ASSUME HearInv, NEW w \in Writers, proc[w].at \in {"resolve", "send"},
           proc'[w] = Hear!Onward(proc[w]), tokens' = tokens,
           NEW u \in Shared, NEW i \in Shared, Driving(w, u, i)
    PROVE  Owes(w, u, i)'
<1>1. proc[w] \in ProcRecords /\ proc[w].tail # Hear!NoEvent
  BY ProcFacts DEF Driving
<1>2. /\ proc'[w].at = "check" /\ proc'[w].left = proc[w].left
      /\ proc'[w].tail = proc[w].tail
  BY <1>1, OnwardFacts
<1>3. Driving(w, u, i)'
  BY <1>1, <1>2 DEF Driving
<1>4. QED
  BY <1>3 DEF Owes

LEMMA SendKeeps ==
    ASSUME HearInv, NEW w \in Writers, Hear!Send(w)
    PROVE  HearInv'
<1>1. /\ proc[w].at = "send" /\ proc' = [proc EXCEPT ![w] = Hear!Onward(proc[w])]
      /\ aware' = [aware EXCEPT ![proc[w].ev.card] = @ \cup proc[w].to]
      /\ UNCHANGED <<roster, tokens, freed, past, lost>>
  BY DEF Hear!Send, Hear!Becomes
<1>2. HearTypes /\ proc[w] \in ProcRecords /\ ProcFits(proc[w])
  BY ProcFacts
<1>3. proc[w].ev.card \in Shared /\ proc[w].to \in SUBSET People
  BY <1>1, <1>2, EventFacts DEF ProcFits, ProcRecords
<1>4. /\ proc' \in [Writers -> ProcRecords] /\ proc'[w] = Hear!Onward(proc[w])
      /\ ProcFits(proc'[w]) /\ \A v \in Writers \ {w} : proc'[v] = proc[v]
  BY <1>1, <1>2, OnwardFacts DEF HearTypes
<1>5. /\ aware' \in [Shared -> SUBSET (People \cup {Nobody})]
      /\ \A j \in Shared : aware[j] \subseteq aware'[j]
      /\ \A j \in Shared : j = proc[w].ev.card => proc[w].to \subseteq aware'[j]
  BY <1>1, <1>2, <1>3 DEF HearTypes
<1>6. ASSUME NEW f \in freed, Owes(w, f[1], f[2])
      PROVE  Heard(f[2])' \/ Owes(w, f[1], f[2])'
  <2>1. f[1] \in Shared /\ f[2] \in Shared
    BY <1>2 DEF HearTypes
  <2>2. CASE Sending(w, f[2])
    BY <1>1, <1>5, <2>1, <2>2 DEF Sending, Heard
  <2>3. CASE Driving(w, f[1], f[2])
    BY <1>1, <1>4, <2>1, <2>3, DriveGoesOn
  <2>4. QED
    BY <1>1, <1>6, <2>2, <2>3 DEF Owes, Resolving
<1>7. /\ tokens' \in [Shared -> SUBSET Shared] /\ lost \subseteq lost'
      /\ lost' \subseteq Shared
  BY <1>1, <1>2 DEF HearTypes
<1>8. \A i \in Shared : tokens'[i] = tokens[i] \/ Resolving(w, i)'
  BY <1>1
<1>9. roster' = roster /\ freed' = freed /\ past' = past
  BY <1>1
<1>10. QED
  BY <1>4, <1>5, <1>6, <1>7, <1>8, <1>9, WorkKeeps

LEMMA FailKeeps ==
    ASSUME HearInv, NEW w \in Writers, Hear!DispatchFails(w)
    PROVE  HearInv'
<1> DEFINE p == Hear!Onward(proc[w])
<1>1. /\ proc[w].at \in {"resolve", "send"} /\ proc' = [proc EXCEPT ![w] = p]
      /\ lost' = lost \cup {proc[w].ev.card}
      /\ UNCHANGED <<roster, tokens, freed, aware, past>>
  BY DEF Hear!DispatchFails, Hear!Becomes
<1>2. HearTypes /\ proc[w] \in ProcRecords /\ ProcFits(proc[w])
  BY ProcFacts
<1>3. proc[w].ev.card \in Shared
  BY <1>1, <1>2, EventFacts DEF ProcFits, ProcRecords
<1>4. p \in ProcRecords /\ ProcFits(p)
  BY <1>2, OnwardFacts
<1>5. proc'[w] = p
  BY <1>1, <1>2 DEF HearTypes
<1>6. ASSUME NEW f \in freed, Owes(w, f[1], f[2])
      PROVE  Heard(f[2])' \/ Owes(w, f[1], f[2])'
  <2>1. f[1] \in Shared /\ f[2] \in Shared
    BY <1>2 DEF HearTypes
  <2>2. CASE Sending(w, f[2]) \/ Resolving(w, f[2])
    BY <1>1, <2>2 DEF Sending, Resolving, Heard
  <2>3. CASE Driving(w, f[1], f[2])
    BY <1>1, <1>5, <2>1, <2>3, DriveGoesOn
  <2>4. QED
    BY <1>6, <2>2, <2>3 DEF Owes
<1>7. lost \subseteq lost' /\ lost' \subseteq Shared
  BY <1>1, <1>2, <1>3 DEF HearTypes
<1> HIDE DEF p
<1>8. QED
  BY <1>1, <1>4, <1>6, <1>7, StepKeeps

LEMMA DieKeeps ==
    ASSUME HearInv, NEW w \in Writers, Hear!Die(w)
    PROVE  HearInv'
<1> DEFINE was == proc[w]
           owed == was.left \cup {e.card : e \in {was.ev, was.tail} \ {Hear!NoEvent}}
                       \cup {i \in Shared : <<was.tail.card, i>> \in freed}
<1>1. /\ proc' = [proc EXCEPT ![w] = Hear!Idle] /\ lost' = lost \cup owed
      /\ UNCHANGED <<roster, tokens, freed, aware, past>>
  BY DEF Hear!Die, Hear!Becomes
<1>2. HearTypes /\ was \in ProcRecords /\ ProcFits(was)
  BY ProcFacts
<1>3. owed \subseteq Shared
  <2>1. was.left \subseteq Shared
    BY <1>2 DEF ProcRecords
  <2>2. \A e \in {was.ev, was.tail} \ {Hear!NoEvent} : e.card \in Shared
    BY <1>2, EventFacts DEF ProcRecords
  <2>3. QED
    BY <2>1, <2>2
<1>4. ASSUME NEW f \in freed, Owes(w, f[1], f[2])
      PROVE  f[2] \in owed
  <2>1. f = <<f[1], f[2]>> /\ f[2] \in Shared
    BY <1>2 DEF HearTypes
  <2>2. CASE Sending(w, f[2]) \/ Resolving(w, f[2])
    <3>1. was.ev.card = f[2] /\ was.ev # Hear!NoEvent
      BY <1>2, <2>2 DEF Sending, Resolving, ProcFits
    <3>2. QED
      BY <3>1
  <2>3. CASE Driving(w, f[1], f[2])
    <3>1. was.tail.card = f[1]
      BY <2>3 DEF Driving
    <3>2. QED
      BY <2>1, <3>1
  <2>4. QED
    BY <1>4, <2>2, <2>3 DEF Owes
<1>5. lost \subseteq lost' /\ lost' \subseteq Shared
  BY <1>1, <1>2, <1>3 DEF HearTypes
<1> HIDE DEF owed
<1>6. \A f \in freed : Owes(w, f[1], f[2]) => Heard(f[2])' \/ Owes(w, f[1], f[2])'
  BY <1>1, <1>4 DEF Heard
<1>7. Hear!Idle \in ProcRecords /\ ProcFits(Hear!Idle)
  BY IdleFacts DEF ProcFits
<1>8. QED
  BY <1>1, <1>5, <1>6, <1>7, StepKeeps

LEMMA WorkStepKeeps ==
    ASSUME HearInv, NEW w \in Writers, Hear!Work(w)
    PROVE  HearInv'
BY JoinKeeps, LoadKeeps, PassOverKeeps, PickKeeps, AppendKeeps, EndKeeps,
   ResolveKeeps, SendKeeps, FailKeeps, DieKeeps DEF Hear!Work

-----------------------------------------------------------------------------
(* The theorem.                                                            *)

LEMMA HearInitial == Hear!Init => HearInv
<1> SUFFICES ASSUME Hear!Init PROVE HearInv
  OBVIOUS
<1>1. roster \in [Shared -> Hear!Cards]
  BY HearAssumption DEF Hear!Init, Hear!PeopleAssumption
<1>2. \A w \in Writers : proc[w] = Hear!Idle
  BY DEF Hear!Init
<1>3. HearTypes
  BY <1>1, IdleFacts DEF Hear!Init, HearTypes
<1>4. ProcsFit
  BY <1>2, IdleFacts DEF ProcsFit, ProcFits
<1>5. FreedIsOwed /\ PastStay
  BY DEF Hear!Init, FreedIsOwed, PastStay
<1>6. QED
  BY <1>3, <1>4, <1>5 DEF HearInv

LEMMA HearStep == HearInv /\ [SidesNext]_sideVars => HearInv'
<1> SUFFICES ASSUME HearInv, [SidesNext]_sideVars PROVE HearInv'
  OBVIOUS
<1>1. CASE UNCHANGED hearVars
  BY <1>1 DEF hearVars, HearInv, HearTypes, ProcsFit, FreedIsOwed, PastStay,
     Heard, Owed, Sending, Resolving, Driving, Hear!RunnableTasks, Hear!Known,
     Hear!DepsSatisfied, Hear!UnresolvedDeps, Hear!UnresolvedBlocks,
     Hear!Unresolved, Hear!Dependents
<1>2. CASE Hear!Next
  BY <1>2, VerbKeeps, WorkStepKeeps DEF Hear!Next
<1>3. QED
  BY <1>1, <1>2 DEF SidesNext, Lives, Tells, Works, sideVars

LEMMA OwedIsHeard == HearInv => RightPeopleHear
<1> SUFFICES ASSUME HearInv PROVE Hear!FreedReachesOwner /\ Hear!DelegatorHears
  BY DEF RightPeopleHear, Hear!RightPeopleHear
<1>1. Hear!FreedReachesOwner
  <2> SUFFICES ASSUME Hear!Quiet, NEW f \in freed PROVE Heard(f[2])
    BY DEF Hear!FreedReachesOwner, Heard
  <2>1. \A w \in Writers : proc[w].at = "idle"
    BY IdleFacts DEF Hear!Quiet
  <2>2. ~Owed(f[1], f[2])
    BY <2>1 DEF Owed, Sending, Resolving, Driving
  <2>3. QED
    BY <2>2 DEF HearInv, FreedIsOwed
<1>2. Hear!DelegatorHears
  <2> SUFFICES ASSUME NEW i \in Shared, NEW p \in past[i],
                      <<p, "completed">> \notin Mutes
               PROVE  p \in Hear!resolve_recipients("completed", roster[i])
    BY DEF Hear!DelegatorHears
  <2> DEFINE c == roster[i]
  <2>1. p \in {c.agent} \cup c.subscribers
    BY DEF HearInv, PastStay
  <2>2. /\ Hear!Rules["completed"] = {"owner", "subscribers"}
        /\ Hear!card_role_members(c)["owner"] = {c.agent}
        /\ Hear!card_role_members(c)["subscribers"] = c.subscribers
    BY DEF Hear!Rules, Hear!card_role_members
  <2> HIDE DEF c
  <2>3. p \in UNION {Hear!card_role_members(c)[r] : r \in Hear!Rules["completed"]}
    BY <2>1, <2>2
  <2>4. p \in Hear!resolve_recipients("completed", c)
    BY <2>3 DEF Hear!resolve_recipients
  <2>5. QED
    BY <2>4 DEF c
<1>3. QED
  BY <1>1, <1>2

\* For any cards, people and writers, any calls and any order of their
\* steps: whoever owns a card a completion freed is told once the writers are
\* quiet, and whoever handed a card on hears of its completion.
THEOREM OwnersAreTold == SidesSpec => []RightPeopleHear
<1>1. SidesInit => HearInv
  BY HearInitial DEF SidesInit
<1>2. QED
  BY <1>1, HearStep, OwedIsHeard, PTL DEF SidesSpec

-----------------------------------------------------------------------------
(* What an agent is given to work on (WorkLoop, the instance W).           *)

\* The stored cards and the payload pass the validator.
CardsValid ==
    /\ \A i \in W!Known : W!Valid(deck[i])
    /\ undrag # NoUndo => W!Valid(undrag.card)

Scored == {i \in W!Known : deck[i].axes # {} /\ deck[i].rank > 0}

\* Whatever their status, cards with a rank are in the order of their axes.
RanksOrdered ==
    ~restored =>
        \A i, j \in Scored :
            i # j => (deck[i].rank < deck[j].rank <=> W!Before(deck, i, j))

\* The priorities of the last drag's cards are still its.
DragStands ==
    \A p \in dragged :
        /\ p[1] \in W!Known /\ p[2] \in W!Known
        /\ 0 < deck[p[1]].priority /\ deck[p[1]].priority < deck[p[2]].priority

WorkInv == W!TypeOK /\ CardsValid /\ RanksOrdered /\ DragStands

LEMMA WorkConstants ==
    /\ Tasks \subseteq Nat /\ IsFiniteSet(Tasks) /\ Agents # {}
    /\ Scores \subseteq (1 .. 5) \X (1 .. 5)
    /\ Horizon \in Nat \ {0} /\ MaxIdle \in Nat
    /\ NoCard \notin W!CardRecords
BY WorkLoopAssumption DEF W!WorkAssumption, W!IsFiniteSet, IsFiniteSet

\* What the lists, the ranks and the drags look at.
SameOrder(c, d) ==
    /\ c.axes = d.axes /\ c.first = d.first
    /\ c.rank = d.rank /\ c.priority = d.priority

LEMMA BeforeSame ==
    ASSUME NEW b, NEW d, NEW i \in Tasks, NEW j \in Tasks,
           b[i].axes = d[i].axes, b[i].first = d[i].first,
           b[j].axes = d[j].axes, b[j].first = d[j].first
    PROVE  W!Before(b, i, j) <=> W!Before(d, i, j)
BY DEF W!Before, W!High, W!Score, W!Importance, W!Urgency

LEMMA RowType ==
    ASSUME W!TypeOK, NEW i \in W!Known
    PROVE  i \in Tasks /\ deck[i] \in W!CardRecords
BY DEF W!TypeOK, W!Known

\* Rows may be rewritten as long as those that were there keep their place
\* in the orders, and new ones have none.
LEMMA RanksKept ==
    ASSUME WorkInv, W!TypeOK', NEW S \in SUBSET Tasks, S = W!Known,
           \A i \in S : /\ deck'[i].axes = deck[i].axes
                        /\ deck'[i].first = deck[i].first
                        /\ deck'[i].rank = deck[i].rank,
           \A i \in W!Known' \ S : deck'[i].rank = 0,
           restored' = restored
    PROVE  RanksOrdered'
<1>1. W!TypeOK /\ RanksOrdered
  BY DEF WorkInv
<1>2. ASSUME ~restored', NEW i \in Scored', NEW j \in Scored', i # j
      PROVE  deck'[i].rank < deck'[j].rank <=> W!Before(deck', i, j)
  <2>1. i \in S /\ j \in S
    BY <1>2 DEF Scored
  <2>2. /\ deck'[i].axes = deck[i].axes /\ deck'[i].first = deck[i].first
        /\ deck'[j].axes = deck[j].axes /\ deck'[j].first = deck[j].first
        /\ deck'[i].rank = deck[i].rank /\ deck'[j].rank = deck[j].rank
    BY <2>1
  <2>3. i \in Scored /\ j \in Scored /\ i \in Tasks /\ j \in Tasks
    BY <1>2, <2>1, <2>2 DEF Scored
  <2>4. deck[i].rank < deck[j].rank <=> W!Before(deck, i, j)
    BY <1>1, <1>2, <2>3 DEF RanksOrdered
  <2>5. W!Before(deck', i, j) <=> W!Before(deck, i, j)
    BY <2>2, <2>3, BeforeSame
  <2>6. QED
    BY <2>2, <2>4, <2>5
<1>3. QED
  BY <1>2 DEF RanksOrdered

LEMMA OrderKept ==
    ASSUME WorkInv, W!TypeOK', NEW S \in SUBSET Tasks, S = W!Known, S \subseteq W!Known',
           \A i \in S : SameOrder(deck'[i], deck[i]),
           \A i \in W!Known' \ S : deck'[i].rank = 0,
           restored' = restored, dragged' = dragged
    PROVE  RanksOrdered' /\ DragStands'
<1>1. RanksOrdered'
  BY RanksKept DEF SameOrder
<1>2. DragStands'
  BY DEF WorkInv, DragStands, SameOrder
<1>3. QED
  BY <1>1, <1>2

\* One row is written.
LEMMA RowFacts ==
    ASSUME WorkInv, NEW i \in Tasks, NEW c \in W!CardRecords,
           deck' = [deck EXCEPT ![i] = c]
    PROVE  /\ deck' \in [Tasks -> {NoCard} \cup W!CardRecords]
           /\ deck'[i] = c /\ \A j \in Tasks \ {i} : deck'[j] = deck[j]
           /\ W!Known' = W!Known \cup {i}
<1>1. deck \in [Tasks -> {NoCard} \cup W!CardRecords]
  BY DEF WorkInv, W!TypeOK
<1>2. /\ deck' \in [Tasks -> {NoCard} \cup W!CardRecords]
      /\ deck'[i] = c /\ \A j \in Tasks \ {i} : deck'[j] = deck[j]
  BY <1>1
<1>3. W!Known' = W!Known \cup {i}
  BY <1>2, WorkConstants DEF W!Known
<1>4. QED
  BY <1>2, <1>3

LEMMA RowKeeps ==
    ASSUME WorkInv, NEW i \in Tasks, NEW c \in W!CardRecords, W!Valid(c),
           deck' = [deck EXCEPT ![i] = c],
           i \in W!Known => SameOrder(c, deck[i]), i \notin W!Known => c.rank = 0,
           UNCHANGED <<habit, half, restored, dragged>>,
           undrag' = NoUndo \/ undrag' \in [id : Tasks, card : W!CardRecords],
           undrag' # NoUndo => W!Valid(undrag'.card)
    PROVE  WorkInv'
<1>1. /\ deck' \in [Tasks -> {NoCard} \cup W!CardRecords]
      /\ deck'[i] = c /\ \A j \in Tasks \ {i} : deck'[j] = deck[j]
      /\ W!Known' = W!Known \cup {i}
  BY RowFacts
<1>2. W!TypeOK'
  BY <1>1 DEF WorkInv, W!TypeOK
<1>3. CardsValid'
  <2>1. ASSUME NEW j \in W!Known' PROVE W!Valid(deck'[j])
    <3>1. j \in Tasks
      BY <2>1 DEF W!Known
    <3>2. CASE j = i
      BY <1>1, <3>2
    <3>3. CASE j # i
      BY <1>1, <2>1, <3>1, <3>3 DEF WorkInv, CardsValid
    <3>4. QED
      BY <3>2, <3>3
  <2>2. QED
    BY <2>1 DEF CardsValid
<1>4. RanksOrdered' /\ DragStands'
  <2>1. ASSUME NEW j \in W!Known PROVE SameOrder(deck'[j], deck[j])
    <3>1. CASE j = i
      BY <1>1, <2>1, <3>1
    <3>2. CASE j # i
      BY <1>1, <2>1, <3>2 DEF SameOrder, W!Known
    <3>3. QED
      BY <3>1, <3>2
  <2>2. \A j \in W!Known' \ W!Known : deck'[j].rank = 0
    BY <1>1
  <2>3. W!Known \in SUBSET Tasks /\ W!Known \subseteq W!Known'
    BY <1>1 DEF W!Known
  <2>4. QED
    BY <1>2, <2>1, <2>2, <2>3, OrderKept
<1>5. QED
  BY <1>2, <1>3, <1>4 DEF WorkInv

LEMMA PutKeeps ==
    ASSUME WorkInv, NEW i \in Tasks, NEW c \in W!CardRecords, W!Put(i, c),
           i \in W!Known => SameOrder(c, deck[i]), i \notin W!Known => c.rank = 0
    PROVE  WorkInv'
<1>1. /\ W!Valid(c) /\ deck' = [deck EXCEPT ![i] = c] /\ undrag' = undrag
      /\ UNCHANGED <<habit, half, restored, dragged>>
  BY DEF W!Put
<1>2. /\ undrag' = NoUndo \/ undrag' \in [id : Tasks, card : W!CardRecords]
      /\ undrag' # NoUndo => W!Valid(undrag'.card)
  BY <1>1 DEF WorkInv, W!TypeOK, CardsValid
<1>3. QED
  BY <1>1, <1>2, RowKeeps

LEMMA UpdateFacts ==
    ASSUME WorkInv, NEW i \in W!Known, NEW c \in W!CardRecords, SameOrder(c, deck[i]),
           W!Update(i, c)
    PROVE  WorkInv'
<1> DEFINE d == [c EXCEPT !.idle = 0]
           e == W!_stamp_deferred_at(d, deck[i].status)
<1>1. /\ d \in W!CardRecords /\ SameOrder(d, deck[i])
  BY WorkConstants DEF W!CardRecords, SameOrder
<1> HIDE DEF d
<1>2. e = d \/ e = [d EXCEPT !.since = 0]
  BY DEF W!_stamp_deferred_at
<1>3. e \in W!CardRecords /\ SameOrder(e, deck[i])
  <2> HIDE DEF e
  <2>1. QED
    BY <1>1, <1>2, WorkConstants DEF W!CardRecords, SameOrder
<1>4. W!Put(i, e) /\ i \in Tasks
  BY RowType DEF W!Update, WorkInv, d
<1> HIDE DEF e
<1>5. QED
  BY <1>3, <1>4, PutKeeps

-----------------------------------------------------------------------------
(* The verbs.                                                              *)

LEMMA UsedStatusTypes ==
    \A i \in Tasks : W!UsedStatuses(i) \subseteq {"deferred", "in_progress", "blocked"}
BY DEF W!UsedStatuses

\* A card with one or two of the fields the verbs give.
LEMMA FieldFacts ==
    ASSUME NEW c \in W!CardRecords
    PROVE  /\ \A st \in {"deferred", "in_progress", "blocked", "done", "cancelled"} :
                 /\ [c EXCEPT !.status = st] \in W!CardRecords
                 /\ SameOrder([c EXCEPT !.status = st], c)
                 /\ [c EXCEPT !.status = st, !.idle = 0] \in W!CardRecords
                 /\ SameOrder([c EXCEPT !.status = st, !.idle = 0], c)
                 /\ \A bl \in W!S!Blockers :
                       /\ [c EXCEPT !.status = st, !.blocker = bl] \in W!CardRecords
                       /\ SameOrder([c EXCEPT !.status = st, !.blocker = bl], c)
           /\ [c EXCEPT !.idle = 0] \in W!CardRecords
           /\ SameOrder([c EXCEPT !.idle = 0], c)
           /\ [c EXCEPT !.status = "cancelled", !.deleted = TRUE, !.idle = 0] \in W!CardRecords
           /\ SameOrder([c EXCEPT !.status = "cancelled", !.deleted = TRUE, !.idle = 0], c)
<1>1. 0 \in 0 .. MaxIdle
  BY WorkConstants
<1>2. QED
  BY <1>1 DEF W!CardRecords, SameOrder

LEMMA SetStatusKeeps ==
    ASSUME WorkInv, NEW i \in Tasks, W!SetStatus(i)
    PROVE  WorkInv'
<1>1. PICK st \in W!UsedStatuses(i) \cup {"done", "cancelled"}, bl \in W!S!Blockers :
          W!Update(i, [deck[i] EXCEPT !.status = st, !.blocker = bl])
  BY DEF W!SetStatus
<1> DEFINE c == [deck[i] EXCEPT !.status = st, !.blocker = bl]
<1>2. i \in W!Known /\ deck[i] \in W!CardRecords
  BY <1>1, RowType DEF W!Update, W!Live, WorkInv
<1>3. st \in {"deferred", "in_progress", "blocked", "done", "cancelled"}
  BY UsedStatusTypes
<1>4. c \in W!CardRecords /\ SameOrder(c, deck[i])
  BY <1>2, <1>3, FieldFacts
<1>5. W!Update(i, c)
  BY <1>1
<1> HIDE DEF c
<1>6. QED
  BY <1>2, <1>4, <1>5, UpdateFacts

LEMMA SetParkedKeeps ==
    ASSUME WorkInv, NEW i \in Tasks, W!SetParked(i)
    PROVE  WorkInv'
<1>1. PICK p \in BOOLEAN : W!Update(i, [deck[i] EXCEPT !.parked = p])
  BY DEF W!SetParked
<1> DEFINE c == [deck[i] EXCEPT !.parked = p]
<1>2. i \in W!Known /\ deck[i] \in W!CardRecords
  BY <1>1, RowType DEF W!Update, W!Live, WorkInv
<1>3. c \in W!CardRecords /\ SameOrder(c, deck[i]) /\ W!Update(i, c)
  BY <1>1, <1>2 DEF W!CardRecords, SameOrder
<1> HIDE DEF c
<1>4. QED
  BY <1>2, <1>3, UpdateFacts

LEMMA SetDeadlinesKeeps ==
    ASSUME WorkInv, NEW i \in Tasks, W!SetDeadlines(i)
    PROVE  WorkInv'
<1>1. PICK es \in SUBSET Entries : W!Update(i, [deck[i] EXCEPT !.deadlines = es])
  BY DEF W!SetDeadlines
<1> DEFINE c == [deck[i] EXCEPT !.deadlines = es]
<1>2. i \in W!Known /\ deck[i] \in W!CardRecords
  BY <1>1, RowType DEF W!Update, W!Live, WorkInv
<1>3. es \subseteq W!DeadlineEntries
  BY WorkLoopAssumption DEF W!WorkAssumption
<1>4. c \in W!CardRecords /\ SameOrder(c, deck[i])
  BY <1>2, <1>3 DEF W!CardRecords, SameOrder
<1>5. W!Update(i, c)
  BY <1>1
<1> HIDE DEF c
<1>6. QED
  BY <1>2, <1>4, <1>5, UpdateFacts

LEMMA SetScheduledKeeps ==
    ASSUME WorkInv, NEW i \in Tasks, W!SetScheduled(i)
    PROVE  WorkInv'
<1>1. PICK at \in {"no", "ahead"} : W!Update(i, [deck[i] EXCEPT !.scheduled = at])
  BY DEF W!SetScheduled
<1> DEFINE c == [deck[i] EXCEPT !.scheduled = at]
<1>2. i \in W!Known /\ deck[i] \in W!CardRecords
  BY <1>1, RowType DEF W!Update, W!Live, WorkInv
<1>3. c \in W!CardRecords /\ SameOrder(c, deck[i])
  BY <1>2 DEF W!CardRecords, SameOrder
<1>4. W!Update(i, c)
  BY <1>1
<1> HIDE DEF c
<1>5. QED
  BY <1>2, <1>3, <1>4, UpdateFacts

LEMMA SetAgentKeeps ==
    ASSUME WorkInv, NEW i \in Tasks, W!SetAgent(i)
    PROVE  WorkInv'
<1>1. PICK ag \in Agents : W!Update(i, [deck[i] EXCEPT !.agent = ag])
  BY DEF W!SetAgent
<1> DEFINE c == [deck[i] EXCEPT !.agent = ag]
<1>2. i \in W!Known /\ deck[i] \in W!CardRecords
  BY <1>1, RowType DEF W!Update, W!Live, WorkInv
<1>3. c \in W!CardRecords /\ SameOrder(c, deck[i])
  BY <1>2 DEF W!CardRecords, SameOrder
<1>4. W!Update(i, c)
  BY <1>1
<1> HIDE DEF c
<1>5. QED
  BY <1>2, <1>3, <1>4, UpdateFacts

LEMMA AddKeeps ==
    ASSUME WorkInv, NEW i \in Tasks, W!add_task(i)
    PROVE  WorkInv'
<1>1. PICK st \in W!UsedStatuses(i), ag \in W!Owners(i) :
          W!Put(i, [status |-> st, deleted |-> FALSE, blocker |-> "unset",
                    parked |-> FALSE, since |-> 0, idle |-> 0, agent |-> ag,
                    assignee |-> ag, deadlines |-> {}, scheduled |-> "no",
                    axes |-> {}, first |-> 0, rank |-> 0, priority |-> 0])
  BY DEF W!add_task
<1> DEFINE c == [status |-> st, deleted |-> FALSE, blocker |-> "unset",
                 parked |-> FALSE, since |-> 0, idle |-> 0, agent |-> ag,
                 assignee |-> ag, deadlines |-> {}, scheduled |-> "no",
                 axes |-> {}, first |-> 0, rank |-> 0, priority |-> 0]
<1>2. i \notin W!Known
  BY DEF W!add_task, W!Known
<1>3. st \in {"deferred", "in_progress", "blocked"} /\ ag \in Agents
  BY UsedStatusTypes, WorkConstants DEF W!Owners
<1>4. c \in W!CardRecords /\ c.rank = 0
  BY <1>3, WorkConstants DEF W!CardRecords, W!S!Blockers
<1>5. W!Put(i, c)
  BY <1>1
<1> HIDE DEF c
<1>6. QED
  BY <1>2, <1>4, <1>5, PutKeeps

\* Verbs and handlers that write the status, the people or nothing.
LEMMA PlainKeeps ==
    ASSUME WorkInv, NEW i \in Tasks,
           \/ W!comment_task(i) \/ W!complete_task(i) \/ W!handle_archive(i)
           \/ W!close_cmd(i)
    PROVE  WorkInv'
<1>1. i \in W!Known /\ deck[i] \in W!CardRecords
  BY RowType DEF W!comment_task, W!complete_task, W!handle_archive, W!close_cmd,
     W!Live, WorkInv
<1>2. ASSUME NEW c \in W!CardRecords, SameOrder(c, deck[i]), W!Put(i, c)
      PROVE  WorkInv'
  BY <1>1, <1>2, PutKeeps
<1>3. CASE W!comment_task(i)
  <2> DEFINE c == [deck[i] EXCEPT !.idle = 0]
  <2>1. c \in W!CardRecords /\ SameOrder(c, deck[i])
    BY <1>1, FieldFacts
  <2>2. W!Put(i, c)
    BY <1>3 DEF W!comment_task
  <2> HIDE DEF c
  <2>3. QED
    BY <1>2, <2>1, <2>2
<1>4. CASE W!complete_task(i)
  <2> DEFINE c == [deck[i] EXCEPT !.status = "done"]
  <2>1. c \in W!CardRecords /\ SameOrder(c, deck[i])
    BY <1>1, FieldFacts
  <2>2. W!Put(i, c)
    BY <1>4 DEF W!complete_task
  <2> HIDE DEF c
  <2>3. QED
    BY <1>2, <2>1, <2>2
<1>5. CASE W!handle_archive(i)
  <2> DEFINE c == [deck[i] EXCEPT !.status = "deferred"]
  <2>1. c \in W!CardRecords /\ SameOrder(c, deck[i])
    BY <1>1, FieldFacts
  <2>2. W!Put(i, c)
    BY <1>5 DEF W!handle_archive
  <2> HIDE DEF c
  <2>3. QED
    BY <1>2, <2>1, <2>2
<1>6. CASE W!close_cmd(i)
  <2> DEFINE closed == [deck[i] EXCEPT !.status = "cancelled", !.idle = 0]
             kept == [deck[i] EXCEPT !.idle = 0]
             c == IF W!Valid(closed) THEN closed ELSE kept
  <2>1. /\ closed \in W!CardRecords /\ SameOrder(closed, deck[i])
        /\ kept \in W!CardRecords /\ SameOrder(kept, deck[i])
    BY <1>1, FieldFacts
  <2>2. W!Put(i, c)
    BY <1>6 DEF W!close_cmd
  <2> HIDE DEF closed, kept
  <2>3. c \in W!CardRecords /\ SameOrder(c, deck[i])
    BY <2>1
  <2> HIDE DEF c
  <2>4. QED
    BY <1>2, <2>2, <2>3
<1>7. QED
  BY <1>3, <1>4, <1>5, <1>6

LEMMA OtherKeeps ==
    ASSUME WorkInv, NEW i \in Tasks,
           W!reassign_task(i) \/ W!reopen_task(i) \/ W!handle_reopen(i)
    PROVE  WorkInv'
<1>1. i \in W!Known /\ deck[i] \in W!CardRecords
  BY RowType DEF W!reassign_task, W!reopen_task, W!handle_reopen, W!Live, WorkInv
<1>2. ASSUME NEW c \in W!CardRecords, SameOrder(c, deck[i]), W!Put(i, c)
      PROVE  WorkInv'
  BY <1>1, <1>2, PutKeeps
<1>3. CASE W!reassign_task(i)
  <2>1. PICK ag \in Agents :
           W!Put(i, [deck[i] EXCEPT !.agent = ag, !.assignee = ag, !.idle = 0])
    BY <1>3 DEF W!reassign_task
  <2> DEFINE c == [deck[i] EXCEPT !.agent = ag, !.assignee = ag, !.idle = 0]
  <2>2. 0 \in 0 .. MaxIdle
    BY WorkConstants
  <2>3. c \in W!CardRecords
    BY <1>1, <2>2 DEF W!CardRecords
  <2>4. SameOrder(c, deck[i])
    BY <1>1 DEF W!CardRecords, SameOrder
  <2>5. W!Put(i, c)
    BY <2>1
  <2> HIDE DEF c
  <2>6. QED
    BY <1>2, <2>3, <2>4, <2>5
<1>4. CASE W!reopen_task(i)
  <2> DEFINE c == [deck[i] EXCEPT !.status = "blocked", !.blocker = "external"]
  <2>1. c \in W!CardRecords /\ SameOrder(c, deck[i])
    BY <1>1, FieldFacts DEF W!S!Blockers
  <2>2. W!Put(i, c)
    BY <1>4 DEF W!reopen_task
  <2> HIDE DEF c
  <2>3. QED
    BY <1>2, <2>1, <2>2
<1>5. CASE W!handle_reopen(i)
  <2>1. PICK st \in W!UsedStatuses(i) :
           W!Put(i, [deck[i] EXCEPT !.status = st,
                       !.blocker = IF st = "blocked" THEN "external" ELSE "unset"])
    BY <1>5 DEF W!handle_reopen
  <2> DEFINE bl == IF st = "blocked" THEN "external" ELSE "unset"
             c == [deck[i] EXCEPT !.status = st, !.blocker = bl]
  <2>2. /\ st \in {"deferred", "in_progress", "blocked", "done", "cancelled"}
        /\ bl \in W!S!Blockers
    BY UsedStatusTypes DEF W!S!Blockers
  <2>3. c \in W!CardRecords /\ SameOrder(c, deck[i])
    <3> HIDE DEF bl
    <3>1. QED
      BY <1>1, <2>2, FieldFacts
  <2>4. W!Put(i, c)
    BY <2>1
  <2> HIDE DEF c
  <2>5. QED
    BY <1>2, <2>3, <2>4
<1>6. QED
  BY <1>3, <1>4, <1>5

LEMMA DeleteKeeps ==
    ASSUME WorkInv, NEW i \in Tasks, W!delete_task(i)
    PROVE  WorkInv'
<1> DEFINE c == [deck[i] EXCEPT !.status = "cancelled", !.deleted = TRUE, !.idle = 0]
<1>1. i \in W!Known /\ deck[i] \in W!CardRecords
  BY RowType DEF W!delete_task, W!Live, WorkInv
<1>2. c \in W!CardRecords /\ SameOrder(c, deck[i])
  BY <1>1, FieldFacts
<1>3. /\ W!Valid(c) /\ deck' = [deck EXCEPT ![i] = c]
      /\ UNCHANGED <<habit, half, restored, dragged>>
      /\ undrag' = [id |-> i, card |-> deck[i]]
  BY DEF W!delete_task
<1>4. undrag' \in [id : Tasks, card : W!CardRecords] /\ W!Valid(undrag'.card)
  BY <1>1, <1>3 DEF WorkInv, CardsValid
<1> HIDE DEF c
<1>5. QED
  BY <1>1, <1>2, <1>3, <1>4, RowKeeps

\* A restored row brings back an older rank and priority.
LEMMA RestoreKeeps ==
    ASSUME WorkInv, NEW i \in Tasks, W!restore_task(i)
    PROVE  WorkInv'
<1> DEFINE c == undrag.card
<1>1. /\ undrag # NoUndo /\ deck' = [deck EXCEPT ![i] = c] /\ restored' = TRUE
      /\ dragged' = {p \in dragged : p[1] # i /\ p[2] # i}
      /\ UNCHANGED <<habit, half, undrag>>
  BY DEF W!restore_task
<1>2. W!TypeOK /\ c \in W!CardRecords /\ W!Valid(c)
  BY <1>1 DEF WorkInv, W!TypeOK, CardsValid
<1>3. /\ deck' \in [Tasks -> {NoCard} \cup W!CardRecords]
      /\ deck'[i] = c /\ \A j \in Tasks \ {i} : deck'[j] = deck[j]
      /\ W!Known' = W!Known \cup {i}
  BY <1>1, <1>2, RowFacts
<1>4. W!TypeOK'
  BY <1>1, <1>2, <1>3 DEF W!TypeOK
<1>5. CardsValid'
  <2>1. ASSUME NEW j \in W!Known' PROVE W!Valid(deck'[j])
    <3>1. j \in Tasks
      BY <2>1 DEF W!Known
    <3>2. CASE j = i
      BY <1>2, <1>3, <3>2
    <3>3. CASE j # i
      BY <1>3, <2>1, <3>1, <3>3 DEF WorkInv, CardsValid
    <3>4. QED
      BY <3>2, <3>3
  <2>2. QED
    BY <1>1, <1>2, <2>1 DEF CardsValid
<1>6. RanksOrdered'
  BY <1>1 DEF RanksOrdered
<1>7. DragStands'
  <2> SUFFICES ASSUME NEW p \in dragged'
               PROVE  /\ p[1] \in W!Known' /\ p[2] \in W!Known'
                      /\ 0 < deck'[p[1]].priority
                      /\ deck'[p[1]].priority < deck'[p[2]].priority
    BY DEF DragStands
  <2>1. p \in dragged /\ p[1] # i /\ p[2] # i /\ p[1] \in Tasks /\ p[2] \in Tasks
    BY <1>1, <1>2 DEF W!TypeOK
  <2>2. /\ p[1] \in W!Known /\ p[2] \in W!Known
        /\ 0 < deck[p[1]].priority /\ deck[p[1]].priority < deck[p[2]].priority
    BY <2>1 DEF WorkInv, DragStands
  <2>3. QED
    BY <1>3, <2>1, <2>2
<1>8. QED
  BY <1>4, <1>5, <1>6, <1>7 DEF WorkInv

-----------------------------------------------------------------------------
(* Scoring a card ranks them all.                                          *)

LEMMA ScoreTypes ==
    ASSUME NEW c \in W!CardRecords, c.axes # {}
    PROVE  /\ W!Score(c) \in Int /\ W!Importance(c) \in Int /\ W!High(c) \in BOOLEAN
           /\ c.first \in Nat
<1>1. (CHOOSE s \in c.axes : TRUE) \in Scores /\ c.first \in Nat
  BY DEF W!CardRecords
<1>2. (CHOOSE s \in c.axes : TRUE) \in (1 .. 5) \X (1 .. 5)
  BY <1>1, WorkConstants
<1>3. W!Urgency(c) \in 1 .. 5 /\ W!Importance(c) \in 1 .. 5
  BY <1>2 DEF W!Urgency, W!Importance
<1>4. W!Score(c) \in Int
  BY <1>3 DEF W!Score
<1>5. QED
  BY <1>1, <1>3, <1>4 DEF W!High, W!HIGH_THRESHOLD

\* The dispatch order is a strict total order of the cards with axes.
LEMMA BeforeOrder ==
    ASSUME NEW b \in [Tasks -> {NoCard} \cup W!CardRecords],
           NEW i \in W!Ranked(b), NEW j \in W!Ranked(b), NEW m \in W!Ranked(b)
    PROVE  /\ ~W!Before(b, i, i)
           /\ i # j => W!Before(b, i, j) \/ W!Before(b, j, i)
           /\ W!Before(b, i, j) /\ W!Before(b, j, m) => W!Before(b, i, m)
<1> DEFINE s(k) == W!Score(b[k])
           h(k) == W!High(b[k])
           f(k) == b[k].first
<1>1. \A k \in W!Ranked(b) : /\ b[k] \in W!CardRecords /\ b[k].axes # {} /\ k \in Nat
  BY WorkConstants DEF W!Ranked
<1>2. \A k \in W!Ranked(b) : /\ s(k) \in Int /\ h(k) \in BOOLEAN /\ f(k) \in Nat
                             /\ k \in Nat
  BY <1>1, ScoreTypes
<1>3. \A k, l \in W!Ranked(b) :
         W!Before(b, k, l) <=>
             \/ h(k) /\ ~h(l)
             \/ /\ h(k) = h(l)
                /\ \/ s(k) > s(l)
                   \/ /\ s(k) = s(l)
                      /\ f(k) < f(l) \/ (f(k) = f(l) /\ k < l)
  BY DEF W!Before
<1> HIDE DEF s, h, f
<1>4. ~W!Before(b, i, i)
  BY <1>2, <1>3
<1>5. i # j => W!Before(b, i, j) \/ W!Before(b, j, i)
  BY <1>2, <1>3
<1>6. W!Before(b, i, j) /\ W!Before(b, j, m) => W!Before(b, i, m)
  BY <1>2, <1>3
<1>7. QED
  BY <1>4, <1>5, <1>6

LEMMA PositionIsCount ==
    ASSUME NEW b, NEW i \in W!Ranked(b)
    PROVE  /\ IsFiniteSet({j \in W!Ranked(b) : W!Before(b, j, i)})
           /\ W!Position(b, i) = Cardinality({j \in W!Ranked(b) : W!Before(b, j, i)}) + 1
           /\ W!Position(b, i) \in Nat \ {0}
<1> DEFINE A == {j \in W!Ranked(b) : W!Before(b, j, i)}
<1>1. A \subseteq Tasks
  BY DEF W!Ranked
<1>2. IsFiniteSet(A)
  BY <1>1, WorkConstants, FS_Subset
<1>3. W!Position(b, i) = Cardinality(A) + 1
  BY DEF W!Position, W!Cardinality, Cardinality
<1>4. Cardinality(A) \in Nat
  BY <1>2, FS_CardinalityType
<1>5. QED
  BY <1>2, <1>3, <1>4

LEMMA PositionGrows ==
    ASSUME NEW b \in [Tasks -> {NoCard} \cup W!CardRecords],
           NEW i \in W!Ranked(b), NEW j \in W!Ranked(b), W!Before(b, i, j)
    PROVE  W!Position(b, i) < W!Position(b, j)
<1> DEFINE A == {m \in W!Ranked(b) : W!Before(b, m, i)}
           B == {m \in W!Ranked(b) : W!Before(b, m, j)}
<1>1. A \subseteq B
  BY BeforeOrder
<1>2. i \in B /\ i \notin A
  BY BeforeOrder
<1>3. IsFiniteSet(B) /\ IsFiniteSet(A)
  BY PositionIsCount
<1>4. Cardinality(A) < Cardinality(B)
  <2>1. A \in SUBSET B /\ A # B
    BY <1>1, <1>2
  <2> HIDE DEF A, B
  <2>2. Cardinality(A) <= Cardinality(B) /\ Cardinality(A) # Cardinality(B)
    BY <1>3, <2>1, FS_Subset
  <2>3. Cardinality(A) \in Nat /\ Cardinality(B) \in Nat
    BY <1>3, FS_CardinalityType
  <2>4. QED
    BY <2>2, <2>3
<1>5. QED
  BY <1>4, <1>3, PositionIsCount, FS_CardinalityType

LEMMA PositionsOrder ==
    ASSUME NEW b \in [Tasks -> {NoCard} \cup W!CardRecords],
           NEW i \in W!Ranked(b), NEW j \in W!Ranked(b), i # j
    PROVE  W!Position(b, i) < W!Position(b, j) <=> W!Before(b, i, j)
<1>1. W!Before(b, i, j) \/ W!Before(b, j, i)
  BY BeforeOrder
<1>2. W!Before(b, i, j) => W!Position(b, i) < W!Position(b, j)
  BY PositionGrows
<1>3. W!Before(b, j, i) => W!Position(b, j) < W!Position(b, i)
  BY PositionGrows
<1>4. W!Position(b, i) \in Nat /\ W!Position(b, j) \in Nat
  BY PositionIsCount
<1>5. QED
  BY <1>1, <1>2, <1>3, <1>4

\* recompute_ranks changes ranks only.
LEMMA RankedFacts ==
    ASSUME NEW b \in [Tasks -> {NoCard} \cup W!CardRecords]
    PROVE  LET d == W!recompute_ranks(b)
           IN  /\ d \in [Tasks -> {NoCard} \cup W!CardRecords]
               /\ \A j \in Tasks : b[j] = NoCard => d[j] = NoCard
               /\ \A j \in Tasks : b[j] # NoCard =>
                     /\ d[j] \in W!CardRecords
                     /\ d[j].status = b[j].status /\ d[j].blocker = b[j].blocker
                     /\ d[j].axes = b[j].axes /\ d[j].first = b[j].first
                     /\ d[j].priority = b[j].priority
                     /\ d[j].rank = IF j \in W!Ranked(b) THEN W!Position(b, j) ELSE 0
<1> DEFINE d == W!recompute_ranks(b)
           n(j) == IF j \in W!Ranked(b) THEN W!Position(b, j) ELSE 0
<1>1. /\ d = [j \in Tasks |-> d[j]]
      /\ \A j \in Tasks : d[j] = IF b[j] = NoCard THEN NoCard
                                 ELSE [b[j] EXCEPT !.rank = n(j)]
  BY DEF W!recompute_ranks
<1>2. \A j \in Tasks : n(j) \in Nat
  BY PositionIsCount
<1> HIDE DEF n
<1>3. ASSUME NEW j \in Tasks, b[j] # NoCard
      PROVE  /\ d[j] \in W!CardRecords
             /\ d[j].status = b[j].status /\ d[j].blocker = b[j].blocker
             /\ d[j].axes = b[j].axes /\ d[j].first = b[j].first
             /\ d[j].priority = b[j].priority /\ d[j].rank = n(j)
  <2>1. d[j] = [b[j] EXCEPT !.rank = n(j)] /\ b[j] \in W!CardRecords /\ n(j) \in Nat
    BY <1>1, <1>2, <1>3
  <2> HIDE DEF d
  <2>2. QED
    BY <2>1 DEF W!CardRecords
<1>4. \A j \in Tasks : b[j] = NoCard => d[j] = NoCard
  BY <1>1
<1>5. d \in [Tasks -> {NoCard} \cup W!CardRecords]
  <2> HIDE DEF d
  <2>1. \A j \in Tasks : d[j] \in {NoCard} \cup W!CardRecords
    BY <1>3, <1>4
  <2>2. QED
    BY <1>1, <2>1
<1> HIDE DEF d
<1>6. QED
  BY <1>3, <1>4, <1>5 DEF d, n

LEMMA ScoredAtType ==
    ASSUME NEW i, NEW c, c.first \in Nat
    PROVE  W!Scored(i, c) \subseteq Nat
<1>1. W!Cardinality(Tasks) \in Nat
  BY WorkConstants, FS_CardinalityType DEF W!Cardinality, Cardinality
<1>2. QED
  BY <1>1 DEF W!Scored

LEMMA RescoreKeeps ==
    ASSUME WorkInv, NEW i \in Tasks, W!rescore_task(i)
    PROVE  WorkInv'
<1>1. PICK s \in Scores, at \in W!Scored(i, deck[i]) :
         deck' = W!recompute_ranks(
                    [deck EXCEPT ![i] = [@ EXCEPT !.axes = {s}, !.first = at, !.idle = 0]])
  BY DEF W!rescore_task
<1>2. /\ restored' = FALSE /\ UNCHANGED <<habit, half, undrag, dragged>>
      /\ i \in W!Known
  BY DEF W!rescore_task, W!Live
<1> DEFINE c == [deck[i] EXCEPT !.axes = {s}, !.first = at, !.idle = 0]
           b == [deck EXCEPT ![i] = c]
<1>3. /\ W!TypeOK /\ deck \in [Tasks -> {NoCard} \cup W!CardRecords]
      /\ deck[i] \in W!CardRecords
  BY <1>2, RowType DEF WorkInv, W!TypeOK
<1>4. deck' = W!recompute_ranks(b)
  BY <1>1, <1>3
<1>5. /\ c \in W!CardRecords /\ c.status = deck[i].status
      /\ c.blocker = deck[i].blocker /\ c.priority = deck[i].priority
  <2>1. at \in Nat /\ 0 \in 0 .. MaxIdle
    BY <1>3, ScoredAtType, WorkConstants DEF W!CardRecords
  <2>2. QED
    BY <1>3, <2>1 DEF W!CardRecords
<1> HIDE DEF c
<1>6. /\ b \in [Tasks -> {NoCard} \cup W!CardRecords] /\ b[i] = c
      /\ \A j \in Tasks \ {i} : b[j] = deck[j]
  BY <1>3, <1>5
<1> HIDE DEF b
<1>7. \A j \in Tasks : /\ b[j] = NoCard <=> deck[j] = NoCard
                       /\ b[j] # NoCard => /\ b[j].status = deck[j].status
                                           /\ b[j].blocker = deck[j].blocker
                                           /\ b[j].priority = deck[j].priority
  BY <1>2, <1>5, <1>6, WorkConstants DEF W!Known
<1>8. /\ deck' \in [Tasks -> {NoCard} \cup W!CardRecords]
      /\ \A j \in Tasks : b[j] = NoCard => deck'[j] = NoCard
      /\ \A j \in Tasks : b[j] # NoCard =>
            /\ deck'[j] \in W!CardRecords
            /\ deck'[j].status = b[j].status /\ deck'[j].blocker = b[j].blocker
            /\ deck'[j].axes = b[j].axes /\ deck'[j].first = b[j].first
            /\ deck'[j].priority = b[j].priority
            /\ deck'[j].rank = IF j \in W!Ranked(b) THEN W!Position(b, j) ELSE 0
  BY <1>4, <1>6, RankedFacts
<1>9. W!Known' = W!Known
  BY <1>7, <1>8, WorkConstants DEF W!Known
<1>10. W!TypeOK'
  BY <1>2, <1>3, <1>8 DEF W!TypeOK
<1>11. CardsValid'
  BY <1>2, <1>7, <1>8, <1>9 DEF WorkInv, CardsValid, W!Valid, W!Known
<1>12. ASSUME NEW j \in Scored', NEW k \in Scored', j # k
       PROVE  deck'[j].rank < deck'[k].rank <=> W!Before(deck', j, k)
  <2>1. j \in Tasks /\ k \in Tasks /\ b[j] # NoCard /\ b[k] # NoCard
    BY <1>7, <1>9, <1>12 DEF Scored, W!Known
  <2>2. j \in W!Ranked(b) /\ k \in W!Ranked(b)
    BY <1>8, <1>12, <2>1 DEF Scored
  <2>3. deck'[j].rank = W!Position(b, j) /\ deck'[k].rank = W!Position(b, k)
    BY <1>8, <2>1, <2>2
  <2>4. W!Position(b, j) < W!Position(b, k) <=> W!Before(b, j, k)
    BY <1>6, <1>12, <2>2, PositionsOrder
  <2>5. W!Before(deck', j, k) <=> W!Before(b, j, k)
    BY <1>8, <2>1, BeforeSame
  <2>6. QED
    BY <2>3, <2>4, <2>5
<1>13. RanksOrdered'
  BY <1>12 DEF RanksOrdered
<1>14. DragStands'
  BY <1>2, <1>7, <1>8, <1>9 DEF WorkInv, DragStands, W!Known
<1>15. QED
  BY <1>10, <1>11, <1>13, <1>14 DEF WorkInv

-----------------------------------------------------------------------------
(* A drag, and time.                                                       *)

LEMMA PlaceFacts ==
    ASSUME NEW order \in W!Orders, NEW n \in DOMAIN order
    PROVE  /\ n \in Nat \ {0} /\ order[n] \in Tasks
           /\ W!Prioritised(order, order[n]) = n
<1>1. PICK k \in 1 .. W!Cardinality(Tasks) : order \in [1 .. k -> Tasks]
  BY DEF W!Orders
<1>2. n \in Nat \ {0} /\ order[n] \in Tasks
  BY <1>1
<1>3. W!Places(order, order[n]) = {n}
  BY DEF W!Orders, W!Places
<1>4. W!Max({n}) = n
  BY <1>2 DEF W!Max
<1>5. QED
  BY <1>2, <1>3, <1>4 DEF W!Prioritised

LEMMA PrioritisedType ==
    ASSUME WorkInv, NEW order \in W!Orders, NEW i \in W!Known
    PROVE  W!Prioritised(order, i) \in Nat
<1>1. CASE W!Places(order, i) = {}
  BY <1>1, RowType DEF W!Prioritised, WorkInv, W!CardRecords
<1>2. CASE W!Places(order, i) # {}
  <2>1. PICK n \in DOMAIN order : order[n] = i
    BY <1>2 DEF W!Places
  <2>2. QED
    BY <2>1, PlaceFacts
<1>3. QED
  BY <1>1, <1>2

LEMMA DragKeeps ==
    ASSUME WorkInv, W!handle_priority
    PROVE  WorkInv'
<1>1. PICK order \in W!Orders :
         /\ deck' = [i \in Tasks |->
                       IF i \notin W!Known THEN NoCard
                       ELSE [deck[i] EXCEPT !.priority = W!Prioritised(order, i)]]
         /\ dragged' = {p \in W!Known \X W!Known :
                           \E m, n \in DOMAIN order :
                               m < n /\ order[m] = p[1] /\ order[n] = p[2]}
  BY DEF W!handle_priority
<1>2. UNCHANGED <<habit, half, undrag, restored>>
  BY DEF W!handle_priority
<1> DEFINE pr(i) == W!Prioritised(order, i)
<1>3. ASSUME NEW i \in W!Known
      PROVE  /\ i \in Tasks /\ deck'[i] \in W!CardRecords
             /\ deck'[i].status = deck[i].status /\ deck'[i].blocker = deck[i].blocker
             /\ deck'[i].axes = deck[i].axes /\ deck'[i].first = deck[i].first
             /\ deck'[i].rank = deck[i].rank /\ deck'[i].priority = pr(i)
  <2>1. i \in Tasks /\ deck[i] \in W!CardRecords /\ pr(i) \in Nat
    BY RowType, PrioritisedType DEF WorkInv
  <2>2. deck'[i] = [deck[i] EXCEPT !.priority = pr(i)]
    BY <1>1, <2>1
  <2> HIDE DEF pr
  <2>3. QED
    BY <2>1, <2>2 DEF W!CardRecords
<1>4. \A i \in Tasks \ W!Known : deck'[i] = NoCard
  BY <1>1
<1>5. W!Known' = W!Known
  BY <1>3, <1>4, WorkConstants DEF W!Known
<1>6. deck' \in [Tasks -> {NoCard} \cup W!CardRecords]
  <2>1. \A i \in Tasks : deck'[i] \in {NoCard} \cup W!CardRecords
    BY <1>3, <1>4
  <2>2. deck' = [i \in Tasks |-> deck'[i]]
    BY <1>1
  <2>3. QED
    BY <2>1, <2>2
<1>7. W!TypeOK'
  <2>1. dragged' \subseteq Tasks \X Tasks
    BY <1>1 DEF W!Known
  <2>2. QED
    BY <1>2, <1>6, <2>1 DEF WorkInv, W!TypeOK
<1>8. CardsValid'
  BY <1>2, <1>3, <1>5 DEF WorkInv, CardsValid, W!Valid
<1>9. RanksOrdered'
  <2>1. W!Known \in SUBSET Tasks
    BY DEF W!Known
  <2>2. \A i \in W!Known : /\ deck'[i].axes = deck[i].axes
                           /\ deck'[i].first = deck[i].first
                           /\ deck'[i].rank = deck[i].rank
    BY <1>3
  <2>3. \A i \in W!Known' \ W!Known : deck'[i].rank = 0
    BY <1>5
  <2>4. restored' = restored
    BY <1>2
  <2>5. QED
    BY <1>7, <2>1, <2>2, <2>3, <2>4, RanksKept
<1>10. DragStands'
  <2> SUFFICES ASSUME NEW p \in dragged'
               PROVE  /\ p[1] \in W!Known' /\ p[2] \in W!Known'
                      /\ 0 < deck'[p[1]].priority
                      /\ deck'[p[1]].priority < deck'[p[2]].priority
    BY DEF DragStands
  <2>1. p[1] \in W!Known /\ p[2] \in W!Known
    BY <1>1
  <2>2. PICK m \in DOMAIN order, n \in DOMAIN order :
           m < n /\ order[m] = p[1] /\ order[n] = p[2]
    BY <1>1
  <2>3. pr(p[1]) = m /\ pr(p[2]) = n /\ m \in Nat \ {0} /\ n \in Nat
    BY <2>2, PlaceFacts
  <2>4. deck'[p[1]].priority = m /\ deck'[p[2]].priority = n
    BY <1>3, <2>1, <2>3
  <2>5. QED
    BY <1>5, <2>1, <2>2, <2>3, <2>4
<1>11. QED
  BY <1>7, <1>8, <1>9, <1>10 DEF WorkInv

LEMMA LaterType ==
    ASSUME NEW e \in W!DeadlineEntries
    PROVE  W!Later(e) \in W!DeadlineEntries
<1>1. W!EarliestLeft \in Int
  BY DEF W!EarliestLeft
<1>2. QED
  BY <1>1 DEF W!Later, W!DeadlineEntries

LEMMA AgedFacts ==
    ASSUME NEW i, NEW c \in W!CardRecords, NEW reached \in BOOLEAN
    PROVE  /\ W!Aged(i, c, reached) \in W!CardRecords
           /\ SameOrder(W!Aged(i, c, reached), c)
           /\ W!Valid(c) => W!Valid(W!Aged(i, c, reached))
<1> DEFINE since == W!UpTo(Horizon, c.since)
           idle == W!UpTo(MaxIdle, c.idle)
           later == {W!Later(e) : e \in c.deadlines}
           at == IF reached THEN "reached" ELSE c.scheduled
           d == [c EXCEPT !.since = since, !.idle = idle, !.deadlines = later,
                          !.scheduled = at]
<1>1. W!Aged(i, c, reached) = c \/ W!Aged(i, c, reached) = d
  BY DEF W!Aged
<1>2. since \in 0 .. Horizon /\ idle \in 0 .. MaxIdle
  BY WorkConstants DEF W!CardRecords, W!UpTo
<1>3. later \in SUBSET W!DeadlineEntries
  BY LaterType DEF W!CardRecords
<1>4. at \in {"no", "ahead", "reached"}
  BY DEF W!CardRecords
<1> HIDE DEF since, idle, later, at
<1>5. d \in W!CardRecords /\ SameOrder(d, c) /\ d.status = c.status /\ d.blocker = c.blocker
  BY <1>2, <1>3, <1>4 DEF W!CardRecords, SameOrder
<1> HIDE DEF d
<1>6. QED
  BY <1>1, <1>5 DEF W!Valid, SameOrder

LEMMA ElapseKeeps ==
    ASSUME WorkInv, W!Elapse
    PROVE  WorkInv'
<1>1. PICK reached \in SUBSET W!Known :
         deck' = [i \in Tasks |-> IF i \in W!Known THEN W!Aged(i, deck[i], i \in reached)
                                  ELSE NoCard]
  BY DEF W!Elapse
<1>2. /\ half' = 1 - half /\ UNCHANGED <<habit, restored, dragged>>
      /\ undrag' = IF undrag = NoUndo THEN NoUndo
                   ELSE [undrag EXCEPT !.card = W!Aged(undrag.id, undrag.card, FALSE)]
  BY DEF W!Elapse
<1>3. ASSUME NEW i \in W!Known
      PROVE  /\ i \in Tasks /\ deck'[i] \in W!CardRecords
             /\ SameOrder(deck'[i], deck[i]) /\ W!Valid(deck'[i])
  <2>1. i \in Tasks /\ deck[i] \in W!CardRecords /\ W!Valid(deck[i])
    BY RowType DEF WorkInv, CardsValid
  <2>2. deck'[i] = W!Aged(i, deck[i], i \in reached)
    BY <1>1, <2>1
  <2>3. (i \in reached) \in BOOLEAN
    OBVIOUS
  <2>4. QED
    BY <2>1, <2>2, <2>3, AgedFacts
<1>4. \A i \in Tasks \ W!Known : deck'[i] = NoCard
  BY <1>1
<1>5. W!Known' = W!Known
  BY <1>3, <1>4, WorkConstants DEF W!Known
<1>6. deck' \in [Tasks -> {NoCard} \cup W!CardRecords]
  <2>1. \A i \in Tasks : deck'[i] \in {NoCard} \cup W!CardRecords
    BY <1>3, <1>4
  <2>2. deck' = [i \in Tasks |-> deck'[i]]
    BY <1>1
  <2>3. QED
    BY <2>1, <2>2
<1>7. /\ undrag' = NoUndo \/ undrag' \in [id : Tasks, card : W!CardRecords]
      /\ undrag' # NoUndo => W!Valid(undrag'.card)
  <2>1. CASE undrag = NoUndo
    BY <1>2, <2>1
  <2>2. CASE undrag # NoUndo
    <3>1. undrag \in [id : Tasks, card : W!CardRecords] /\ W!Valid(undrag.card)
      BY <2>2 DEF WorkInv, W!TypeOK, CardsValid
    <3> DEFINE aged == W!Aged(undrag.id, undrag.card, FALSE)
    <3>2. aged \in W!CardRecords /\ W!Valid(aged)
      BY <3>1, AgedFacts
    <3> HIDE DEF aged
    <3>3. undrag' = [undrag EXCEPT !.card = aged]
      BY <1>2, <2>2 DEF aged
    <3>4. QED
      BY <3>1, <3>2, <3>3
  <2>3. QED
    BY <2>1, <2>2
<1>8. W!TypeOK'
  <2>1. /\ habit \in Habits /\ half \in {0, 1} /\ restored \in BOOLEAN
        /\ dragged \subseteq Tasks \X Tasks
    BY DEF WorkInv, W!TypeOK
  <2>2. half' \in {0, 1}
    BY <1>2, <2>1
  <2>3. QED
    BY <1>2, <1>6, <1>7, <2>1, <2>2 DEF W!TypeOK
<1>9. CardsValid'
  BY <1>3, <1>5, <1>7 DEF CardsValid
<1>10. RanksOrdered' /\ DragStands'
  <2>1. W!Known \in SUBSET Tasks /\ W!Known \subseteq W!Known'
    BY <1>5 DEF W!Known
  <2>2. \A i \in W!Known : SameOrder(deck'[i], deck[i])
    BY <1>3
  <2>3. \A i \in W!Known' \ W!Known : deck'[i].rank = 0
    BY <1>5
  <2>4. restored' = restored /\ dragged' = dragged
    BY <1>2
  <2>5. QED
    BY <1>8, <2>1, <2>2, <2>3, <2>4, OrderKept
<1>11. QED
  BY <1>8, <1>9, <1>10 DEF WorkInv

-----------------------------------------------------------------------------
(* What follows from it, and the theorem.                                  *)

LEMMA WorkInitial == SidesInit => WorkInv
<1> SUFFICES ASSUME W!Init PROVE WorkInv
  BY DEF SidesInit
<1>1. W!Known = {}
  BY DEF W!Init, W!Known
<1>2. W!TypeOK
  BY DEF W!Init, W!TypeOK
<1>3. CardsValid /\ RanksOrdered /\ DragStands
  BY <1>1 DEF W!Init, CardsValid, RanksOrdered, Scored, DragStands
<1>4. QED
  BY <1>2, <1>3 DEF WorkInv

LEMMA WorkStep == WorkInv /\ [SidesNext]_sideVars => WorkInv'
<1> SUFFICES ASSUME WorkInv, [SidesNext]_sideVars PROVE WorkInv'
  OBVIOUS
<1>1. CASE UNCHANGED workVars
  BY <1>1 DEF workVars, WorkInv, W!TypeOK, CardsValid, RanksOrdered, DragStands,
     Scored, W!Known, W!Before, W!High, W!Score, W!Importance, W!Urgency
<1>2. CASE W!Next
  BY <1>2, SetStatusKeeps, SetParkedKeeps, SetDeadlinesKeeps, SetScheduledKeeps,
     SetAgentKeeps, AddKeeps, PlainKeeps, OtherKeeps, DeleteKeeps, RestoreKeeps,
     RescoreKeeps, DragKeeps, ElapseKeeps DEF W!Next, W!Verb
<1>3. QED
  BY <1>1, <1>2 DEF SidesNext, Lives, Tells, Works, sideVars

\* Whoever owns what the nudges hold against an agent, and the validator,
\* settle it.
LEMMA HeldListed == WorkInv => W!HeldIsListed
<1> SUFFICES ASSUME WorkInv, NEW a \in Agents, NEW i \in W!HeldAgainst(a)
             PROVE  /\ i \in W!MayStopItems(a)
                    /\ deck[i].status = "in_progress" =>
                          W!_is_runnable(a, deck[i]) /\ i \in W!list_tasks(W!AtWork(a))
  BY DEF W!HeldIsListed
<1> DEFINE c == deck[i]
<1>1. /\ i \in W!Live /\ i \in W!Known /\ ~c.deleted /\ c.agent = a
      /\ W!S!is_owner_actionable(c)
  BY DEF W!HeldAgainst, W!Live
<1>2. /\ c.status \in {"in_progress", "blocked"}
      /\ ~(c.status = "blocked" /\ c.blocker = "external")
  BY <1>1 DEF W!S!is_owner_actionable, W!S!is_externally_blocked,
     W!S!STALE_ACTIVE_STATUSES
<1>3. c.blocker \in {"unset", "none", "external"} /\ c.assignee \in Agents
  BY <1>1, RowType DEF WorkInv, W!CardRecords, W!S!Blockers
<1>4. c.blocker # "unset" => c.status = "blocked"
  BY <1>1 DEF WorkInv, CardsValid, W!Valid
<1>5. W!Owns(a, c)
  BY <1>1 DEF W!Owns
<1> HIDE DEF c
<1>6. i \in W!MayStopItems(a)
  BY <1>1, <1>2, <1>3, <1>5 DEF W!MayStopItems, W!Ungated, c
<1>7. ASSUME c.status = "in_progress"
      PROVE  W!_is_runnable(a, c) /\ W!_match(c, W!AtWork(a))
  <2>1. c.blocker = "unset"
    BY <1>4, <1>7
  <2>2. QED
    BY <1>1, <1>3, <1>5, <1>7, <2>1 DEF W!_is_runnable, W!_match, W!AtWork
<1>8. QED
  BY <1>1, <1>6, <1>7 DEF W!list_tasks, c

LEMMA DecidedOnce == WorkInv => W!TriagedOnce
<1> SUFFICES ASSUME WorkInv, NEW i \in W!Known,
                    deck[i].status = "deferred", ~deck[i].parked
             PROVE  W!Cardinality({l \in Agents \X {"drawn", "expired"} :
                                      i \in W!triage_cmd(l[1])[l[2]]}) = 1
  BY DEF W!TriagedOnce
<1> DEFINE late == W!is_expired(deck[i])
           l0 == <<deck[i].agent, IF late THEN "expired" ELSE "drawn">>
           listed == {l \in Agents \X {"drawn", "expired"} :
                         i \in W!triage_cmd(l[1])[l[2]]}
<1>1. deck[i].agent \in Agents
  BY RowType DEF WorkInv, W!CardRecords
<1>2. \A a \in Agents :
         /\ i \in W!triage_cmd(a)["drawn"] <=> a = deck[i].agent /\ ~late
         /\ i \in W!triage_cmd(a)["expired"] <=> a = deck[i].agent /\ late
  BY DEF W!triage_cmd, W!candidates, W!expired
<1> HIDE DEF late
<1>3. l0 \in listed
  BY <1>1, <1>2
<1>4. \A l \in listed : l = l0
  <2> SUFFICES ASSUME NEW a \in Agents, NEW way \in {"drawn", "expired"},
                      i \in W!triage_cmd(a)[way]
               PROVE  <<a, way>> = l0
    OBVIOUS
  <2>1. QED
    BY <1>2
<1> HIDE DEF l0, listed
<1>5. listed = {l0}
  BY <1>3, <1>4
<1>6. Cardinality(listed) = 1
  BY <1>5, FS_Singleton
<1>7. QED
  BY <1>6 DEF W!Cardinality, Cardinality, listed

LEMMA RanksFollow == WorkInv => W!RanksAreOrder
<1> SUFFICES ASSUME WorkInv, ~restored,
                    NEW i \in {m \in W!Ranked(deck) : deck[m].rank > 0},
                    NEW j \in {m \in W!Ranked(deck) : deck[m].rank > 0}, i # j
             PROVE  deck[i].rank < deck[j].rank <=> W!Before(deck, i, j)
  BY DEF W!RanksAreOrder
<1>1. i \in Scored /\ j \in Scored
  BY DEF Scored, W!Ranked, W!Known
<1>2. QED
  BY <1>1 DEF WorkInv, RanksOrdered

LEMMA DragFollows == WorkInv => W!DragDecides
<1> SUFFICES ASSUME WorkInv, NEW a \in Agents, NEW p \in dragged,
                    W!_is_runnable(a, deck[p[1]]), p[2] \in W!next_task(a)
             PROVE  FALSE
  BY DEF W!DragDecides
<1>1. /\ p[1] \in W!Known /\ p[2] \in W!Known
      /\ 0 < deck[p[1]].priority /\ deck[p[1]].priority < deck[p[2]].priority
  BY DEF WorkInv, DragStands
<1>2. deck[p[1]].priority \in Nat
  BY <1>1, RowType DEF WorkInv, W!CardRecords
<1>3. W!_sort_key(p[1], p[2])
  BY <1>1, <1>2 DEF W!_sort_key
<1>4. QED
  BY <1>1, <1>3 DEF W!next_task

\* For any cards, agents, deadlines and scores and any sequence of the verbs:
\* what is held against an agent is in its lists, a backlog card comes up
\* once, ranks are the order of the axes and the last drag decides.
THEOREM WorkStaysInOrder == SidesSpec => []WorkIsInOrder
<1>1. WorkInv => WorkIsInOrder
  BY HeldListed, DecidedOnce, RanksFollow, DragFollows DEF WorkIsInOrder, W!WorkIsInOrder
<1>2. QED
  BY WorkInitial, WorkStep, <1>1, PTL DEF SidesSpec
=============================================================================
