------------------------------ MODULE StoreTxn ------------------------------
(***************************************************************************)
(* The write path of the card store: how concurrent processes (CLI verbs,  *)
(* MCP tools, the board's POST handlers, maintenance scripts) change the   *)
(* one SQLite database.                                                    *)
(*                                                                         *)
(* A store verb takes the flock beside the store path it was given,        *)
(* exports the whole document, changes it in memory and hands all of it to *)
(* _save_doc_unlocked: validation, the shrink guard (on a connection of    *)
(* its own), then the incremental mirror, which reads the remembered       *)
(* hashes and in one transaction writes the cards whose hash differs.      *)
(* A script that calls load_tasks ... save_tasks holds the lock for the    *)
(* write only; with expected_generation the write is refused when the      *)
(* document changed meanwhile, without it nothing ties it to its read.     *)
(*                                                                         *)
(* SQLite's transaction is one step.  What happens between two such points *)
(* is private to the process, and a process may die at any of them: the    *)
(* kernel drops its flock and its memory is gone.                          *)
(*                                                                         *)
(* Abstractions: a hash is the content it is the hash of, and so is a      *)
(* generation; only cards are kept of the document; every mark is written  *)
(* once (a write carries its own timestamp); the database file exists (a   *)
(* missing one makes every read raise before anything changes).            *)
(***************************************************************************)

CONSTANTS
    Clients,     \* processes that write the store
    LockFiles,   \* the `.<name>.lock' files beside the store paths in use
    LockOf,      \* the lock file of the store path each process was given
    Ids, Marks, NoCard,
    Nobody,      \* a free lock file
    NoGen,       \* save_tasks without expected_generation
    Unhashed,    \* the hash table is empty
    NoOp,        \* the process is between writes
    Paths,       \* which ways to the store are used (see AllPaths)
    Kinds        \* which changes are made (see AllKinds)

\* "verb": lock, read, write (the _store verbs, edit_tasks, board handlers)
\* "guarded", "raw": load_tasks, then save_tasks with or without generation
AllPaths == {"verb", "guarded", "raw"}

\* "drop": the document handed in lacks a card it was read with
\* "purge": it lacks the card and names it in deleted_ids (board delete)
AllKinds == {"add", "edit", "drop", "purge"}

Doc == [Ids -> {NoCard} \cup SUBSET Marks]

ASSUME LockAssumption == LockOf \in [Clients -> LockFiles]
ASSUME SentinelAssumption ==
    /\ \A s \in SUBSET Marks : s # NoCard
    /\ \A c \in Clients : c # Nobody
    /\ \A d \in Doc : d # NoGen /\ d # Unhashed
ASSUME UsageAssumption == Paths \subseteq AllPaths /\ Kinds \subseteq AllKinds

VARIABLES
    rows,     \* the tasks table: id -> content
    hashes,   \* mirror_hashes: id -> hash of what the mirror last wrote
    holder,   \* lock file -> process
    proc,     \* each process: where it is in its write, and its memory
    fresh,    \* marks not used yet
    acked     \* <<id, mark>> of the writes that returned success

vars == <<rows, hashes, holder, proc, fresh, acked>>

Phases == {"idle", "tokened", "loaded", "locked", "read", "guarded", "diffed"}
Critical == {"locked", "read", "guarded", "diffed"}

Ops == [kind : AllKinds, id : Ids, mark : Marks]

EmptyDoc == [i \in Ids |-> NoCard]
Present(d) == {i \in Ids : d[i] # NoCard}

\* doc: the document in memory; gen: the generation it will pass;
\* prior: the hashes its mirror read
Procs == [at : Phases, op : {NoOp} \cup Ops, doc : Doc,
          gen : {NoGen} \cup Doc, prior : {Unhashed} \cup Doc]

Idle == [at |-> "idle", op |-> NoOp, doc |-> EmptyDoc,
         gen |-> NoGen, prior |-> Unhashed]

TypeOK ==
    /\ rows \in Doc
    /\ hashes \in {Unhashed} \cup Doc
    /\ holder \in [LockFiles -> {Nobody} \cup Clients]
    /\ proc \in [Clients -> Procs]
    /\ fresh \subseteq Marks
    /\ acked \subseteq Ids \X Marks

\* A database filled by anything before the mirror kept hashes, or by it.
Init ==
    /\ rows \in [Ids -> {{}, NoCard}]
    /\ hashes \in {rows, Unhashed}
    /\ holder = [f \in LockFiles |-> Nobody]
    /\ proc = [c \in Clients |-> Idle]
    /\ fresh = Marks
    /\ acked = {}

-----------------------------------------------------------------------------
(* Pieces of the path that change nothing by themselves.                   *)

\* The change a write makes to the document it holds.
Applied(o, d) ==
    [d EXCEPT ![o.id] = IF o.kind = "add" THEN {o.mark}
                        ELSE IF o.kind = "edit" THEN @ \cup {o.mark}
                        ELSE NoCard]

\* TaskNotFoundError, or the validator's duplicate id, otherwise.
Applicable(o, d) == (o.kind = "add") <=> (d[o.id] = NoCard)

\* The ids the write names as removed on purpose.
DeletedIds(o) == IF o.kind = "purge" THEN {o.id} ELSE {}

\* The ids the table has now, from a connection of the guard's own.
CurrentStoredIds == Present(rows)

\* Mutant of ShrinkRefused: the guard is off.
ShrinkAllowed(d, deleted) == FALSE

\* StoreShrinkRefusedError: the document lacks a row the table has.
ShrinkRefused(d, deleted) == CurrentStoredIds \ (Present(d) \cup deleted) # {}

\* The cards the mirror writes: their hash is not the one it remembers.
Changed(d, p) == {i \in Present(d) : p[i] # d[i]}

\* First run, nothing remembered: clear the tables, insert the document.
Rebuild(d) ==
    /\ rows' = d
    /\ hashes' = [i \in Ids |->
                    IF i \in Present(d) \/ hashes = Unhashed THEN d[i]
                    ELSE hashes[i]]

\* Otherwise write what changed and drop only what is named.
Reconcile(d, p, deleted) ==
    LET now(old) == [i \in Ids |->
                        IF i \in deleted THEN NoCard
                        ELSE IF i \in Changed(d, p) THEN d[i] ELSE old[i]]
    IN  rows' = now(rows) /\ hashes' = now(hashes)

\* Mutant of StaleGeneration: the token is not compared.
GenerationIgnored(g) == FALSE

StaleGeneration(g) == g # NoGen /\ g # rows

\* Mutant of Free: the flock is shared, not exclusive.
FreeAlways(c) == TRUE

Free(c) == holder[LockOf[c]] = Nobody
Acquire(c) == holder' = [holder EXCEPT ![LockOf[c]] = c]
Release(c) == holder' = [holder EXCEPT ![LockOf[c]] = Nobody]
Becomes(c, p) == proc' = [proc EXCEPT ![c] = p]
DbUnchanged == UNCHANGED <<rows, hashes, acked>>

-----------------------------------------------------------------------------

\* Process c, idle, takes up a new change by way of path.  Only a locked
\* verb names ids it removes.
Begins(c, path, o) ==
    /\ proc[c].at = "idle"
    /\ path \in Paths
    /\ o.kind \in Kinds
    /\ o.kind = "purge" => path = "verb"
    /\ o.mark \in fresh
    /\ fresh' = fresh \ {o.mark}

\* A verb enters _store_lock: blocks until nobody holds its lock file.
StoreLock(c) ==
    \E o \in Ops :
        /\ Begins(c, "verb", o)
        /\ Free(c)
        /\ Acquire(c)
        /\ Becomes(c, [Idle EXCEPT !.at = "locked", !.op = o])
        /\ DbUnchanged

\* The export and its row count, in one WAL snapshot.
ReadDoc(c) ==
    /\ proc[c].at = "locked"
    /\ Becomes(c, [proc[c] EXCEPT !.at = "read", !.doc = rows])
    /\ DbUnchanged
    /\ UNCHANGED <<holder, fresh>>

\* A script takes store_generation before it loads.
StoreGeneration(c) ==
    \E o \in Ops :
        /\ Begins(c, "guarded", o)
        /\ Becomes(c, [Idle EXCEPT !.at = "tokened", !.op = o, !.gen = rows])
        /\ DbUnchanged
        /\ UNCHANGED holder

\* load_tasks of a script that holds a token ...
LoadGuarded(c) ==
    /\ proc[c].at = "tokened"
    /\ Becomes(c, [proc[c] EXCEPT !.at = "loaded", !.doc = rows])
    /\ DbUnchanged
    /\ UNCHANGED <<holder, fresh>>

\* ... and of one that does not: next --auto-claim.
LoadRaw(c) ==
    \E o \in Ops :
        /\ Begins(c, "raw", o)
        /\ Becomes(c, [Idle EXCEPT !.at = "loaded", !.op = o, !.doc = rows])
        /\ DbUnchanged
        /\ UNCHANGED holder

\* save_tasks: take the lock, refuse a write whose generation is stale.
SaveTasks(c) ==
    /\ proc[c].at = "loaded"
    /\ Free(c)
    /\ IF StaleGeneration(proc[c].gen)
       THEN Becomes(c, Idle) /\ UNCHANGED holder
       ELSE Becomes(c, [proc[c] EXCEPT !.at = "read"]) /\ Acquire(c)
    /\ DbUnchanged
    /\ UNCHANGED fresh

\* The change, validation and the shrink guard; a refusal leaves the lock.
SaveDoc(c) ==
    /\ proc[c].at = "read"
    /\ LET o == proc[c].op
           d == Applied(o, proc[c].doc)
       IN  IF Applicable(o, proc[c].doc) /\ ~ShrinkRefused(d, DeletedIds(o))
           THEN /\ Becomes(c, [proc[c] EXCEPT !.at = "guarded", !.doc = d])
                /\ UNCHANGED holder
           ELSE Becomes(c, Idle) /\ Release(c)
    /\ DbUnchanged
    /\ UNCHANGED fresh

\* The mirror reads the hashes before its transaction begins.
ExistingHashes(c) ==
    /\ proc[c].at = "guarded"
    /\ Becomes(c, [proc[c] EXCEPT !.at = "diffed", !.prior = hashes])
    /\ DbUnchanged
    /\ UNCHANGED <<holder, fresh>>

\* The mirror's transaction commits; the verb leaves the lock and returns.
MirrorDoc(c) ==
    /\ proc[c].at = "diffed"
    /\ LET o == proc[c].op
           d == proc[c].doc
           p == proc[c].prior
       IN  /\ IF p = Unhashed THEN Rebuild(d)
              ELSE Reconcile(d, p, DeletedIds(o))
           /\ acked' = IF o.kind \in {"add", "edit"}
                       THEN acked \cup {<<o.id, o.mark>>}
                       ELSE {a \in acked : a[1] \notin DeletedIds(o)}
    /\ Becomes(c, Idle)
    /\ Release(c)
    /\ UNCHANGED fresh

\* The process dies: flock and memory go, an open transaction rolls back.
Crash(c) ==
    /\ proc[c].at # "idle"
    /\ Becomes(c, Idle)
    /\ IF proc[c].at \in Critical THEN Release(c) ELSE UNCHANGED holder
    /\ DbUnchanged
    /\ UNCHANGED fresh

InLock(c) == ReadDoc(c) \/ SaveDoc(c) \/ ExistingHashes(c) \/ MirrorDoc(c)

Next ==
    \E c \in Clients :
        \/ StoreLock(c) \/ StoreGeneration(c) \/ LoadGuarded(c) \/ LoadRaw(c)
        \/ SaveTasks(c) \/ InLock(c) \/ Crash(c)

Spec == Init /\ [][Next]_vars

-----------------------------------------------------------------------------
(* Properties.                                                             *)

\* No lost update: what a write that returned put on a card is still on it,
\* until the card is purged.  Behind it: the lock spans a verb's read and
\* its write, a stale generation is refused, and the hashes the mirror diffs
\* against describe the rows.
AckedDurable == \A a \in acked : rows[a[1]] # NoCard /\ a[2] \in rows[a[1]]

\* A step in which a row goes is the commit of a write that names it.
RemovesOnlyNamed ==
    \A i \in Ids :
        rows[i] # NoCard /\ rows'[i] = NoCard =>
            \E c \in Clients : /\ proc[c].at = "diffed"
                               /\ proc'[c].at = "idle"
                               /\ proc[c].op.kind = "purge"
                               /\ proc[c].op.id = i

\* A written card never disappears (_assert_no_shrink's ruling): a row
\* leaves the table only in the commit of a write that names it.
NeverDisappears == [][RemovesOnlyNamed]_vars

\* The whole path, crashes and refusals included, is invisible: the table
\* and the acknowledgements change as if each write ran alone.
Serial == INSTANCE SerialStore WITH rows <- rows, acked <- acked
SerialSpec == Serial!Spec

-----------------------------------------------------------------------------
(* Why they hold: what is true at every step when all processes lock the   *)
(* same file.  These are the invariants StoreTxnProofs shows inductive.    *)

OneLockFile == \A c, d \in Clients : LockOf[c] = LockOf[d]

\* Whoever is past _store_lock holds the file, so one process at most is.
LockInv ==
    \A c \in Clients : proc[c].at \in Critical => holder[LockOf[c]] = c

OpInv ==
    \A c \in Clients :
        proc[c].at # "idle" => proc[c].op \in Ops /\ proc[c].op.kind \in Kinds

\* The mirror's memory is empty or it is the table.
HashInv == hashes = Unhashed \/ hashes = rows

\* What the shrink guard found is still so when the mirror commits.
GuardInv ==
    \A c \in Clients :
        proc[c].at \in {"guarded", "diffed"} =>
            ~ShrinkRefused(proc[c].doc, DeletedIds(proc[c].op))

\* The hash table never empties, so hashes once read still exist.
PriorInv ==
    \A c \in Clients : proc[c].prior # Unhashed => hashes # Unhashed

\* Enough for NeverDisappears, whatever the callers do: the lock keeps the
\* guard's verdict true until the commit that relies on it.
KeepInv == TypeOK /\ OpInv /\ PriorInv /\ LockInv /\ GuardInv

\* d's cards are in e, with at least their marks.
Below(d, e) ==
    \A i \in Ids : d[i] # NoCard => e[i] # NoCard /\ d[i] \subseteq e[i]

\* A script's document lies between the one its token names and the table.
Between(p) ==
    /\ p.at = "tokened" => p.gen # NoGen /\ Below(p.gen, rows)
    /\ p.at = "loaded" =>
          p.gen # NoGen /\ Below(p.gen, p.doc) /\ Below(p.doc, rows)
    /\ p.at \in {"tokened", "loaded"} => "guarded" \in Paths
TokenInv == \A c \in Clients : Between(proc[c])

\* Inside the lock the document is the table, then the table changed as the
\* write asks, and the hashes the mirror diffs against are the current ones.
UpToDate(p) ==
    /\ p.at = "read" => p.doc = rows
    /\ p.at \in {"guarded", "diffed"} =>
          p.doc = Applied(p.op, rows) /\ Applicable(p.op, rows) /\ p.op.kind # "drop"
    /\ p.at = "diffed" => p.prior = hashes
FreshInv == \A c \in Clients : UpToDate(proc[c])

\* No write that is about to commit works from an outdated document: the
\* lock, the generation and the mirror's hashes together make it so.
SerialInv ==
    /\ TypeOK /\ OpInv /\ PriorInv /\ LockInv /\ HashInv
    /\ TokenInv /\ FreshInv /\ AckedDurable
=============================================================================
