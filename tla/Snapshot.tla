------------------------------ MODULE Snapshot ------------------------------
(***************************************************************************)
(* `db snapshot --push`: the hourly timer, or somebody at a terminal,      *)
(* exports the store into the working tree of a git repository, compares   *)
(* the export with the live table, refuses one that lost more than half of *)
(* the cards of the last commit, commits and pushes.                       *)
(* (_cli/_db.py, _db_export.py)                                            *)
(*                                                                         *)
(* A store is its number of cards, the newest last_activity and what else  *)
(* it says; two writes within a second have one last_activity.  The users, *)
(* inboxes and threads exported beside the cards are left out.  git is     *)
(* external: one that is killed leaves index.lock, with which every later  *)
(* `add` and `commit` fails and changes nothing.                           *)
(***************************************************************************)
EXTENDS Naturals

CONSTANTS
    Runs,       \* processes that take snapshots
    Sizes,      \* numbers of cards of a store
    Full,       \* the size it starts with
    MaxWrites,  \* writes of the store explored
    MaxFaults   \* deaths and failed pushes explored

VARIABLES
    store,   \* [n, newest, version]
    tree,    \* the export in the working tree
    index,   \* what is staged
    head,    \* [n, doc]: the last commit's subject and content
    remote,  \* the content pushed last
    locked,  \* index.lock is there
    run,     \* [Runs -> [at, doc, shrink, alone]]
    faults

git == <<index, head, remote, locked>>
vars == <<store, tree, git, run, faults>>

Docs == [n : Sizes, newest : 0..MaxWrites, version : 0..MaxWrites]
First == [n |-> Full, newest |-> 0, version |-> 0]
Over == {"off", "green", "red"}
Resting == [at |-> "off", doc |-> First, shrink |-> FALSE, alone |-> TRUE]

TypeOK ==
    /\ {store, tree, index, head.doc, remote} \subseteq Docs
    /\ head.n \in Sizes /\ locked \in BOOLEAN
    /\ run \in [Runs -> [at : Over \cup {"write", "check", "guard", "add", "commit", "push"},
                         doc : Docs, shrink : BOOLEAN, alone : BOOLEAN]]
    /\ faults \in 0..MaxFaults

\* After a first snapshot.
Init ==
    /\ store = First /\ tree = First /\ index = First /\ remote = First
    /\ head = [n |-> Full, doc |-> First]
    /\ locked = FALSE
    /\ run = [r \in Runs |-> Resting]
    /\ faults = 0

-----------------------------------------------------------------------------

\* Verbs add, change and purge cards; a wrong store or a fixture wipes them.
Write ==
    /\ store.version < MaxWrites
    /\ \E n \in Sizes, s \in {store.newest, store.version + 1} :
          store' = [n |-> n, newest |-> s, version |-> store.version + 1]
    /\ UNCHANGED <<tree, git, run, faults>>

Goes(r, at) == run' = [run EXCEPT ![r].at = at]
Fault == faults < MaxFaults /\ faults' = faults + 1

\* The cards are read in one statement.  Runs that overlap are noted.
export_doc(r) ==
    LET others == {s \in Runs \ {r} : run[s].at \notin Over}
    IN  /\ run[r].at \in Over
        /\ \E shrink \in BOOLEAN :
              run' = [s \in Runs |->
                  IF s = r
                    THEN [at |-> "write", doc |-> store, shrink |-> shrink,
                          alone |-> others = {}]
                    ELSE [run[s] EXCEPT !.alone = @ /\ s \notin others]]
        /\ UNCHANGED <<store, tree, git, faults>>

export_json(r) ==
    /\ run[r].at = "write"
    /\ tree' = run[r].doc
    /\ Goes(r, "check")
    /\ UNCHANGED <<store, git, faults>>

_live_task_fingerprint == <<store.n, store.newest>>

\* A refused export stays in the working tree.
_assert_export_reflects_live_db(r) ==
    /\ run[r].at = "check"
    /\ LET fresh == _live_task_fingerprint = <<run[r].doc.n, run[r].doc.newest>>
       IN  Goes(r, IF fresh THEN "guard" ELSE "red")
    /\ UNCHANGED <<store, tree, git, faults>>

\* The export of the last run, refused or not, in place of the last commit.
CountOfTree == tree.n

_previous_snapshot_count == head.n

_SHRINK_REFUSAL(now, previous) == previous > 0 /\ 2 * now < previous

RefuseShrink(r) ==
    /\ run[r].at = "guard"
    /\ LET refused == ~run[r].shrink
                      /\ _SHRINK_REFUSAL(run[r].doc.n, _previous_snapshot_count)
       IN  Goes(r, IF refused THEN "red" ELSE "add")
    /\ UNCHANGED <<store, tree, git, faults>>

\* The exit status of `git add` is not looked at.
Add(r) ==
    /\ run[r].at = "add"
    /\ index' = IF locked THEN index ELSE tree
    /\ Goes(r, "commit")
    /\ UNCHANGED <<store, tree, head, remote, locked, faults>>

\* A commit that fails is taken for one with nothing to commit.
Commit(r) ==
    /\ run[r].at = "commit"
    /\ head' = IF locked \/ index = head.doc THEN head
               ELSE [n |-> run[r].doc.n, doc |-> index]
    /\ Goes(r, "push")
    /\ UNCHANGED <<store, tree, index, remote, locked, faults>>

Push(r) ==
    /\ run[r].at = "push"
    /\ \/ remote' = head.doc /\ Goes(r, "green") /\ UNCHANGED faults
       \/ Fault /\ Goes(r, "red") /\ UNCHANGED remote
    /\ UNCHANGED <<store, tree, index, head, locked>>

\* A run dies anywhere; in git, it leaves the lock file.
Die(r) ==
    /\ run[r].at \notin Over
    /\ Fault
    /\ \/ UNCHANGED locked
       \/ run[r].at \in {"add", "commit"} /\ locked' = TRUE
    /\ Goes(r, "off")
    /\ UNCHANGED <<store, tree, index, head, remote>>

db_snapshot_cmd(r) ==
    \/ export_doc(r) \/ export_json(r) \/ _assert_export_reflects_live_db(r)
    \/ RefuseShrink(r) \/ Add(r) \/ Commit(r) \/ Push(r)

Next == Write \/ \E r \in Runs : db_snapshot_cmd(r) \/ Die(r)

Spec == Init /\ [][Next]_vars

-----------------------------------------------------------------------------

(* No commit holds less than half of what the last one says, unless        *)
(* --allow-shrink says so, whatever earlier runs exported, staged or       *)
(* refused; two runs at once are excused, one commits what the other       *)
(* exported (db_snapshot_cmd: "A backup must not record a catastrophe").   *)
NoSilentWipe ==
    [][\A r \in Runs :
          head' # head /\ Commit(r) /\ run[r].alone /\ ~run[r].shrink
              => ~_SHRINK_REFUSAL(head'.doc.n, head.n)]_vars

Done(r) == run[r].at # "green" /\ run'[r].at = "green"

(* A run that exits green has its own export off-site, after failed runs,  *)
(* pushes and deaths; where a killed git has left its lock file, and where *)
(* two runs overlap, it may not (db_snapshot_cmd).                         *)
GreenUnlessJammed ==
    [][\A r \in Runs : Done(r) /\ run[r].alone /\ ~locked => remote' = run[r].doc]_vars

(* A backup that says it was made holds the board, and not the wreck of it. *)
BackupIsHonest == NoSilentWipe /\ GreenUnlessJammed

(* "the rail's job is the off-site copy, so a silent local-only success    *)
(* would be a lie" (--push).                                               *)
GreenIsOffSite == [][\A r \in Runs : Done(r) /\ run[r].alone => remote' = run[r].doc]_vars
=============================================================================
