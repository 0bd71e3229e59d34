---------------------------- MODULE SearchIndex -----------------------------
(***************************************************************************)
(* `index rebuild`: one transaction of the search index empties its tables *)
(* and fills them again from the global store and then from every lane.    *)
(* load_tasks takes a lane's path for a name: it answers with the cards of *)
(* the one database each time.  A load that fails leaves its part out.     *)
(* (_index.py, _cli/_index.py)                                             *)
(*                                                                         *)
(* A card is the stamp of its last change.  SQLite is external: the first  *)
(* DELETE takes the index's write lock, and a transaction that is not      *)
(* committed leaves nothing.  A reader sees committed rows.                *)
(***************************************************************************)
EXTENDS Naturals

CONSTANTS
    Ids,
    Rebuilders,  \* processes that run `index rebuild`
    Nobody,      \* the write lock is free
    Lanes,       \* number of lane files
    MaxChanges,  \* changes of the store explored
    MaxFaults    \* unreadable stores and deaths explored

VARIABLES
    store,    \* [Ids -> stamp; 0 for a card that is not there]
    clock,    \* the last stamp
    purged,   \* history: the cards that were ever removed
    index,    \* [Ids -> stamp]: the committed rows
    writer,   \* who has the write lock
    rebuild,  \* [Rebuilders -> [at, rows, left, failed]]
    faults

vars == <<store, clock, purged, index, writer, rebuild, faults>>

NoRows == [i \in Ids |-> 0]
Rows == [Ids -> 0..MaxChanges]
Resting == [at |-> "idle", rows |-> NoRows, left |-> 0, failed |-> FALSE]

TypeOK ==
    /\ store \in Rows /\ index \in Rows /\ clock \in 0..MaxChanges
    /\ purged \subseteq Ids
    /\ writer \in Rebuilders \cup {Nobody}
    /\ rebuild \in [Rebuilders -> [at : {"idle", "global", "lanes"}, rows : Rows,
                                   left : 0..Lanes, failed : BOOLEAN]]
    /\ faults \in 0..MaxFaults

Init ==
    /\ store = NoRows /\ clock = 0 /\ purged = {}
    /\ index = NoRows /\ writer = Nobody
    /\ rebuild = [r \in Rebuilders |-> Resting]
    /\ faults = 0

-----------------------------------------------------------------------------

Fault == faults < MaxFaults /\ faults' = faults + 1

Change(i) ==
    /\ clock < MaxChanges
    /\ clock' = clock + 1
    /\ \/ store' = [store EXCEPT ![i] = clock + 1] /\ UNCHANGED purged
       \/ /\ store[i] > 0
          /\ store' = [store EXCEPT ![i] = 0] /\ purged' = purged \cup {i}
    /\ UNCHANGED <<index, writer, rebuild, faults>>

Begin(r) == rebuild' = [rebuild EXCEPT ![r] = [Resting EXCEPT !.at = "global", !.left = Lanes]]

\* The tables are emptied one commit at a time: nobody has to wait.
DeleteAndGoOn(r) ==
    /\ rebuild[r].at = "idle"
    /\ Begin(r)
    /\ UNCHANGED <<store, clock, purged, index, writer, faults>>

\* init_schema has committed before.
Delete(r) ==
    /\ rebuild[r].at = "idle" /\ writer = Nobody
    /\ writer' = r
    /\ Begin(r)
    /\ UNCHANGED <<store, clock, purged, index, faults>>

\* INSERT OR REPLACE of every card that was loaded.
_insert_task(r) == [i \in Ids |-> IF store[i] > 0 THEN store[i] ELSE rebuild[r].rows[i]]

\* An identity file that does not exist counts as a store without cards.
LoadGlobal(r) ==
    /\ rebuild[r].at = "global"
    /\ \/ /\ rebuild' = [rebuild EXCEPT ![r].at = "lanes", ![r].rows = _insert_task(r)]
          /\ UNCHANGED faults
       \/ Fault /\ rebuild' = [rebuild EXCEPT ![r].at = "lanes", ![r].failed = TRUE]
    /\ UNCHANGED <<store, clock, purged, index, writer>>

LoadLane(r) ==
    /\ rebuild[r].at = "lanes" /\ rebuild[r].left > 0
    /\ \/ /\ rebuild' = [rebuild EXCEPT ![r].left = @ - 1, ![r].rows = _insert_task(r)]
          /\ UNCHANGED faults
       \/ /\ Fault
          /\ rebuild' = [rebuild EXCEPT ![r].left = @ - 1, ![r].failed = TRUE]
    /\ UNCHANGED <<store, clock, purged, index, writer>>

\* Nothing that failed keeps the rebuild from committing.
Commit(r) ==
    /\ rebuild[r].at = "lanes" /\ rebuild[r].left = 0
    /\ index' = rebuild[r].rows
    /\ writer' = Nobody
    /\ rebuild' = [rebuild EXCEPT ![r] = Resting]
    /\ UNCHANGED <<store, clock, purged, faults>>

Die(r) ==
    /\ rebuild[r].at # "idle"
    /\ Fault
    /\ writer' = Nobody
    /\ rebuild' = [rebuild EXCEPT ![r] = Resting]
    /\ UNCHANGED <<store, clock, purged, index>>

rebuild_index(r) == Delete(r) \/ LoadGlobal(r) \/ LoadLane(r) \/ Commit(r)

Next ==
    \/ \E i \in Ids : Change(i)
    \/ \E r \in Rebuilders : rebuild_index(r) \/ Die(r)

Spec == Init /\ [][Next]_vars

-----------------------------------------------------------------------------

(* What a query answers never goes back: no rebuild puts an older row in   *)
(* place of a newer one or drops a card the store still has, except one    *)
(* that could not read the store (rebuild_index; query_tasks).             *)
IndexGoesForward ==
    [][\A i \in Ids : index'[i] < index[i] =>
          \E r \in Rebuilders :
              /\ Commit(r)
              /\ rebuild[r].failed \/ (index'[i] = 0 /\ i \in purged)]_vars

(* "A partial failure leaves the DB on the PRIOR (already-known-good)      *)
(* snapshot" (rebuild_index): it takes away no card the store still has.   *)
PriorSnapshotStays ==
    [][\A r \in Rebuilders, i \in Ids :
          Commit(r) /\ rebuild[r].failed /\ store[i] > 0 => index'[i] >= index[i]]_vars
=============================================================================
