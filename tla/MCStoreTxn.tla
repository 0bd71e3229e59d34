----------------------------- MODULE MCStoreTxn -----------------------------
(***************************************************************************)
(* Small instances of StoreTxn for TLC: a database that is used as Paths   *)
(* and Kinds say, and one that is used in every way there is, with and     *)
(* without the generation, adding, editing, dropping and purging.  Each is *)
(* explored with the other at rest.                                        *)
(***************************************************************************)
EXTENDS StoreTxn, TLC

CONSTANTS c1, c2, l1, Databases
VARIABLES database, table, memory, flock, writer, unused, done

\* Every process was given the same store path.
OneLock == [c \in Clients |-> l1]

Open == INSTANCE StoreTxn WITH
    Paths <- AllPaths, Kinds <- AllKinds, rows <- table, hashes <- memory,
    holder <- flock, proc <- writer, fresh <- unused, acked <- done

anyVars == <<table, memory, flock, writer, unused, done>>
storeVars == <<database, vars, anyVars>>

Given == database = "given" /\ UNCHANGED <<database, anyVars>>
Other == database = "any" /\ UNCHANGED <<database, vars>>

StoreInit ==
    /\ database \in Databases
    /\ Init /\ Open!Init
    /\ database = "given" => table = EmptyDoc /\ memory = Unhashed
    /\ database = "any" => rows = EmptyDoc /\ hashes = Unhashed

StoreNext ==
    \/ Given /\ Next
    \/ Other /\ Open!Next

StoreSpec == StoreInit /\ [][StoreNext]_storeVars

(* NeverDisappears, of the other database. *)
RowsStay == Open!NeverDisappears
=============================================================================
