-------------------------- MODULE MCCardLifecycle --------------------------
(* Small instances of CardLifecycle for TLC.                               *)
EXTENDS CardLifecycle

CONSTANTS i1, i2

\* One order of work, recorded from either end.
EitherEnd ==
    [i \in Ids |-> IF i = i1 THEN {"blocks"} ELSE {"depends_on"}]
=============================================================================
