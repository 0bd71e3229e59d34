------------------------------ MODULE MCInbox ------------------------------
(* Two digests of one kind and a comment, for TLC.                         *)
EXTENDS Inbox, TLC

CONSTANTS d1, d2, c1, p1, p2, s1, s2, r1

MCKindOf == [e \in Events |-> IF e = c1 THEN "comment" ELSE "digest"]

Alike == Permutations(Dispatchers) \cup Permutations(Events \ {c1})
=============================================================================
