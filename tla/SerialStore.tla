---------------------------- MODULE SerialStore ----------------------------
(***************************************************************************)
(* What the card store promises its writers: one table of cards, changed   *)
(* by one write at a time, each applied to the cards as they are.          *)
(*                                                                         *)
(* A card's content is the set of marks written on it (a mark stands for   *)
(* one field change, comment or stamp of one verb), so a write that is     *)
(* lost shows as a missing mark.  `acked' is what callers were told is     *)
(* stored: the <<id, mark>> pairs of every write that returned.            *)
(***************************************************************************)
CONSTANTS
    Ids,      \* card ids
    Marks,    \* one per write
    NoCard    \* an id that has no row

VARIABLES rows, acked

svars == <<rows, acked>>

Init ==
    /\ rows \in [Ids -> {NoCard} \cup SUBSET Marks]
    /\ acked = {}

\* add_task, restore_task of an id that is gone
Add(i, m) ==
    /\ rows[i] = NoCard
    /\ rows' = [rows EXCEPT ![i] = {m}]
    /\ acked' = acked \cup {<<i, m>>}

\* every verb that changes a card in place
Edit(i, m) ==
    /\ rows[i] # NoCard
    /\ rows' = [rows EXCEPT ![i] = @ \cup {m}]
    /\ acked' = acked \cup {<<i, m>>}

\* the one write that names a row it removes
Purge(i) ==
    /\ rows[i] # NoCard
    /\ rows' = [rows EXCEPT ![i] = NoCard]
    /\ acked' = {p \in acked : p[1] # i}

Next ==
    \E i \in Ids :
        \/ Purge(i)
        \/ \E m \in Marks : Add(i, m) \/ Edit(i, m)

Spec == Init /\ [][Next]_svars
=============================================================================
