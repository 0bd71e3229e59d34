------------------------------ MODULE MCLinks -------------------------------
(***************************************************************************)
(* Links with two cards.                                                   *)
(***************************************************************************)
EXTENDS Links

CONSTANTS a, b

TwoCards == <<a, b>>

\* A part at rest starts in one state; of the boards, those where the first
\* card is linked to the first of the PRs and the second, not blocked, to
\* another or none.
SmallInit ==
    /\ LinkInit
    /\ part # "plugins" => critical = {} /\ bounded /\ \A n \in Names : priority[n] = 10
    /\ part # "prs" => \A i \in {a, b} : card[i].status = "in_progress" /\ card[i].pr = NoPr
    /\ part = "prs" => card[a].pr = (CHOOSE pr \in Prs : TRUE) /\ ~card[b].blocker /\ card[b].pr # card[a].pr
    /\ part # "ci" => \A r \in Repos : truth[r] = "pending"

SmallSpec == SmallInit /\ [][LinkNext]_linkVars /\ LinkFair
=============================================================================
