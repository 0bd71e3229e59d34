----------------------------- MODULE CardSides -----------------------------
(***************************************************************************)
(* Three sides of a card: its life (CardLifecycle), who hears of its       *)
(* changes, and what an agent is given to work on.  The three              *)
(* specifications tell of different fields; each is explored with the      *)
(* others at rest.                                                         *)
(***************************************************************************)
EXTENDS CardLifecycle, Integers, TLC

\* Of CardPeople.
CONSTANTS Shared, People, Callers, Nobody, Writers, Initial, Waits, Calls,
          Mutes, Watches, MaxWrites, MaxFaults
\* Of WorkLoop.
CONSTANTS Tasks, Agents, Habits, Entries, Scores, Horizon, MaxIdle, StaleActiveIdle

VARIABLES side
VARIABLES roster, tokens, proc, writes, faults, freed, aware, past, lost
VARIABLES habit, deck, half, undrag, restored, dragged

Hear == INSTANCE CardPeople WITH Ids <- Shared, board <- roster
W == INSTANCE WorkLoop WITH Cards <- Tasks, board <- deck, undo <- undrag

ASSUME HearAssumption == Hear!PeopleAssumption
ASSUME WorkLoopAssumption == W!WorkAssumption

hearVars == <<roster, tokens, proc, writes, faults, freed, aware, past, lost>>
workVars == <<habit, deck, half, undrag, restored, dragged>>
sideVars == <<side, vars, hearVars, workVars>>

Lives == side = "life" /\ UNCHANGED <<side, hearVars, workVars>>
Tells == side = "people" /\ UNCHANGED <<side, vars, workVars>>
Works == side = "work" /\ UNCHANGED <<side, vars, hearVars>>

SidesInit == side \in {"life", "people", "work"} /\ Init /\ Hear!Init /\ W!Init

SidesNext ==
    \/ Lives /\ Next
    \/ Tells /\ Hear!Next
    \/ Works /\ W!Next

(* The fairness of WorkLoop; the others have none. *)
SidesSpec == SidesInit /\ [][SidesNext]_sideVars /\ WF_sideVars(Works /\ W!Elapse)

(* What they say is said in CardPeople and WorkLoop. *)
RightPeopleHear == Hear!RightPeopleHear
WorkIsInOrder == W!WorkIsInOrder
NothingSlips == W!KeptIsDecided /\ (side = "work" => W!DeadlineBites)

-----------------------------------------------------------------------------
(* A small instance: one card's life; two cards that may hold back a       *)
(* third, whose owner is another; two cards and two agents, one or two     *)
(* facets at a time.                                                       *)

CONSTANTS c1, c2, c3, ann, ben, cat

NoEdges == [i \in Ids |-> {}]

Card(owner, deps, blocks) ==
    [status |-> "in_progress", blocker |-> FALSE, deps |-> deps, blocks |-> blocks,
     agent |-> owner, created_by |-> ann, collaborators |-> {}, subscribers |-> {}]
TwoBeforeOne == {[i \in Shared |-> CASE i = c1 -> Card(ann, {}, {})
                                     [] i = c2 -> Card(ann, {}, {c3})
                                     [] OTHER -> Card(ben, {c1}, {})]}
Edges == {<<"depends_on", c3, c1>>}
Muted == {<<cat, "commented">>}
Watched == {<<cat, "status_changed">>}
CallsMade == {<<"complete_task", c1>>, <<"resolve_task", c2>>, <<"update_task", c1>>,
              <<"reopen_task", c1>>, <<"reassign_task", c3>>, <<"set_subscriber", c3>>,
              <<"set_collaborator", c3>>, <<"comment_task", c3>>}

OneToo(fs, gs) == [i \in {1, 2} |-> IF i = 1 THEN fs \cup gs ELSE fs]
OneUses(fs) == [i \in {1, 2} |-> IF i = 1 THEN fs ELSE {}]
Facets ==
    {OneToo({"axes"}, {"deletes"}), OneUses({"ages", "agents", "waits"}),
     OneUses({"ages", "dates"}), OneToo({"drags"}, {"deletes"}),
     OneUses({"ages", "parks", "web", "deletes", "waits"})}

Deadline(timed, period, left) == [timed |-> timed, period |-> period, left |-> left]
\* noon and midnight, today and tomorrow, plain and daily
Deadlines ==
    {Deadline(TRUE, 0, n) : n \in 0 .. 1} \cup {Deadline(FALSE, 0, n) : n \in 0 .. 1}
        \cup {Deadline(TRUE, 2, n) : n \in 0 .. 1}
\* important but not urgent, urgent but not important
TwoScores == {<<1, 3>>, <<5, 2>>}

SmallInit == SidesInit /\ (side # "work" => habit = OneUses({"ages", "dates"}))
SmallSpec == SmallInit /\ [][SidesNext]_sideVars /\ WF_sideVars(Works /\ W!Elapse)
=============================================================================
