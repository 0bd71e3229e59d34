------------------------------ MODULE MCNudges ------------------------------
(***************************************************************************)
(* What gets into an agent's terminal: the nudges of one owner of two      *)
(* cards, by notifyd and by the cron; and the channel that pushes an inbox *)
(* with a digest and a comment in it.  They share no state: each is        *)
(* explored with the other at rest in its initial state.                   *)
(***************************************************************************)
EXTENDS Nudges, TLC

CONSTANTS o1, c1, c2, Senders, Servers, digest, comment, NoJob, NoRec
VARIABLES side, backend, registered, rec, state, job, reading, at, keys, toPush,
          count, changed, handed, pushes, missed, failures

State(status, blocker) ==
    [status |-> status, blocker |-> blocker, parked |-> "no",
     owner |-> o1, idle |-> 0]

MCStatesOf ==
    (c1 :> {State("in_progress", "unset"), State("blocked", "external")})
    @@ (c2 :> {State("in_progress", "unset")})

I == INSTANCE Inbox WITH
        Backends <- {"sqlite"}, Dispatchers <- Senders, Sessions <- Servers,
        Readers <- {}, Events <- {digest, comment}, Digests <- {digest},
        KindOf <- [e \in {digest, comment} |-> e],
        MaxId <- 3, Cap <- 1, MaxFaults <- 2,
        pc <- at, todo <- toPush, faults <- failures

inboxVars == <<backend, registered, rec, state, job, reading, at, keys, toPush,
               count, changed, handed, pushes, missed, failures>>
allVars == <<side, vars, inboxVars>>

Nudged == side = "nudges" /\ UNCHANGED <<side, inboxVars>>
Pushed == side = "channel" /\ UNCHANGED <<side, vars>>

TerminalInit ==
    /\ side \in {"nudges", "channel"} /\ Init /\ I!Init
    /\ side = "channel" => \A x \in Cards : board[x].status = "in_progress"

TerminalNext ==
    \/ Nudged /\ Next
    \/ Pushed /\ I!Next

(* The fairness of the two specifications. *)
TerminalSpec ==
    /\ TerminalInit /\ [][TerminalNext]_allVars
    /\ \A d \in Daemons : WF_allVars(Nudged /\ StartSweep(d))
    /\ \A x \in Procs : WF_allVars(Nudged /\ Finish(x))
    /\ \A t \in Topics : WF_allVars(Nudged /\ WaitFloor(t))
    /\ \A s \in Servers : WF_allVars(Pushed /\ I!Drain(s))

(* What is said of the channel is said in Inbox. *)
Delivered == side = "channel" => I!Delivered
=============================================================================
