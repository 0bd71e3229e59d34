---------------------------- MODULE MCReminders -----------------------------
(***************************************************************************)
(* What chases an agent.  The sweep: one owner, an urgent card that is     *)
(* worked on or blocked, and a card that waits in the backlog.  The turns  *)
(* pushed to two agents, by clicks in the board or by the cron entry: the  *)
(* second has two cards.  They share no state: each is explored with the   *)
(* others at rest.                                                         *)
(***************************************************************************)
EXTENDS Reminders, TLC
CONSTANTS o1, c1, c2, k1, k2, t1, t2, PushFaults, Cooldown, Timeout, NoUrl, NoPost

VARIABLES side, address, post, lastSent, nudged, card, tick, heard, pushFaults

State(status, blocker) ==
    [status |-> status, blocker |-> blocker, parked |-> "no",
     owner |-> o1, idle |-> 0]

MCStatesOf ==
    (c1 :> {State("in_progress", "unset"), State("blocked", "none")})
    @@ (c2 :> {State("deferred", "unset"), State("done", "unset")})

At(url, port, map, env) == [turn_url |-> url, a2a_port |-> port, map |-> map, env |-> env]
Unknown == At(NoUrl, NoUrl, NoUrl, NoUrl)

\* The first agent has a malformed URL, a live one, none, or only a dead port;
\* the registry shadows the map, and the map the environment.
MCConfigs ==
    {1 :> a @@ 2 :> At(NoUrl, NoUrl, "live", "dead") :
        a \in {At("malformed", "live", NoUrl, NoUrl), At("live", "dead", "dead", NoUrl)}}
    \cup {1 :> a @@ 2 :> At(NoUrl, "live", NoUrl, "malformed") :
        a \in {Unknown, At(NoUrl, "dead", "live", NoUrl)}}

P == INSTANCE TurnPush WITH
        Agents <- 1 .. 2, Cards <- {1, 2, 3}, Lane <- <<1, 2, 2>>,
        Clicks <- {k1, k2}, Ticks <- {t1, t2}, Configs <- MCConfigs,
        MaxFaults <- PushFaults, last <- lastSent, faults <- pushFaults

ASSUME P!PushAssumption

pushVars == <<address, post, lastSent, nudged, card, tick, heard, pushFaults>>
chaseVars == <<side, vars, pushVars>>

Sweeps == side = "sweep" /\ UNCHANGED <<side, pushVars>>
Clicked == side = "button" /\ UNCHANGED <<side, vars>>
Crons == side = "cron" /\ UNCHANGED <<side, vars>>

ChaseInit ==
    /\ Init /\ P!Init
    /\ \/ side = "sweep" /\ address[1] = Unknown
       \/ side \in {"button", "cron"} /\ board = CHOOSE b \in FreshBoards : TRUE

ChaseNext ==
    \/ Sweeps /\ Next
    \/ Clicked /\ P!Button
    \/ Crons /\ P!Cron

(* The fairness of the two specifications. *)
ChaseSpec ==
    /\ ChaseInit /\ [][ChaseNext]_chaseVars
    /\ WF_chaseVars(Sweeps /\ Sweep)
    /\ \A o \in Owners : SF_chaseVars(Sweeps /\ Wait(o))
    /\ WF_chaseVars(Crons /\ \E t \in {t1, t2} : P!stats_cmd(t))
    /\ \A t \in {t1, t2} : WF_chaseVars(Crons /\ P!Entry(t))

(* What is said of the pushes is said in TurnPush. *)
PushesKeepPace == P!PushesKeepPace
=============================================================================
