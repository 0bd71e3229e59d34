------------------------------ MODULE MCDaemon ------------------------------
(***************************************************************************)
(* Two sides of notifyd.  Its delivery passes, one daemon and one-shot     *)
(* passes beside it, each item with a recipient of its own; and its life   *)
(* as a process.  They share no state: each is explored with the other at  *)
(* rest in its initial state.                                              *)
(***************************************************************************)
EXTENDS Delivery

CONSTANTS Starts, MaxKills, None, Exited
VARIABLES side, step, stop, path, fd, held, text, fresh, kills

MCUserOf == [i \in Items |-> i]

P == INSTANCE Pidfile WITH
        Daemons <- Starts, MaxFaults <- MaxKills,
        pc <- step, lock <- held, faults <- kills

ASSUME P!PidfileAssumption

pidVars == <<step, stop, path, fd, held, text, fresh, kills>>
daemonVars == <<side, vars, pidVars>>

Delivers == side = "delivery" /\ UNCHANGED <<side, pidVars>>
Lives == side = "process" /\ UNCHANGED <<side, vars>>

DaemonInit ==
    side \in {"delivery", "process"} /\ Init /\ P!Init

DaemonNext ==
    \/ Delivers /\ Next
    \/ Lives /\ P!Next

(* The fairness of the two specifications. *)
DaemonSpec ==
    /\ DaemonInit /\ [][DaemonNext]_daemonVars
    /\ \A d \in Daemons : WF_daemonVars(Delivers /\ Daemon(d))
    /\ \A i \in Items : WF_daemonVars(Delivers /\ Elapse(i))
    /\ \A d \in Starts : WF_daemonVars(Lives /\ P!Daemon(d))

(* What is said of the process is said in Pidfile: a daemon that runs is     *)
(* never reported dead, and one gets to run however the last one ended.      *)
DaemonIsSeen ==
    /\ [][P!HealthNeverFalselyDead']_daemonVars
    /\ side = "process" => P!RestartNeverBlocked
=============================================================================
