------------------------------ MODULE CiWatch -------------------------------
(***************************************************************************)
(* `watch-ci`: pollers -- cron's and a loop by hand -- that ask GitHub for *)
(* the verdict of each repository, compare it with a state file loaded at  *)
(* the start of the sweep, and save the whole file at its end if anything  *)
(* was a transition.  There is no lock, and the file is replaced through   *)
(* a temporary whose name the pollers share.                               *)
(* (_cli/_ci_watch.py, _django/handlers/fleet/gh_ci.py)                    *)
(*                                                                         *)
(* GitHub is external.  The head commit is recorded and never compared,    *)
(* and is left out; "unknown" stands with "pending".                       *)
(***************************************************************************)
EXTENDS Naturals

CONSTANTS
    Repos, Pollers,
    MaxChanges,  \* changes of verdict explored
    MaxFaults    \* failed polls and deaths explored

VARIABLES
    truth,   \* [Repos -> the verdict GitHub would give]
    file,    \* the state file: its rows, or why it does not parse
    tmp,     \* the same of the temporary, or "absent"
    poller,  \* [Pollers -> [at, state, left, dirty, inode]]
    changes, faults

vars == <<truth, file, tmp, poller, changes, faults>>

_DEFINITIVE == {"success", "failure"}
Verdicts == _DEFINITIVE \cup {"pending"}
States == [Repos -> Verdicts \cup {"new"}]
NoRows == [r \in Repos |-> "new"]
Resting == [at |-> "idle", state |-> NoRows, left |-> {}, dirty |-> FALSE, inode |-> "none"]

\* An empty or mixed-up file holds no rows, under its own domain.
Empty == [x \in {"empty"} |-> "empty"]
Torn == [x \in {"torn"} |-> "torn"]
Gone == [x \in {"gone"} |-> "gone"]

TypeOK ==
    /\ truth \in [Repos -> Verdicts]
    /\ file \in States \cup {Empty, Torn}
    /\ tmp \in States \cup {Empty, Torn, Gone}
    /\ \A p \in Pollers :
          /\ poller[p].at \in {"idle", "poll", "open", "write", "replace"}
          /\ poller[p].state \in States /\ poller[p].left \subseteq Repos
          /\ poller[p].inode \in {"none", "tmp", "file"}
    /\ changes \in 0..MaxChanges /\ faults \in 0..MaxFaults

Init ==
    /\ truth \in [Repos -> Verdicts]
    /\ file = NoRows /\ tmp = Gone
    /\ poller = [p \in Pollers |-> Resting]
    /\ changes = 0 /\ faults = 0

-----------------------------------------------------------------------------

load_state == IF file \in States THEN file ELSE NoRows

ClassifyOnce(prior, cur) ==  \* with a bug: a verdict is never revised
    CASE prior = "new" -> "first-seen"
      [] prior \in _DEFINITIVE -> "unchanged"
      [] cur = "success" -> "newly-green"
      [] cur = "failure" -> "newly-red"
      [] OTHER -> "still-pending"

classify_transition(prior, cur) ==
    CASE prior = "new" -> "first-seen"
      [] cur = "success" /\ prior # "success" -> "newly-green"
      [] cur = "failure" /\ prior # "failure" -> "newly-red"
      [] cur \notin _DEFINITIVE /\ prior \notin _DEFINITIVE -> "still-pending"
      [] OTHER -> "unchanged"

(* A sweep: load, then each repository once.                               *)
Begin(p) ==
    /\ poller[p].at = "idle"
    /\ poller' = [poller EXCEPT ![p] =
          [Resting EXCEPT !.at = "poll", !.state = load_state, !.left = Repos]]
    /\ UNCHANGED <<truth, file, tmp, changes, faults>>

fetch_repo_ci_status(p, r) ==
    /\ poller[p].at = "poll" /\ r \in poller[p].left
    /\ LET row == poller[p].state[r]
           new == classify_transition(row, truth[r]) # "unchanged"
       IN  poller' = [poller EXCEPT
              ![p].left = @ \ {r},
              ![p].state[r] = IF new THEN truth[r] ELSE row,
              ![p].dirty = @ \/ new]
    /\ UNCHANGED <<truth, file, tmp, changes, faults>>

\* FleetAdapterError: the row is left as it was.
PollFails(p, r) ==
    /\ poller[p].at = "poll" /\ r \in poller[p].left
    /\ faults < MaxFaults /\ faults' = faults + 1
    /\ poller' = [poller EXCEPT ![p].left = @ \ {r}]
    /\ UNCHANGED <<truth, file, tmp, changes>>

EndSweep(p) ==
    /\ poller[p].at = "poll" /\ poller[p].left = {}
    /\ poller' = [poller EXCEPT
          ![p] = IF poller[p].dirty THEN [@ EXCEPT !.at = "open"] ELSE Resting]
    /\ UNCHANGED <<truth, file, tmp, changes, faults>>

(* save_state: open truncates, write fills, replace renames whatever the   *)
(* temporary's name stands for; a poller that still has it open goes on    *)
(* writing into what is now the state file.                                *)
OpenTmp(p) ==
    /\ poller[p].at = "open"
    /\ tmp' = Empty
    /\ poller' = [poller EXCEPT ![p].at = "write", ![p].inode = "tmp"]
    /\ UNCHANGED <<truth, file, changes, faults>>

\* Written over another's rows, of another length perhaps.
Over(was, new) == IF was \in {Empty, new} THEN {new} ELSE {new, Torn}

WriteTmp(p) ==
    /\ poller[p].at = "write"
    /\ CASE poller[p].inode = "tmp" -> tmp' \in Over(tmp, poller[p].state) /\ UNCHANGED file
         [] poller[p].inode = "file" -> file' \in Over(file, poller[p].state) /\ UNCHANGED tmp
         [] OTHER -> UNCHANGED <<file, tmp>>
    /\ poller' = [poller EXCEPT ![p].at = "replace", ![p].inode = "none"]
    /\ UNCHANGED <<truth, changes, faults>>

Moved(inode) == CASE inode = "tmp" -> "file" [] OTHER -> "none"

Replace(p) ==
    /\ poller[p].at = "replace"
    /\ IF tmp = Gone
         THEN /\ poller' = [poller EXCEPT ![p] = Resting]  \* an error; nothing saved
              /\ UNCHANGED <<file, tmp>>
         ELSE /\ file' = tmp /\ tmp' = Gone
              /\ poller' = [q \in Pollers |->
                    IF q = p THEN Resting ELSE [poller[q] EXCEPT !.inode = Moved(@)]]
    /\ UNCHANGED <<truth, changes, faults>>

Die(p) ==
    /\ poller[p].at # "idle" /\ faults < MaxFaults
    /\ faults' = faults + 1
    /\ poller' = [poller EXCEPT ![p] = Resting]
    /\ UNCHANGED <<truth, file, tmp, changes>>

(* A push, a run that ends, a rerun.                                       *)
Turns(r) ==
    /\ changes < MaxChanges /\ changes' = changes + 1
    /\ \E v \in Verdicts \ {truth[r]} : truth' = [truth EXCEPT ![r] = v]
    /\ UNCHANGED <<file, tmp, poller, faults>>

Sweep(p) ==
    \/ Begin(p) \/ EndSweep(p) \/ OpenTmp(p) \/ WriteTmp(p) \/ Replace(p)
    \/ \E r \in Repos : fetch_repo_ci_status(p, r)

Next ==
    \/ \E p \in Pollers : Sweep(p) \/ Die(p) \/ \E r \in Repos : PollFails(p, r)
    \/ \E r \in Repos : Turns(r)

(* Cron, or the loop, starts a sweep again and again and lets it run.      *)
Spec == Init /\ [][Next]_vars /\ \A p \in Pollers : WF_vars(Sweep(p))

-----------------------------------------------------------------------------

Quiet == \A p \in Pollers : poller[p].at = "idle"

(* Once CI has settled on a definitive verdict the state file comes to     *)
(* show it and never again another, whatever sweeps overwrote, tore or     *)
(* lost before, provided the pollers are all at rest again and again: two  *)
(* in lockstep may go on renaming each other's empty temporaries, and in a *)
(* sweep the file may not parse for a moment (_run_one_sweep, save_state). *)
VerdictCatchesUp ==
    \A r \in Repos : \A v \in _DEFINITIVE :
        <>[](truth[r] = v) /\ []<>Quiet
            => []<>(load_state[r] = v) /\ <>[](load_state[r] \in {v, "new"})
=============================================================================
