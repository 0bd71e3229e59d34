------------------------------- MODULE Nudges -------------------------------
(***************************************************************************)
(* The nudges: per owner and kind, one inbox record that lists the owner's *)
(* untouched cards.  Two programs run the same sweep, notifyd every half   *)
(* hour and the stats cron every ten minutes.  The cron's runs exclude     *)
(* each other by a lock file; nothing excludes notifyd.  Each sweep reads  *)
(* the cards and nudges.yaml at its start and writes the whole of its copy *)
(* at its end.                                                             *)
(*                                                                         *)
(* A nudge that says what the last one said is suppressed until the floor  *)
(* has passed.                                                             *)
(***************************************************************************)
EXTENDS Staleness

CONSTANTS
    Daemons,        \* notifyd
    Crons,          \* runs of `print-stats --nudge-quiet'
    Kinds,          \* of the three kinds, those looked at
    NoCron,
    MaxFaults       \* bound on failed enqueues, failed or unreadable sidecar
                    \* files and deaths

Procs == Daemons \cup Crons

ASSUME NudgeAssumption ==
    /\ Kinds \subseteq {"stale-active", "pending-backlog", "blocked-check"}
    /\ Daemons \cap Crons = {} /\ NoCron \notin Crons /\ MaxFaults \in Nat

VARIABLES
    board,          \* the cards
    disk,           \* nudges.yaml
    lock,           \* who holds the cron's lock file
    pc, mem,        \* each sweep, and its copy of the sidecar
    bucket, todo,   \* its buckets, and the <<kind, owner>>s still to visit
    told,           \* what each owner was last nudged about
    faults

sweeps == <<pc, mem, bucket, todo>>
vars == <<board, disk, lock, sweeps, told, faults>>

\* what is said to whom
Topics == Kinds \X Owners
Entries == [content : SUBSET Cards, floored : BOOLEAN]
NoEntry == [content |-> {}, floored |-> TRUE]
Empty == [t \in Topics |-> NoEntry]
Nothing == [t \in Topics |-> {}]

TypeOK ==
    /\ board \in Boards
    /\ disk \in [Topics -> Entries] /\ told \in [Topics -> Entries]
    /\ lock \in Crons \cup {NoCron}
    /\ pc \in [Procs -> {"idle", "load", "tell"}]
    /\ mem \in [Procs -> [Topics -> Entries]]
    /\ bucket \in [Procs -> [Topics -> SUBSET Cards]]
    /\ todo \in [Procs -> SUBSET Topics]
    /\ faults \in 0 .. MaxFaults

Init ==
    /\ board \in FreshBoards
    /\ disk = Empty /\ told = Empty
    /\ lock = NoCron
    /\ pc = [p \in Procs |-> "idle"]
    /\ mem = [p \in Procs |-> Empty]
    /\ bucket = [p \in Procs |-> Nothing]
    /\ todo = [p \in Procs |-> {}]
    /\ faults = 0

Fault == faults < MaxFaults /\ faults' = faults + 1
Move(p, from, to) == pc[p] = from /\ pc' = [pc EXCEPT ![p] = to]

detect(kind) ==
    CASE kind = "stale-active" -> detect_stale_active(board)
      [] kind = "pending-backlog" -> detect_pending_backlog(board)
      [] OTHER -> detect_blocked_external(board)

Bucket(t) == OwnedBy(board, detect(t[1]), t[2])

-----------------------------------------------------------------------------
(* One sweep.                                                              *)

\* load_tasks; a cron run that finds the lock taken does nothing at all
StartSweep(p) ==
    /\ Move(p, "idle", "load")
    /\ IF p \in Crons THEN lock = NoCron /\ lock' = p ELSE UNCHANGED lock
    /\ bucket' = [bucket EXCEPT ![p] = [t \in Topics |-> Bucket(t)]]
    /\ UNCHANGED <<board, disk, mem, todo, told, faults>>

\* load_nudge_state; unreadable is taken for empty
Load(p) ==
    /\ Move(p, "load", "tell")
    /\ \/ mem' = [mem EXCEPT ![p] = disk] /\ UNCHANGED faults
       \/ mem' = [mem EXCEPT ![p] = Empty] /\ Fault
    /\ todo' = [todo EXCEPT ![p] = {t \in Topics : bucket[p][t] # {}}]
    /\ UNCHANGED <<board, disk, lock, bucket, told>>

\* mutant: the floor does not count
unchangedForever(p, t) == bucket[p][t] = mem[p][t].content
unchanged(p, t) == bucket[p][t] = mem[p][t].content /\ ~mem[p][t].floored

Suppress(p, t) ==
    /\ pc[p] = "tell" /\ t \in todo[p] /\ unchanged(p, t)
    /\ todo' = [todo EXCEPT ![p] = @ \ {t}]
    /\ UNCHANGED <<board, disk, lock, pc, mem, bucket, told, faults>>

\* the nudge replaces the one of its kind the owner has not seen yet; a failed
\* one leaves the entry as it was
Nudge(p, t) ==
    /\ pc[p] = "tell" /\ t \in todo[p] /\ ~unchanged(p, t)
    /\ todo' = [todo EXCEPT ![p] = @ \ {t}]
    /\ LET entry == [content |-> bucket[p][t], floored |-> FALSE]
       IN  \/ /\ mem' = [mem EXCEPT ![p][t] = entry]
              /\ told' = [told EXCEPT ![t] = entry]
              /\ UNCHANGED faults
           \/ Fault /\ UNCHANGED <<mem, told>>
    /\ UNCHANGED <<board, disk, lock, pc, bucket>>

\* owners without cards of a kind are dropped from it
pruned(p) == [t \in Topics |-> IF bucket[p][t] = {} THEN NoEntry ELSE mem[p][t]]

Forget(p) ==
    /\ pc' = [pc EXCEPT ![p] = "idle"]
    /\ mem' = [mem EXCEPT ![p] = Empty]
    /\ bucket' = [bucket EXCEPT ![p] = Nothing]
    /\ todo' = [todo EXCEPT ![p] = {}]
    /\ lock' = IF lock = p THEN NoCron ELSE lock

\* save_nudge_state; the streak of an owner without cards is over
Save(p) ==
    /\ pc[p] = "tell" /\ todo[p] = {}
    /\ disk' = pruned(p)
    /\ told' = [t \in Topics |-> IF bucket[p][t] = {} THEN NoEntry ELSE told[t]]
    /\ Forget(p)
    /\ UNCHANGED <<board, faults>>

\* the save fails, which is logged and no more, or the process dies
LoseSweep(p) ==
    /\ pc[p] # "idle" /\ Fault
    /\ Forget(p)
    /\ UNCHANGED <<board, disk, told>>

-----------------------------------------------------------------------------
(* The world around it.                                                    *)

Touch(i) ==
    /\ \E c \in StatesOf[i] : board' = [board EXCEPT ![i] = c]
    /\ UNCHANGED <<disk, lock, sweeps, told, faults>>

Idle(i) ==
    /\ board[i].idle < MaxIdle /\ board' = [board EXCEPT ![i].idle = @ + 1]
    /\ UNCHANGED <<disk, lock, sweeps, told, faults>>

\* the floor of the latest nudge has passed, or only that of older ones; what
\* a sweep holds ages with the rest
aged(e) == [e EXCEPT !.floored = TRUE]
WaitFloor(t) ==
    /\ \E older \in BOOLEAN :
         LET age(e) == IF older /\ e = told[t] THEN e ELSE aged(e)
         IN  /\ told' = [told EXCEPT ![t] = age(@)]
             /\ disk' = [disk EXCEPT ![t] = age(@)]
             /\ mem' = [p \in Procs |-> [mem[p] EXCEPT ![t] = age(@)]]
    /\ <<told, disk, mem>>' # <<told, disk, mem>>
    /\ UNCHANGED <<board, lock, pc, bucket, todo, faults>>

Finish(p) ==
    Load(p) \/ Save(p) \/ \E t \in Topics : Suppress(p, t) \/ Nudge(p, t)

Next ==
    \/ \E p \in Procs : StartSweep(p) \/ Finish(p) \/ LoseSweep(p)
    \/ \E i \in Cards : Touch(i) \/ Idle(i)
    \/ \E t \in Topics : WaitFloor(t)

\* notifyd sweeps for ever, a cron run that started ends, and floors pass
Fairness ==
    /\ \A d \in Daemons : WF_vars(StartSweep(d))
    /\ \A p \in Procs : WF_vars(Finish(p))
    /\ \A t \in Topics : WF_vars(WaitFloor(t))

Spec == Init /\ [][Next]_vars /\ Fairness

-----------------------------------------------------------------------------
(* Properties.                                                             *)

\* When an owner's untouched cards stay what they are, then he ends up told
\* just these, however the two programs got in each other's way before.
Settles ==
    \A t \in Topics : \A ids \in SUBSET Cards \ {{}} :
        <>[](Bucket(t) = ids) => <>[](told[t].content = ids)
=============================================================================
