------------------------------ MODULE Pidfile ------------------------------
(***************************************************************************)
(* The single-instance lock of the notifyd daemon, its heartbeat, and what *)
(* a reader in any PID namespace concludes from it about the daemon.       *)
(*                                                                         *)
(* The flock belongs to the inode a daemon has open, the pidfile's path    *)
(* names an inode, and releasing the lock and removing the path are two    *)
(* steps.  What a tick does is the business of module Delivery.            *)
(***************************************************************************)
EXTENDS Naturals, FiniteSets

CONSTANTS
    Daemons,       \* processes of run_notifyd
    MaxFaults,     \* bound on signals, deaths and stamps that fail
    None,          \* no process
    Exited         \* the pid of a process that is no more

\* enough inodes for the path and every open descriptor
Files == 1 .. Cardinality(Daemons) + 1

PidfileAssumption ==
    /\ IsFiniteSet(Daemons) /\ None # Exited /\ {None, Exited} \cap Daemons = {}
    /\ MaxFaults \in Nat

VARIABLES
    pc,      \* where each daemon is
    stop,    \* daemons whose stop event is set
    path,    \* the inode at the pidfile's path, 0 when there is none
    fd,      \* the inode each daemon has open, 0 when none
    lock,    \* who holds the flock of each inode
    text,    \* whose pid each inode carries, None when it is empty
    fresh,   \* inodes whose stamp is not older than STALE_TICKS intervals
    faults

vars == <<pc, stop, path, fd, lock, text, fresh, faults>>

\* between acquire and release
LoopSteps == {"top", "tick"}
Running(d) == pc[d] \in LoopSteps

TypeOK ==
    /\ pc \in [Daemons -> LoopSteps \cup {"down", "opened", "locked", "release",
                                        "unlink"}]
    /\ stop \subseteq Daemons
    /\ path \in {0} \cup Files
    /\ fd \in [Daemons -> {0} \cup Files]
    /\ lock \in [Files -> {None} \cup Daemons]
    /\ text \in [Files -> {None, Exited} \cup Daemons]
    /\ fresh \subseteq Files
    /\ faults \in 0 .. MaxFaults
    /\ \A d \in Daemons :
         /\ pc[d] \in LoopSteps \cup {"locked", "release"} =>
              fd[d] # 0 /\ lock[fd[d]] = d
         /\ pc[d] \in {"down", "unlink"} <=> fd[d] = 0

Init ==
    /\ pc = [d \in Daemons |-> "down"] /\ stop = {}
    /\ path = 0
    /\ fd = [d \in Daemons |-> 0]
    /\ lock = [f \in Files |-> None]
    /\ text = [f \in Files |-> None]
    /\ fresh = {}
    /\ faults = 0

Move(d, from, to) == pc[d] = from /\ pc' = [pc EXCEPT ![d] = to]
Fault == faults < MaxFaults /\ faults' = faults + 1

\* open(path, "a+"): the inode at the path, or a new one
OpenPidfile(d) ==
    /\ Move(d, "down", "opened")
    /\ IF path # 0
         THEN fd' = [fd EXCEPT ![d] = path] /\ UNCHANGED <<path, text, fresh>>
         ELSE LET f == CHOOSE g \in Files : \A c \in Daemons : fd[c] # g
              IN  /\ path' = f
                  /\ fd' = [fd EXCEPT ![d] = f]
                  /\ text' = [text EXCEPT ![f] = None]
                  /\ fresh' = fresh \ {f}
    /\ UNCHANGED <<stop, lock, faults>>

\* mutant: any text in the file keeps the next daemon out
acquireByText(d) ==
    /\ pc[d] = "opened"
    /\ IF text[fd[d]] = None
         THEN /\ Move(d, "opened", "locked")
              /\ lock' = [lock EXCEPT ![fd[d]] = d] /\ UNCHANGED fd
         ELSE /\ Move(d, "opened", "down")
              /\ fd' = [fd EXCEPT ![d] = 0] /\ UNCHANGED lock
    /\ UNCHANGED <<stop, path, text, fresh, faults>>

\* flock(LOCK_EX | LOCK_NB): a second daemon fails here and exits
acquire(d) ==
    /\ pc[d] = "opened"
    /\ IF lock[fd[d]] = None
         THEN /\ Move(d, "opened", "locked")
              /\ lock' = [lock EXCEPT ![fd[d]] = d] /\ UNCHANGED fd
         ELSE /\ Move(d, "opened", "down")
              /\ fd' = [fd EXCEPT ![d] = 0] /\ UNCHANGED lock
    /\ UNCHANGED <<stop, path, text, fresh, faults>>

\* the stamp: pid, identity of the namespace, interval and time of day
stamp(d) ==
    /\ text' = [text EXCEPT ![fd[d]] = d]
    /\ fresh' = fresh \cup {fd[d]}

FirstStamp(d) ==
    /\ Move(d, "locked", "top") /\ stamp(d)
    /\ UNCHANGED <<stop, path, fd, lock, faults>>

\* a tick truncates the file and writes a new stamp; a write that fails is
\* logged and leaves the file empty
heartbeat(d) ==
    /\ d \notin stop /\ Move(d, "top", "tick")
    /\ \/ stamp(d) /\ UNCHANGED faults
       \/ text' = [text EXCEPT ![fd[d]] = None] /\ Fault /\ UNCHANGED fresh
    /\ UNCHANGED <<stop, path, fd, lock>>

\* after the tick: sleep, unless the stop event is set
AfterTick(d) ==
    /\ d \notin stop /\ Move(d, "tick", "top")
    /\ UNCHANGED <<stop, path, fd, lock, text, fresh, faults>>

Leave(d) ==
    /\ d \in stop /\ (Move(d, "top", "release") \/ Move(d, "tick", "release"))
    /\ UNCHANGED <<stop, path, fd, lock, text, fresh, faults>>

\* once d has exited its pid means nothing, wherever it is still written
Bury(d) == text' = [f \in Files |-> IF text[f] = d THEN Exited ELSE text[f]]

\* release(): unlock and close ...
Unlock(d) ==
    /\ Move(d, "release", "unlink")
    /\ lock' = [lock EXCEPT ![fd[d]] = None]
    /\ fd' = [fd EXCEPT ![d] = 0]
    /\ UNCHANGED <<stop, path, text, fresh, faults>>

\* ... and only then remove the path, whatever it names by now; then exit
Unlink(d) ==
    /\ Move(d, "unlink", "down")
    /\ path' = 0 /\ stop' = stop \ {d} /\ Bury(d)
    /\ UNCHANGED <<fd, lock, fresh, faults>>

\* SIGTERM or SIGINT while run_notifyd has its handlers installed
Signal(d) ==
    /\ Running(d) /\ d \notin stop /\ Fault
    /\ stop' = stop \cup {d}
    /\ UNCHANGED <<pc, path, fd, lock, text, fresh>>

\* killed: the kernel drops the lock, the file stays as it is
Die(d) ==
    /\ pc[d] # "down" /\ Move(d, pc[d], "down") /\ Fault
    /\ lock' = [f \in Files |-> IF lock[f] = d THEN None ELSE lock[f]]
    /\ fd' = [fd EXCEPT ![d] = 0]
    /\ stop' = stop \ {d} /\ Bury(d)
    /\ UNCHANGED <<path, fresh>>

\* a stamp grows older than the reader's budget, its writer dead, stuck in a
\* long tick or unable to write
GoStale(f) ==
    /\ f \in fresh /\ fresh' = fresh \ {f}
    /\ UNCHANGED <<pc, stop, path, fd, lock, text, faults>>

Daemon(d) ==
    OpenPidfile(d) \/ acquire(d) \/ FirstStamp(d) \/ heartbeat(d) \/ AfterTick(d)
    \/ Leave(d) \/ Unlock(d) \/ Unlink(d)

Next ==
    \/ \E d \in Daemons : Daemon(d) \/ Signal(d) \/ Die(d)
    \/ \E f \in Files : GoStale(f)

\* The unit restarts a daemon that failed or was told to stop (`systemctl
\* restart`); a process that runs keeps running.
Fairness == \A d \in Daemons : WF_vars(Daemon(d))

Spec == Init /\ [][Next]_vars /\ Fairness

-----------------------------------------------------------------------------
(* assess_liveness.  Only a reader in the writer's own namespace ("same")  *)
(* probes the pid; one in another namespace, or in one it cannot compare,  *)
(* judges by the age of the stamp, and an empty file has none.             *)

Readers == {"same", "other", "unknown"}

_probe_pid(pid) == IF pid = Exited THEN "dead" ELSE "alive"

_by_freshness(f) ==
    IF text[f] = None THEN "unknown" ELSE IF f \in fresh THEN "alive" ELSE "dead"

\* mutant: everybody probes the pid, and in another namespace finds nobody
assess_by_pid(reader) ==
    IF path = 0 THEN "not_running"
    ELSE IF text[path] = None THEN "unknown"
    ELSE IF reader = "same" THEN _probe_pid(text[path]) ELSE "dead"

assess_liveness(reader) ==
    IF path = 0 THEN "not_running"
    ELSE IF reader = "same" /\ text[path] # None THEN _probe_pid(text[path])
    ELSE _by_freshness(path)

(* Properties.                                                             *)

\* A daemon whose pidfile is the one at the path is never reported missing,
\* and is reported dead only from another namespace, after it missed its
\* stamps: never because its pid means nothing there, for what a killed
\* predecessor left in the file, or for a stamp it failed to write.
HealthNeverFalselyDead ==
    \A d \in Daemons : Running(d) /\ fd[d] = path =>
        \A reader \in Readers :
            /\ assess_liveness(reader) # "not_running"
            /\ assess_liveness(reader) = "dead" =>
                 reader # "same" /\ path \notin fresh

\* However the last daemon ended, a new one gets the lock: nothing a killed
\* or stopped daemon leaves behind blocks the next.
RestartNeverBlocked == []<>(\E d \in Daemons : Running(d))

\* Two daemons never run at the same time.
SingleDaemon ==
    \A c, d \in Daemons : Running(c) /\ Running(d) => c = d
=============================================================================
