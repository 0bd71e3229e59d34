------------------------------ MODULE Delivery ------------------------------
(***************************************************************************)
(* Delivery of notifications to people: the passes of the notifyd daemon,  *)
(* the one-shot passes anybody may run beside it (`deliver`,               *)
(* `notifyd --once`) and the ledger they share.  Who may be a daemon at    *)
(* the same time is the business of module Pidfile; here passes overlap    *)
(* as they like.                                                           *)
(*                                                                         *)
(* An item is one (recipient, notification, channel) tuple, numbered in    *)
(* the order a pass meets it: recipients sorted by name, notifications in  *)
(* inbox order, channels as recipients.json lists them.  A pass loads the  *)
(* ledger once, polls each recipient's inbox, and after every attempt      *)
(* writes back the WHOLE map it holds in memory.                           *)
(*                                                                         *)
(* Time: an entry is waiting while next_eligible_ts lies ahead.  A pass    *)
(* judges by the time it started, so its own copy keeps waiting; the       *)
(* file's entry may stop waiting at any moment.                            *)
(***************************************************************************)
EXTENDS Naturals, FiniteSetsExt

CONSTANTS
    Daemons,       \* processes of run_notifyd
    Passes,        \* one-shot passes
    N,             \* number of items
    UserOf,        \* the recipient of each item, numbered in sorted order
    Registered,    \* the items whose channel kind is registered
    MaxAttempts,   \* MAX_ATTEMPTS
    ReportEvery,   \* terminal_report_every
    MaxFaults      \* bound on one-shot passes, deaths, unreadable files and
                   \* failed writes

Items == 1 .. N
Users == {UserOf[i] : i \in Items}
Procs == Daemons \cup Passes

ASSUME CountAssumption ==
    /\ N \in Nat /\ MaxFaults \in Nat
    /\ MaxAttempts \in Nat \ {0} /\ ReportEvery \in Nat \ {0}
    /\ UserOf \in [Items -> Nat] /\ Registered \subseteq Items
ASSUME ProcAssumption == Daemons \cap Passes = {}

VARIABLES
    inbox,         \* items whose notification is in the recipient's inbox
    disk,          \* the ledger file
    pc,            \* where each process is
    mem,           \* its Ledger
    users, todo,   \* recipients and items its pass has still to look at
    got,           \* what its last channel.deliver came to
    tick,          \* its tick number, modulo ReportEvery
    calls, sends,  \* attempts and successes per item, until it is blamed
    blamed,        \* items a fault or an overlap may deliver twice
    surfaced,      \* items reported to the operator as undeliverable
    faults         \* what went wrong so far

passVars == <<mem, users, todo, got>>
ghosts == <<calls, sends, blamed, surfaced>>
vars == <<inbox, disk, pc, passVars, tick, ghosts, faults>>

Statuses == {"none", "sent", "failed", "failed_terminal"}
Entries == [status : Statuses, attempts : 0 .. MaxAttempts, waiting : BOOLEAN]
NoEntry == [status |-> "none", attempts |-> 0, waiting |-> FALSE]
NoLedger == [i \in Items |-> NoEntry]

\* between Ledger.load and the end of deliver_pending
PassSteps == {"items", "record", "warn"}
Steps == PassSteps \cup {"down", "sweep", "load", "report"}

TypeOK ==
    /\ inbox \subseteq Items
    /\ disk \in [Items -> Entries]
    /\ pc \in [Procs -> Steps]
    /\ mem \in [Procs -> [Items -> Entries]]
    /\ users \in [Procs -> SUBSET Users]
    /\ todo \in [Procs -> SUBSET Items]
    /\ got \in [Procs -> {"none", "sent", "failed"}]
    /\ tick \in [Daemons -> 0 .. ReportEvery - 1]
    /\ calls \in [Items -> Nat]
    /\ sends \in [Items -> Nat]
    /\ blamed \subseteq Items
    /\ surfaced \subseteq Items
    /\ faults \in 0 .. MaxFaults

Init ==
    /\ inbox = {}
    /\ disk = NoLedger
    /\ pc = [p \in Procs |-> "down"]
    /\ mem = [p \in Procs |-> NoLedger]
    /\ users = [p \in Procs |-> {}]
    /\ todo = [p \in Procs |-> {}]
    /\ got = [p \in Procs |-> "none"]
    /\ tick = [d \in Daemons |-> 0]
    /\ calls = [i \in Items |-> 0]
    /\ sends = [i \in Items |-> 0]
    /\ blamed = {} /\ surfaced = {}
    /\ faults = 0

Move(p, from, to) == pc[p] = from /\ pc' = [pc EXCEPT ![p] = to]
Fault == faults < MaxFaults /\ faults' = faults + 1

-----------------------------------------------------------------------------
(* The ledger: predicates on an entry, and what record() makes of it.      *)

already_done(e) == e.status = "sent"
is_terminal(e) == e.status = "failed_terminal"
has_failure(e) == e.status = "failed"
retry_eligible(e) == has_failure(e) /\ e.attempts < MaxAttempts /\ ~e.waiting

\* what a transport answers, and what the channel makes of it: a refusal, a
\* request to slow down, an error and an exception are all a failure
Answers == {"accepted", "slow_down", "refused", "error"}
deliver(answer) == IF answer = "accepted" THEN "sent" ELSE "failed"

\* mutant: one failure too many before the item is given up
recordedLate(e, result) ==
    LET n == e.attempts + 1
    IN  CASE result = "failed" /\ n > MaxAttempts ->
               {[status |-> "failed_terminal", attempts |-> n, waiting |-> FALSE]}
          [] OTHER ->
               {[status |-> result, attempts |-> n, waiting |-> FALSE]}

\* the entry after a result; the backoff, exponential or what the server
\* asked for, may be over before the entry is written
recorded(e, result) ==
    LET n == e.attempts + 1
    IN  CASE result = "sent" ->
               {[status |-> "sent", attempts |-> n, waiting |-> FALSE]}
          [] result = "failed" /\ n >= MaxAttempts ->
               {[status |-> "failed_terminal", attempts |-> n, waiting |-> FALSE]}
          [] OTHER ->
               {[status |-> "failed", attempts |-> n, waiting |-> w] : w \in BOOLEAN}

\* mutants: the ledger is not asked what was sent, or what was given up
noopResends(e) ==
    is_terminal(e) \/ (has_failure(e) /\ ~retry_eligible(e))
\* _attempt_one returns "noop": nothing to do for this entry now
noop(e) ==
    already_done(e) \/ is_terminal(e) \/ (has_failure(e) /\ ~retry_eligible(e))

-----------------------------------------------------------------------------
(* One pass.                                                               *)

\* a daemon starts and makes its first tick
Start(d) ==
    /\ d \in Daemons /\ Move(d, "down", "sweep")
    /\ tick' = [tick EXCEPT ![d] = 1 % ReportEvery]
    /\ UNCHANGED <<inbox, disk, passVars, ghosts, faults>>

\* the reminder sweep of the tick, then the nudge sweep when it is due; both
\* are guarded, and either may put notifications into inboxes
Sweep(d) ==
    /\ Move(d, "sweep", "load")
    /\ \E new \in SUBSET Items : inbox' = inbox \cup new
    /\ UNCHANGED <<disk, passVars, tick, ghosts, faults>>

\* somebody runs a pass by hand or from cron
StartPass(p) ==
    /\ p \in Passes /\ Move(p, "down", "load") /\ Fault
    /\ UNCHANGED <<inbox, disk, passVars, tick, ghosts>>

\* deliver_pending: the ledger is read once; unreadable is taken for empty
Load(p) ==
    /\ Move(p, "load", "items")
    /\ \/ /\ UNCHANGED faults
          /\ mem' = [mem EXCEPT ![p] = disk]
          /\ blamed' = IF \E q \in Procs \ {p} : pc[q] \in PassSteps
                         THEN Items ELSE blamed
       \/ /\ Fault
          /\ mem' = [mem EXCEPT ![p] = NoLedger]
          /\ blamed' = Items
    /\ users' = [users EXCEPT ![p] = Users]
    /\ UNCHANGED <<inbox, disk, todo, got, tick, calls, sends, surfaced>>

\* poll_inbox of the next recipient, read-only; a failure skips the recipient
ReadInbox(p) ==
    /\ pc[p] = "items" /\ todo[p] = {} /\ users[p] # {}
    /\ LET u == Min(users[p])
           notes == {i \in Registered : i \in inbox /\ UserOf[i] = u}
       IN  /\ users' = [users EXCEPT ![p] = @ \ {u}]
           /\ \/ todo' = [todo EXCEPT ![p] = notes] /\ UNCHANGED faults
              \/ todo' = [todo EXCEPT ![p] = {}] /\ Fault
    /\ UNCHANGED <<inbox, disk, pc, mem, got, tick, ghosts>>

\* the next item of the recipient is left alone ...
PassOver(p) ==
    /\ pc[p] = "items" /\ todo[p] # {}
    /\ LET i == Min(todo[p])
       IN  noop(mem[p][i]) /\ todo' = [todo EXCEPT ![p] = @ \ {i}]
    /\ UNCHANGED <<inbox, disk, pc, mem, users, got, tick, ghosts, faults>>

\* ... or handed to its channel
Attempt(p) ==
    /\ todo[p] # {} /\ Move(p, "items", "record")
    /\ LET i == Min(todo[p])
       IN  /\ ~noop(mem[p][i])
           /\ calls' = [calls EXCEPT ![i] = IF i \in blamed THEN @ ELSE @ + 1]
           /\ \E answer \in Answers : got' = [got EXCEPT ![p] = deliver(answer)]
           /\ sends' = [sends EXCEPT ![i] =
                 IF got'[p] = "sent" /\ (@ = 0 \/ i \notin blamed) THEN @ + 1 ELSE @]
    /\ UNCHANGED <<inbox, disk, mem, users, todo, tick, blamed, surfaced, faults>>

\* ledger.record: the entry in memory, and the whole map over the file
Record(p) ==
    /\ pc[p] = "record"
    /\ LET i == Min(todo[p])
       IN  \E e \in recorded(mem[p][i], got[p]) :
             /\ mem' = [mem EXCEPT ![p][i] = e]
             /\ disk' = [mem[p] EXCEPT ![i] = e]
             /\ IF is_terminal(e)
                  THEN Move(p, "record", "warn") /\ UNCHANGED todo
                  ELSE /\ Move(p, "record", "items")
                       /\ todo' = [todo EXCEPT ![p] = @ \ {i}]
    /\ got' = [got EXCEPT ![p] = "none"]
    /\ UNCHANGED <<inbox, users, tick, ghosts, faults>>

\* the one loud line about an item whose attempts are used up
Warn(p) ==
    /\ Move(p, "warn", "items")
    /\ surfaced' = surfaced \cup {Min(todo[p])}
    /\ todo' = [todo EXCEPT ![p] = @ \ {Min(todo[p])}]
    /\ UNCHANGED <<inbox, disk, mem, users, got, tick, calls, sends, blamed, faults>>

\* what the pass knew is gone with it
Forget(p) ==
    /\ mem' = [mem EXCEPT ![p] = NoLedger]
    /\ users' = [users EXCEPT ![p] = {}]
    /\ todo' = [todo EXCEPT ![p] = {}]
    /\ got' = [got EXCEPT ![p] = "none"]

\* the next tick of a daemon, after the sleep
NextTick(d) == tick' = [tick EXCEPT ![d] = (@ + 1) % ReportEvery]

\* _save raises: nothing catches it inside the pass, so the pass is over, and
\* with it the tick, whose report is skipped
SaveFails(p) ==
    /\ Fault
    /\ IF p \in Daemons
         THEN Move(p, "record", "sweep") /\ NextTick(p)
         ELSE Move(p, "record", "down") /\ UNCHANGED tick
    /\ blamed' = blamed \cup {Min(todo[p])}
    /\ Forget(p)
    /\ UNCHANGED <<inbox, disk, calls, sends, surfaced>>

EndPass(p) ==
    /\ todo[p] = {} /\ users[p] = {}
    /\ Move(p, "items", IF p \in Daemons THEN "report" ELSE "down")
    /\ Forget(p)
    /\ UNCHANGED <<inbox, disk, tick, ghosts, faults>>

\* mutant: reports from the ledger of the pass, which is gone by now
ReportPass(d) ==
    /\ Move(d, "report", "sweep") /\ NextTick(d)
    /\ surfaced' = surfaced \cup {i \in Items : is_terminal(mem[d][i])}
    /\ UNCHANGED <<inbox, disk, passVars, calls, sends, blamed, faults>>

\* every ReportEvery ticks all terminal entries of the file are reported again
Report(d) ==
    /\ Move(d, "report", "sweep") /\ NextTick(d)
    /\ surfaced' = IF tick[d] = 0
                     THEN surfaced \cup {i \in Items : is_terminal(disk[i])}
                     ELSE surfaced
    /\ UNCHANGED <<inbox, disk, passVars, calls, sends, blamed, faults>>

-----------------------------------------------------------------------------
(* The world around it.                                                    *)

\* somebody enqueues a notification; one that is removed unseen before it was
\* delivered (superseded) is as good as never enqueued, and not modelled
Enqueue(i) ==
    /\ i \notin inbox /\ inbox' = inbox \cup {i}
    /\ UNCHANGED <<disk, pc, passVars, tick, ghosts, faults>>

\* next_eligible_ts is reached
Elapse(i) ==
    /\ disk[i].waiting /\ disk' = [disk EXCEPT ![i].waiting = FALSE]
    /\ UNCHANGED <<inbox, pc, passVars, tick, ghosts, faults>>

\* killed, or stopped in mid-tick by the host going down
Die(p) ==
    /\ pc[p] # "down" /\ Move(p, pc[p], "down") /\ Fault
    /\ blamed' = IF pc[p] = "record" THEN blamed \cup {Min(todo[p])} ELSE blamed
    /\ Forget(p)
    /\ UNCHANGED <<inbox, disk, tick, calls, sends, surfaced>>

Run(p) ==
    Load(p) \/ ReadInbox(p) \/ PassOver(p) \/ Attempt(p) \/ Record(p) \/ Warn(p) \/ EndPass(p)

Daemon(d) == Start(d) \/ Sweep(d) \/ Report(d) \/ Run(d)

Next ==
    \/ \E d \in Daemons : Daemon(d)
    \/ \E p \in Passes : StartPass(p) \/ Run(p)
    \/ \E p \in Procs : SaveFails(p) \/ Die(p)
    \/ \E i \in Items : Enqueue(i) \/ Elapse(i)

\* The unit restarts a daemon that fails (Restart=on-failure), a running one
\* keeps ticking, and time passes.  A one-shot pass may hang for ever.
Fairness ==
    /\ \A d \in Daemons : WF_vars(Daemon(d))
    /\ \A i \in Items : WF_vars(Elapse(i))

Spec == Init /\ [][Next]_vars /\ Fairness

-----------------------------------------------------------------------------
(* Properties.                                                             *)

\* Nobody is sent the same notification twice over one channel, and nothing is
\* attempted more than MAX_ATTEMPTS times, across ticks, retries and restarts,
\* except where a pass died or failed to save between the send and the ledger,
\* could not read the ledger, or overlapped another.
NoResend ==
    \A i \in Items : sends[i] > 1 \/ calls[i] > MaxAttempts => i \in blamed

\* A notification that stays in its inbox and has a channel is sent or is
\* given up for good: backoff, faults, restarts and clobbered ledgers delay
\* it, no more.
SentOrGivenUp ==
    \A i \in Registered :
        i \in inbox ~> sends[i] > 0 \/ is_terminal(disk[i])

\* What was given up is brought to the operator's attention, even when the
\* daemon dies before its one loud line about it.
Resurfaced ==
    \A i \in Items :
        is_terminal(disk[i]) ~> i \in surfaced \/ ~is_terminal(disk[i])
=============================================================================
