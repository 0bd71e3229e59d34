----------------------------- MODULE Reminders ------------------------------
(***************************************************************************)
(* The reminder engine: the sweep that notifyd runs at every tick.  Each   *)
(* owner of untouched cards gets a digest of them; an urgent card that     *)
(* outlives enough digests is escalated to the operator; the cards of an   *)
(* owner who is not alive are escalated to their creators.  What was sent  *)
(* is remembered in reminders.yaml, which a sweep reads at its start and   *)
(* writes at its end; in between it may die.                               *)
(*                                                                         *)
(* Time: a sweep decides by the instant it started, and takes no time.     *)
(* last_at counts the cadences it has outlived (none, the active one, the  *)
(* backlog one), delivered_at whether the floor has passed.                *)
(***************************************************************************)
EXTENDS Staleness, FiniteSets

CONSTANTS
    Allowed,            \* the allowlist, Owners when there is none
    High,               \* cards with a priority that escalates
    Registered,         \* owners the users registry knows
    EscalateAfter,      \* escalate_after
    MaxFaults           \* bound on failed enqueues, failed or unreadable
                        \* sidecar files and deaths

ASSUME ReminderAssumption ==
    /\ Allowed \subseteq Owners /\ Registered \subseteq Owners /\ High \subseteq Cards
    /\ EscalateAfter \in Nat \ {0} /\ MaxFaults \in Nat

VARIABLES
    board,              \* the cards
    alive,              \* registered owners seen within the liveness TTL
    disk,               \* reminders.yaml
    pc, mem,            \* the sweep, and its copy of the sidecar
    bucket, pending,    \* its buckets, and the owners still to be visited
    owner, todo,        \* the owner it is at, and cards to escalate for him
    told,               \* what each owner was last sent in this streak
    repeats,            \* digests sent again though nothing had changed
    opTold, crTold,     \* escalations of each card in this streak
    doubt,              \* owners told something a lost sweep never noted
    lost, faults        \* sweeps whose state was lost; all faults

world == <<board, alive>>
sweep == <<pc, mem, bucket, pending, owner, todo>>
ghosts == <<told, repeats, opTold, crTold, doubt, lost>>
vars == <<world, disk, sweep, ghosts, faults>>

\* a digest's fingerprint: the ids and the statuses
Contents == SUBSET (Cards \X {"deferred", "in_progress", "blocked"})
OwnerEntries ==
    [count : 0 .. EscalateAfter, last : 0 .. 2,
     fingerprint : Contents, floored : BOOLEAN]
Latches == [escalated : BOOLEAN, creator : BOOLEAN]
Sidecars == [owners : [Owners -> OwnerEntries], cards : [Cards -> Latches]]

\* no entry: never sent, so due, and nothing to be unchanged against
NoEntry == [count |-> 0, last |-> 2, fingerprint |-> {}, floored |-> TRUE]
NoLatch == [escalated |-> FALSE, creator |-> FALSE]
Empty == [owners |-> [o \in Owners |-> NoEntry], cards |-> [i \in Cards |-> NoLatch]]

Nobody == Unassigned
TypeOK ==
    /\ board \in Boards
    /\ alive \subseteq Registered
    /\ disk \in Sidecars /\ mem \in Sidecars
    /\ pc \in {"idle", "pick", "creator", "due", "digest", "operator"}
    /\ bucket \in [Owners -> Contents]
    /\ pending \subseteq Owners /\ owner \in Owners \cup {Nobody}
    /\ todo \subseteq Cards
    /\ told \in [Owners -> [content : Contents, floored : BOOLEAN]]
    /\ repeats \in [Owners -> Nat]
    /\ opTold \in [Cards -> Nat] /\ crTold \in [Cards -> Nat]
    /\ doubt \subseteq Owners
    /\ lost \in 0 .. MaxFaults /\ faults \in 0 .. MaxFaults

Init ==
    /\ board \in FreshBoards
    /\ alive = Registered
    /\ disk = Empty
    /\ pc = "idle" /\ mem = Empty
    /\ bucket = [o \in Owners |-> {}]
    /\ pending = {} /\ owner = Nobody /\ todo = {}
    /\ told = [o \in Owners |-> [content |-> {}, floored |-> TRUE]]
    /\ repeats = [o \in Owners |-> 0]
    /\ opTold = [i \in Cards |-> 0] /\ crTold = [i \in Cards |-> 0]
    /\ doubt = {} /\ lost = 0 /\ faults = 0

Fault == faults < MaxFaults /\ faults' = faults + 1
Goto(l) == pc' = l

-----------------------------------------------------------------------------
(* What a sweep decides.                                                   *)

\* blocked with a blocker, be it "none"
_is_parked(c) == c.status = "blocked" /\ c.blocker # "unset"

\* the cards a digest to o is about
Actionable(o) ==
    {i \in OwnedBy(board, detect_stale_active(board) \cup detect_pending_backlog(board), o) :
        o \in Allowed /\ ~_is_parked(board[i])}

Fingerprint(o) == {<<i, board[i].status>> : i \in Actionable(o)}
Ids(content) == {p[1] : p \in content}

\* _due with resolve_owner_interval: backlog cards do not tighten the cadence
_due(entry, content) ==
    entry.last >= IF \E p \in content : p[2] \notin BACKLOG_STATUSES THEN 1 ELSE 2

\* mutant: the fingerprint holds the counter
suppressCounted(entry, content) ==
    content = entry.fingerprint /\ ~entry.floored /\ entry.count = 0

suppress(entry, content) == content = entry.fingerprint /\ ~entry.floored

\* mutant: the backlog's cards do not count as stale
prunedActive(s) ==
    [owners |-> [o \in Owners |-> IF bucket[o] = {} THEN NoEntry ELSE s.owners[o]],
     cards |-> [i \in Cards |-> IF \E o \in Owners : \E p \in bucket[o] :
                                      p[1] = i /\ p[2] \notin BACKLOG_STATUSES
                                  THEN s.cards[i] ELSE NoLatch]]

\* entries of owners, and latches of cards, that are no longer stale
pruned(s) ==
    [owners |-> [o \in Owners |-> IF bucket[o] = {} THEN NoEntry ELSE s.owners[o]],
     cards |-> [i \in Cards |-> IF \E o \in Owners : i \in Ids(bucket[o])
                                  THEN s.cards[i] ELSE NoLatch]]

-----------------------------------------------------------------------------
(* One sweep.                                                              *)

\* the tasks and the sidecar are read; an unreadable sidecar is taken for empty
StartSweep ==
    /\ pc = "idle" /\ Goto("pick")
    /\ bucket' = [o \in Owners |-> Fingerprint(o)]
    /\ pending' = {o \in Owners : bucket'[o] # {}}
    /\ \/ mem' = disk /\ UNCHANGED <<lost, faults>>
       \/ mem' = Empty /\ Fault /\ lost' = lost + 1
    /\ LET stale == UNION {Ids(bucket'[o]) : o \in Owners}
       IN  /\ opTold' = [i \in Cards |-> IF i \in stale THEN opTold[i] ELSE 0]
           /\ crTold' = [i \in Cards |-> IF i \in stale THEN crTold[i] ELSE 0]
    /\ UNCHANGED <<world, disk, owner, todo, told, repeats, doubt>>

\* the next owner; when he is registered and not alive, the creators come first
Pick(o) ==
    /\ pc = "pick" /\ o \in pending
    /\ pending' = pending \ {o} /\ owner' = o
    /\ LET orphans == {i \in Ids(bucket[o]) : ~mem.cards[i].creator}
       IN  IF o \in Registered \ alive /\ orphans # {}
             THEN Goto("creator") /\ todo' = orphans
             ELSE Goto("due") /\ UNCHANGED todo
    /\ UNCHANGED <<world, disk, mem, bucket, ghosts, faults>>

\* mutant: latches what was not enqueued
EscalateToCreatorBlind(i) ==
    /\ pc = "creator" /\ i \in todo
    /\ todo' = todo \ {i}
    /\ Goto(IF todo' = {} THEN "due" ELSE "creator")
    /\ mem' = [mem EXCEPT !.cards[i].creator = TRUE]
    /\ \/ crTold' = [crTold EXCEPT ![i] = @ + 1] /\ UNCHANGED faults
       \/ Fault /\ UNCHANGED crTold
    /\ UNCHANGED <<world, disk, bucket, pending, owner, told, repeats, opTold, doubt, lost>>

\* to the creator, or to the operator when the creator is not known or is the
\* owner himself; only an enqueue that worked latches
EscalateToCreator(i) ==
    /\ pc = "creator" /\ i \in todo
    /\ todo' = todo \ {i}
    /\ Goto(IF todo' = {} THEN "due" ELSE "creator")
    /\ \/ /\ mem' = [mem EXCEPT !.cards[i].creator = TRUE]
          /\ crTold' = [crTold EXCEPT ![i] = @ + 1]
          /\ UNCHANGED faults
       \/ Fault /\ UNCHANGED <<mem, crTold>>
    /\ UNCHANGED <<world, disk, bucket, pending, owner, told, repeats, opTold, doubt, lost>>

\* what follows the digest: the urgent cards of an owner with enough ticks
AfterDigest(s) ==
    LET urgent == {i \in Ids(bucket[owner]) \cap High : ~s.cards[i].escalated}
    IN  IF s.owners[owner].count >= EscalateAfter /\ urgent # {}
          THEN Goto("operator") /\ todo' = urgent /\ UNCHANGED owner
          ELSE Goto("pick") /\ todo' = {} /\ owner' = Nobody

NotDue ==
    /\ pc = "due" /\ ~_due(mem.owners[owner], bucket[owner])
    /\ Goto("pick") /\ owner' = Nobody
    /\ UNCHANGED <<world, disk, mem, bucket, pending, todo, ghosts, faults>>

\* the tick counts, whether or not anything is sent
ticked(s) ==
    [s EXCEPT !.owners[owner].count = IF @ < EscalateAfter THEN @ + 1 ELSE @,
              !.owners[owner].last = 0]

\* mutant: a suppressed digest does not count as a tick
SuppressTick ==
    /\ pc = "due" /\ _due(mem.owners[owner], bucket[owner])
    /\ suppress(mem.owners[owner], bucket[owner])
    /\ mem' = [mem EXCEPT !.owners[owner].last = 0] /\ AfterDigest(mem')
    /\ UNCHANGED <<world, disk, bucket, pending, ghosts, faults>>

\* nothing new to say: no digest, but the tick counts
Suppress ==
    /\ pc = "due" /\ _due(mem.owners[owner], bucket[owner])
    /\ suppress(mem.owners[owner], bucket[owner])
    /\ mem' = ticked(mem) /\ AfterDigest(mem')
    /\ UNCHANGED <<world, disk, bucket, pending, ghosts, faults>>

\* the digest replaces the one the owner has not seen yet; what was not
\* delivered is not remembered as delivered
Digest ==
    /\ pc = "due" /\ _due(mem.owners[owner], bucket[owner])
    /\ ~suppress(mem.owners[owner], bucket[owner])
    /\ \/ /\ mem' = [ticked(mem) EXCEPT !.owners[owner].fingerprint = bucket[owner],
                                        !.owners[owner].floored = FALSE]
          /\ told' = [told EXCEPT ![owner] = [content |-> bucket[owner], floored |-> FALSE]]
          /\ repeats' = [repeats EXCEPT ![owner] =
                IF told[owner].content = bucket[owner] /\ ~told[owner].floored
                  THEN @ + 1 ELSE @]
          /\ doubt' = doubt \ {owner}
          /\ UNCHANGED faults
       \/ mem' = ticked(mem) /\ Fault /\ UNCHANGED <<told, repeats, doubt>>
    /\ AfterDigest(mem')
    /\ UNCHANGED <<world, disk, bucket, pending, opTold, crTold, lost>>

EscalateToOperator(i) ==
    /\ pc = "operator" /\ i \in todo
    /\ todo' = todo \ {i}
    /\ IF todo' = {} THEN Goto("pick") /\ owner' = Nobody ELSE UNCHANGED <<pc, owner>>
    /\ \/ /\ mem' = [mem EXCEPT !.cards[i].escalated = TRUE]
          /\ opTold' = [opTold EXCEPT ![i] = @ + 1]
          /\ UNCHANGED faults
       \/ Fault /\ UNCHANGED <<mem, opTold>>
    /\ UNCHANGED <<world, disk, bucket, pending, told, repeats, crTold, doubt, lost>>

\* what the sweep knew is gone
Forget ==
    /\ Goto("idle") /\ mem' = Empty /\ owner' = Nobody /\ todo' = {} /\ pending' = {}
    /\ bucket' = [o \in Owners |-> {}]

\* owners whose last digest the sidecar knows nothing of
Untold(s) == {o \in Owners : s.owners[o].fingerprint # {}
                             /\ told[o].content # s.owners[o].fingerprint}

\* pruned and saved; when nobody is stale any more the streak is over
EndSweep ==
    /\ pc = "pick" /\ pending = {}
    /\ disk' = pruned(mem)
    /\ told' = [o \in Owners |-> IF bucket[o] = {}
                                   THEN [content |-> {}, floored |-> TRUE] ELSE told[o]]
    /\ doubt' = {o \in doubt : bucket[o] # {}}
    /\ Forget
    /\ UNCHANGED <<world, repeats, opTold, crTold, lost, faults>>

\* the save fails, which is logged and no more, or the daemon dies
LoseSweep ==
    /\ Fault /\ lost' = lost + 1
    /\ \/ pc = "pick" /\ pending = {}
       \/ pc # "idle"
    /\ doubt' = doubt \cup Untold(disk)
    /\ Forget
    /\ UNCHANGED <<world, disk, told, repeats, opTold, crTold>>

-----------------------------------------------------------------------------
(* The world around it.  A sweep works from its copy of the board: what    *)
(* happens to a card during a sweep is as if it happened right after it.   *)

\* somebody works on a card
Touch(i) ==
    /\ pc = "idle"
    /\ \E c \in StatesOf[i] : board' = [board EXCEPT ![i] = c]
    /\ UNCHANGED <<alive, disk, sweep, ghosts, faults>>

\* nobody does
Idle(i) ==
    /\ pc = "idle" /\ board[i].idle < MaxIdle
    /\ board' = [board EXCEPT ![i].idle = @ + 1]
    /\ UNCHANGED <<alive, disk, sweep, ghosts, faults>>

SeenOrNot(o) ==
    /\ o \in Registered
    /\ alive' = IF o \in alive THEN alive \ {o} ELSE alive \cup {o}
    /\ UNCHANGED <<board, disk, sweep, ghosts, faults>>

\* time passes between sweeps
Wait(o) ==
    /\ pc = "idle" /\ disk.owners[o].last < 2
    /\ disk' = [disk EXCEPT !.owners[o].last = @ + 1]
    /\ UNCHANGED <<world, sweep, ghosts, faults>>

\* the floor of the last digest passes, and with it that of any earlier one
WaitFloor(o) ==
    /\ pc = "idle" /\ ~(disk.owners[o].floored /\ told[o].floored)
    /\ disk' = [disk EXCEPT !.owners[o].floored = TRUE]
    /\ told' = [told EXCEPT ![o].floored = TRUE]
    /\ UNCHANGED <<world, sweep, repeats, opTold, crTold, doubt, lost, faults>>

Sweep ==
    \/ StartSweep \/ NotDue \/ Suppress \/ Digest \/ EndSweep
    \/ \E o \in Owners : Pick(o)
    \/ \E i \in Cards : EscalateToCreator(i) \/ EscalateToOperator(i)

Next ==
    \/ Sweep \/ LoseSweep
    \/ \E i \in Cards : Touch(i) \/ Idle(i)
    \/ \E o \in Owners : SeenOrNot(o) \/ Wait(o) \/ WaitFloor(o)

\* The daemon ticks for ever, and time passes between two ticks.  That a floor
\* passes is not needed: suppressed digests count as well.
Fairness ==
    /\ WF_vars(Sweep)
    /\ \A o \in Owners : SF_vars(Wait(o))

Spec == Init /\ [][Next]_vars /\ Fairness

-----------------------------------------------------------------------------
(* Properties.                                                             *)

\* Within a streak the operator hears of a card once, and so does its creator:
\* a sweep whose state was lost may add one each, never more.
OncePerStreak ==
    \A i \in Cards : opTold[i] <= 1 + lost /\ crTold[i] <= 1 + lost

\* An unchanged digest is not sent again within the floor, whatever happens to
\* the board between two sweeps; each lost sweep may repeat one.
NotRepeated == \A o \in Owners : repeats[o] <= lost

\* A digest is suppressed only when the owner's latest one said just that,
\* unless a lost sweep told him something the sidecar does not know.
SilenceIsInformed ==
    [][Suppress => owner \in doubt \/ told[owner].content = bucket[owner]]_vars

\* Both sides of the suppression: a digest is news to the owner it reaches,
\* and one that is held back would not have been.
DigestIsNews == [][NotRepeated']_vars /\ SilenceIsInformed

Urgent(i) ==
    i \in High /\ \E o \in Owners : i \in Actionable(o)

\* An urgent card that stays untouched reaches the operator, though digests
\* are suppressed, enqueues fail and sweeps are lost; a latch that survived
\* because the sweep that pruned it was lost stands for an earlier streak.
UrgentReachesOperator ==
    \A i \in Cards :
        Urgent(i) ~> \/ opTold[i] > 0 \/ ~Urgent(i)
                     \/ lost > 0 /\ disk.cards[i].escalated

\* The cards of an owner who is gone reach somebody who can act on them.
OrphanReachesCreator ==
    \A i \in Cards, o \in Registered :
        i \in Actionable(o) /\ o \notin alive
            ~> \/ crTold[i] > 0 \/ i \notin Actionable(o) \/ o \in alive
               \/ lost > 0 /\ disk.cards[i].creator

\* Both ways up: to the operator for what is urgent, to the creator for what
\* has no living owner.
EscalationArrives == UrgentReachesOperator /\ OrphanReachesCreator
=============================================================================
