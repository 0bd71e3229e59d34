---------------------------- MODULE WakeWatcher -----------------------------
(***************************************************************************)
(* `watch --push`: a polling loop, one per host by a lock file, that       *)
(* diffs the store against the snapshot of its previous tick and posts a   *)
(* wake to the owner and the subscribers of each card that was added,      *)
(* commented on or moved.  (_wake_watcher.py)                              *)
(*                                                                         *)
(* A tick is gated by the mtime of the identity file, which a card verb    *)
(* does not touch and a heartbeat of a registered actor does.  Agents'     *)
(* servers are external: a POST arrives or fails.  The people of a card    *)
(* do not change.                                                          *)
(***************************************************************************)
EXTENDS Naturals, Sequences, SequencesExt

CONSTANTS
    Ids, Agents,
    Recipients,  \* [Ids -> the owner and the subscribers of the card]
    Watchers,    \* processes that run `watch --push`
    Nobody,      \* no holder of the lock file
    MaxChanges,  \* changes of each card explored
    MaxTouches   \* writes of the identity file explored

VARIABLES
    version,  \* [Ids -> changes so far; 0 before the card is added]
    mtime,    \* of the identity file
    lock,     \* who holds the lock file
    watch,    \* [Watchers -> [at, seeded, snapshot, stat, last, wakes]]
    cooling,  \* [Watchers -> agents woken within the debounce interval]
    told      \* history: [Agents -> [Ids -> version of the card last posted]]

vars == <<version, mtime, lock, watch, cooling, told>>

Unseen == [i \in Ids |-> 0]
NoLoop == [at |-> "off", seeded |-> FALSE, snapshot |-> Unseen,
           stat |-> 0, last |-> 0, wakes |-> <<>>]
Wakes == [agent : Agents, card : Ids, version : 1..MaxChanges]

TypeOK ==
    /\ version \in [Ids -> 0..MaxChanges] /\ mtime \in 1..MaxTouches + 1
    /\ lock \in Watchers \cup {Nobody}
    /\ \A w \in Watchers :
          /\ watch[w].at \in {"off", "tick", "load", "post"}
          /\ watch[w].snapshot \in [Ids -> 0..MaxChanges]
          /\ watch[w].wakes \in Seq(Wakes)
    /\ cooling \in [Watchers -> SUBSET Agents]
    /\ told \in [Agents -> [Ids -> 0..MaxChanges]]

Init ==
    /\ version \in [Ids -> {0, 1}] /\ mtime = 1
    /\ lock = Nobody
    /\ watch = [w \in Watchers |-> NoLoop]
    /\ cooling = [w \in Watchers |-> {}]
    /\ told = [g \in Agents |-> Unseen]

-----------------------------------------------------------------------------

AcquireAnyway(w) == lock' = w  \* with a bug: nobody is refused

(* run_watcher_forever: refused while another process holds the lock.      *)
acquire_single_instance_lock(w) ==
    /\ lock = Nobody
    /\ lock' = w

run_watcher_forever(w) ==
    /\ watch[w].at = "off"
    /\ acquire_single_instance_lock(w)
    /\ watch' = [watch EXCEPT ![w] = [NoLoop EXCEPT !.at = "tick"]]
    /\ cooling' = [cooling EXCEPT ![w] = {}]
    /\ UNCHANGED <<version, mtime, told>>

\* The loop ends or the process dies; the kernel frees the lock.
Leave(w) ==
    /\ watch[w].at # "off"
    /\ watch' = [watch EXCEPT ![w] = NoLoop]
    /\ lock' = IF lock = w THEN Nobody ELSE lock
    /\ UNCHANGED <<version, mtime, cooling, told>>

(* A tick: stat, and the load and the diff if the mtime has moved.         *)
Stat(w) ==
    /\ watch[w].at = "tick"
    /\ ~(watch[w].seeded /\ mtime = watch[w].last)
    /\ watch' = [watch EXCEPT ![w].at = "load", ![w].stat = mtime]
    /\ UNCHANGED <<version, mtime, lock, cooling, told>>

\* A store that does not load is tried again at the next tick.
LoadFails(w) ==
    /\ watch[w].at = "load"
    /\ watch' = [watch EXCEPT ![w].at = "tick"]
    /\ UNCHANGED <<version, mtime, lock, cooling, told>>

Changed(w) == {i \in Ids : version[i] > watch[w].snapshot[i]}

\* One wake for each agent that is not cooling, of one of its cards.
detect_changes(w) ==
    LET due == {g \in Agents \ cooling[w] : \E i \in Changed(w) : g \in Recipients[i]}
    IN  IF watch[w].seeded
          THEN {[g \in due |-> [agent |-> g, card |-> pick[g], version |-> version[pick[g]]]]
                  : pick \in {f \in [due -> Changed(w)] : \A g \in due : g \in Recipients[f[g]]}}
          ELSE {<<>>}

run_watcher_once(w) ==
    /\ watch[w].at = "load"
    /\ \E wake \in detect_changes(w) :
          /\ watch' = [watch EXCEPT ![w] =
                [@ EXCEPT !.at = "post", !.seeded = TRUE, !.snapshot = version,
                          !.last = watch[w].stat, !.wakes = SetToSeq({wake[g] : g \in DOMAIN wake})]]
          /\ cooling' = [cooling EXCEPT ![w] = @ \cup DOMAIN wake]
    /\ UNCHANGED <<version, mtime, lock, told>>

Wake(w) == Head(watch[w].wakes)

post_wake(w) ==
    /\ watch[w].at = "post" /\ watch[w].wakes # <<>>
    /\ watch' = [watch EXCEPT ![w].wakes = Tail(@)]
    /\ told' = [told EXCEPT ![Wake(w).agent][Wake(w).card] = Wake(w).version]
    /\ UNCHANGED <<version, mtime, lock, cooling>>

\* An unknown port or a POST that fails is logged, and never tried again.
NotPosted(w) ==
    /\ watch[w].at = "post" /\ watch[w].wakes # <<>>
    /\ watch' = [watch EXCEPT ![w].wakes = Tail(@)]
    /\ UNCHANGED <<version, mtime, lock, cooling, told>>

Sleep(w) ==
    /\ watch[w].at = "post" /\ watch[w].wakes = <<>>
    /\ watch' = [watch EXCEPT ![w].at = "tick"]
    /\ UNCHANGED <<version, mtime, lock, cooling, told>>

(* min_wake_interval_s passes.                                             *)
Cool(w, g) ==
    /\ g \in cooling[w]
    /\ cooling' = [cooling EXCEPT ![w] = @ \ {g}]
    /\ UNCHANGED <<version, mtime, lock, watch, told>>

(* A verb adds a card, comments on it or moves it.                         *)
Change(i) ==
    /\ version[i] < MaxChanges
    /\ version' = [version EXCEPT ![i] = @ + 1]
    /\ UNCHANGED <<mtime, lock, watch, cooling, told>>

\* A heartbeat, a registration or an export writes the identity file.
Touch ==
    /\ mtime <= MaxTouches
    /\ mtime' = mtime + 1
    /\ UNCHANGED <<version, lock, watch, cooling, told>>

Next ==
    \/ \E w \in Watchers :
          \/ run_watcher_forever(w) \/ Leave(w) \/ Stat(w) \/ LoadFails(w)
          \/ run_watcher_once(w) \/ post_wake(w) \/ NotPosted(w) \/ Sleep(w)
          \/ \E g \in Agents : Cool(w, g)
    \/ \E i \in Ids : Change(i)
    \/ Touch

Spec == Init /\ [][Next]_vars

-----------------------------------------------------------------------------

(* An agent is woken at most once for a change: whatever starts, ends or   *)
(* restarts the loop, each wake that arrives tells of a change newer than  *)
(* the last one it was woken for on that card (run_watcher_forever).       *)
WokenOnce ==
    [][\A w \in Watchers : post_wake(w)
          => Wake(w).version > told[Wake(w).agent][Wake(w).card]]_vars
=============================================================================
