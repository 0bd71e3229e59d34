------------------------------ MODULE PrSweep -------------------------------
(***************************************************************************)
(* Cards close when their pull request merges: `reconcile-merged-prs       *)
(* --apply`, from cron and by hand, `sync-github`, which starts from the   *)
(* merged PRs, and the `done` event of the merge Action.  A sweep loads    *)
(* the store once, asks GitHub about each open card's PR -- gh, then the   *)
(* REST API, else unknown -- and completes the card, comments and emits,   *)
(* each under a lock of its own, while people go on editing.               *)
(* (_reconcile_prs.py, _cli/_sync_github.py, _hooks/_handlers.py)          *)
(*                                                                         *)
(* complete_task and update_task are those of CardLifecycle, cut to the    *)
(* fields of this module.  GitHub is external: a PR is open or merged.     *)
(***************************************************************************)
EXTENDS Naturals, Sequences

CONSTANTS
    Order,     \* the card ids, in the order of the store
    Prs,       \* pull requests a card can be linked to
    NoPr,      \* no pr_url, or one that is not a PR's
    Sweepers,  \* processes that run the sweep
    HasGh,     \* gh is installed on the host
    MaxEdits,  \* edits of people explored
    MaxFaults  \* failed queries and deaths explored

Ids == {Order[n] : n \in DOMAIN Order}

ASSUME OrderAssumption == Order \in Seq(Ids) /\ Order # <<>>
ASSUME NoPrAssumption == NoPr \notin Prs
ASSUME BoundAssumption == HasGh \in BOOLEAN /\ MaxEdits \in Nat /\ MaxFaults \in Nat

VARIABLES
    card,    \* [Ids -> [status, blocker, pr]]
    merged,  \* the PRs that have merged
    sweep,   \* [Sweepers -> [at, rest]]: rest is the snapshot still to visit
    hook,    \* [at, card, pr]: the done event being handled
    todo,    \* what the sync-github under way still means to write
    linked,  \* history: [Ids -> the PRs the card was ever linked to]
    edits, faults

vars == <<card, merged, sweep, hook, todo, linked, edits, faults>>

OPEN_STATUSES == {"in_progress", "blocked"}
Statuses == OPEN_STATUSES \cup {"done", "deferred", "deleted"}
Cards == [status : Statuses, blocker : BOOLEAN, pr : Prs \cup {NoPr}]
Rows == [id : Ids, was : Cards]
Resting == [at |-> "idle", rest |-> <<>>]
NoHook == [at |-> "idle", card |-> Order[1], pr |-> NoPr]

TypeOK ==
    /\ card \in [Ids -> Cards]
    /\ merged \subseteq Prs
    /\ sweep \in [Sweepers -> [at : {"idle", "scan", "close", "announce"}, rest : Seq(Rows)]]
    /\ hook \in [at : {"idle", "stamp", "complete"}, card : Ids, pr : Prs \cup {NoPr}]
    /\ todo \subseteq Prs \X Ids
    /\ linked \in [Ids -> SUBSET Prs]
    /\ edits \in 0..MaxEdits /\ faults \in 0..MaxFaults

Init ==
    /\ card \in [Ids -> {c \in Cards : c.status \in OPEN_STATUSES
                                       /\ c.blocker = (c.status = "blocked")}]
    /\ merged = {}
    /\ sweep = [s \in Sweepers |-> Resting]
    /\ hook = NoHook
    /\ todo = {}
    /\ linked = [i \in Ids |-> {card[i].pr} \ {NoPr}]
    /\ edits = 0 /\ faults = 0

-----------------------------------------------------------------------------

Refused(i) == card[i].status # "done" /\ card[i].blocker
Absent(i) == card[i].status = "deleted"

complete_task(i) == card' = [card EXCEPT ![i].status = "done"]

(* A pass: load_tasks once, then the cards in order.                       *)
Goes(s, at, rest) == sweep' = [sweep EXCEPT ![s] = [at |-> at, rest |-> rest]]
Onward(s) == Goes(s, IF Len(sweep[s].rest) = 1 THEN "idle" ELSE "scan", Tail(sweep[s].rest))
Row(s) == Head(sweep[s].rest)

Load(s) ==
    /\ sweep[s].at = "idle"
    /\ Goes(s, "scan", [n \in DOMAIN Order |-> [id |-> Order[n], was |-> card[Order[n]]]])
    /\ UNCHANGED <<card, merged, hook, todo, linked, edits, faults>>

\* What GitHub may answer: each of the two ways may fail.
Truth(pr) == IF pr \in merged THEN "merged" ELSE "open"
_gh_merge_state(pr) == IF HasGh THEN {Truth(pr), "none"} ELSE {"none"}
_rest_merge_state(pr) == {Truth(pr), "none"}
\* Without gh nothing is known.
GhOnly(pr) ==
    LET gh == _gh_merge_state(pr)
    IN  (gh \ {"none"}) \cup (IF "none" \in gh THEN {"unknown"} ELSE {})

default_merge_state_fn(pr) ==
    LET gh == _gh_merge_state(pr)
        rest == IF "none" \in gh THEN _rest_merge_state(pr) ELSE {}
    IN  ((gh \cup rest) \ {"none"}) \cup (IF "none" \in rest THEN {"unknown"} ELSE {})

Candidate(was) == was.status \in OPEN_STATUSES /\ was.pr # NoPr
\* Anything but an open PR closes the card.
ClosesUnlessOpen(state) == state # "open"

Closes(state) == state = "merged"

Skip(s) ==
    /\ sweep[s].at = "scan" /\ ~Candidate(Row(s).was)
    /\ Onward(s)
    /\ UNCHANGED <<card, merged, hook, todo, linked, edits, faults>>

Decide(s) ==
    /\ sweep[s].at = "scan" /\ Candidate(Row(s).was)
    /\ \E state \in default_merge_state_fn(Row(s).was.pr) :
          /\ faults' = faults + (IF state = "unknown" THEN 1 ELSE 0)
          /\ IF Closes(state) THEN Goes(s, "close", sweep[s].rest) ELSE Onward(s)
    /\ faults' <= MaxFaults
    /\ UNCHANGED <<card, merged, hook, todo, linked, edits>>

\* complete_task of the card as it is now; what it raises ends the pass.
Close(s) ==
    LET i == Row(s).id
    IN  /\ sweep[s].at = "close"
        /\ IF Absent(i) \/ Refused(i)
             THEN Goes(s, "idle", <<>>) /\ UNCHANGED card
             ELSE Goes(s, "announce", sweep[s].rest) /\ complete_task(i)
        /\ UNCHANGED <<merged, hook, todo, linked, edits, faults>>

\* The audit comment and the `merged` event, both best effort
_apply_close(s) ==
    /\ sweep[s].at = "announce"
    /\ Onward(s)
    /\ UNCHANGED <<card, merged, hook, todo, linked, edits, faults>>

Die(s) ==
    /\ sweep[s].at # "idle" /\ faults < MaxFaults
    /\ faults' = faults + 1
    /\ Goes(s, "idle", <<>>)
    /\ UNCHANGED <<card, merged, hook, todo, linked, edits>>

(* The done event of a merged PR, for a card its producer names.           *)
_handle_done(i, pr) ==
    /\ hook.at = "idle" /\ pr \in merged
    /\ ~Absent(i) /\ ~(card[i].status = "done" /\ card[i].pr = pr)
    /\ hook' = [at |-> "stamp", card |-> i, pr |-> pr]
    /\ UNCHANGED <<card, merged, sweep, todo, linked, edits, faults>>

Stamp ==
    /\ hook.at = "stamp"
    /\ IF Absent(hook.card)
         THEN hook' = NoHook /\ UNCHANGED <<card, linked>>
         ELSE /\ hook' = [hook EXCEPT !.at = "complete"]
              /\ card' = [card EXCEPT ![hook.card].pr = hook.pr]
              /\ linked' = [linked EXCEPT ![hook.card] = @ \cup {hook.pr}]
    /\ UNCHANGED <<merged, sweep, todo, edits, faults>>

Complete ==
    /\ hook.at = "complete"
    /\ hook' = NoHook
    /\ IF Absent(hook.card) \/ Refused(hook.card) THEN UNCHANGED card
                                                  ELSE complete_task(hook.card)
    /\ UNCHANGED <<merged, sweep, todo, linked, edits, faults>>

(* sync-github loads the store, lists the merged PRs and completes, for    *)
(* each, the last card with its url in the snapshot, deleted or not.  A PR *)
(* without one gets a done card of its own, which is none of Ids.          *)
by_pr_url(pr) == {n \in DOMAIN Order : card[Order[n]].pr = pr}
LastOf(N) == {Order[n] : n \in {n \in N : \A m \in N : m <= n}}

sync_github_cmd ==
    /\ todo = {}
    /\ todo' = {x \in Prs \X Ids : x[2] \in LastOf(by_pr_url(x[1])) /\ card[x[2]].status # "done"}
    /\ UNCHANGED <<card, merged, sweep, hook, linked, edits, faults>>

\* update_task of the card as it is now
SyncDone(x) ==
    /\ x \in todo /\ x[1] \in merged /\ ~Absent(x[2]) /\ ~Refused(x[2])
    /\ complete_task(x[2])
    /\ todo' = todo \ {x}
    /\ UNCHANGED <<merged, sweep, hook, linked, edits, faults>>

\* gh fails, no merged PR is left, or update_task raises: the card is gone
\* or waits for somebody.
SyncEnds ==
    /\ todo # {} /\ todo' = {}
    /\ UNCHANGED <<card, merged, sweep, hook, linked, edits, faults>>

(* People: GitHub merges, a card is relinked, parked, blocked, reopened or  *)
(* deleted.                                                                 *)
Merge(pr) ==
    /\ pr \notin merged
    /\ merged' = merged \cup {pr}
    /\ UNCHANGED <<card, sweep, hook, todo, linked, edits, faults>>

Edit(i) ==
    /\ edits < MaxEdits /\ ~Absent(i)
    /\ \/ \E pr \in Prs : /\ card' = [card EXCEPT ![i].pr = pr]
                          /\ linked' = [linked EXCEPT ![i] = @ \cup {pr}]
       \/ /\ \E status \in Statuses \ {"done"}, blocker \in BOOLEAN :
                /\ blocker => status = "blocked"
                /\ card' = [card EXCEPT ![i].status = status, ![i].blocker = blocker]
          /\ UNCHANGED linked
    /\ edits' = edits + 1
    /\ UNCHANGED <<merged, sweep, hook, todo, faults>>

-----------------------------------------------------------------------------

Sweep(s) ==
    Load(s) \/ Skip(s) \/ Decide(s) \/ Close(s) \/ _apply_close(s)

Next ==
    \/ \E s \in Sweepers : Sweep(s) \/ Die(s)
    \/ Stamp \/ Complete
    \/ \E i \in Ids : Edit(i) \/ \E pr \in Prs : _handle_done(i, pr)
    \/ sync_github_cmd \/ SyncEnds \/ \E x \in todo : SyncDone(x)
    \/ \E pr \in Prs : Merge(pr)

(* cron starts a pass again and again and lets it run; the event hook and  *)
(* the producer owe nothing.                                               *)
Spec == Init /\ [][Next]_vars /\ \A s \in Sweepers : WF_vars(Sweep(s))

-----------------------------------------------------------------------------

(* A card is completed only when a PR it was linked to has merged: not on  *)
(* a failed query, whatever happened to the card since it was loaded       *)
(* (default_merge_state_fn: "We NEVER wrongly close").                     *)
NeverWronglyClosed ==
    [][\A i \in Ids : card'[i].status = "done" /\ card[i].status # "done"
           => linked[i] \cap merged # {}]_vars

\* A card before i, or i, at which every pass that sees it stops.
Stops(i) ==
    \E m, n \in DOMAIN Order :
        /\ m <= n /\ Order[n] = i
        /\ Refused(Order[m]) /\ card[Order[m]].pr \in merged

(* An open card whose PR has merged is closed, across failed queries,      *)
(* killed passes and passes that a deleted card ended; a card that cannot  *)
(* be completed ends every pass, and excuses the cards after it            *)
(* (reconcile_merged_prs, _apply_close).                                   *)
Overdue(i) == card[i].status \in OPEN_STATUSES /\ card[i].pr \in merged /\ ~Stops(i)
MergedIsClosed == \A i \in Ids : Overdue(i) ~> ~Overdue(i)

=============================================================================
