------------------------------ MODULE GitEvents ------------------------------
(***************************************************************************)
(* Commits and pushes on the cards they name.  A git hook asks for the     *)
(* card of its branch, or of a Card: trailer, and pipes a push event to    *)
(* `hook push'; other producers post theirs to /hooks/push and may name    *)
(* several cards, and repeat themselves.  The handler leaves one comment   *)
(* per card and commit, recognised by the sha in its text, and emits       *)
(* `committed' or `pushed' for a new one.  (_git_link.py, _hooks)          *)
(*                                                                         *)
(* The comment is comment_task of CardPeople, the emitted event goes its   *)
(* way there.  A card is deleted and restored as in CardLifecycle.         *)
(***************************************************************************)
EXTENDS Naturals, Sequences, FiniteSets

CONSTANTS
    Ids,       \* cards
    Shas,      \* commits
    Hooks,     \* processes that handle an event
    Nothing,   \* no card, no field
    MaxFaults  \* deaths and failed writes explored

ASSUME NothingAssumption == Nothing \notin Ids \cup Shas
ASSUME HookAssumption == IsFiniteSet(Hooks)
ASSUME FaultAssumption == MaxFaults \in Nat

VARIABLES
    fate,      \* [Ids -> {"there", "deleted", "restored"}]; one is deleted, once
    named,     \* [Shas -> [branch, trailers]]: how the commit names a card
    comments,  \* [Ids -> [Shas -> Nat]]: push comments
    quoted,    \* <<card, sha>> that a comment of somebody else mentions
    emitted,   \* [Ids -> [Shas -> Nat]]: committed and pushed events
    run,       \* [Hooks -> [at, sha, rest]]: the event a process handles
    blind,     \* history: <<card, sha>> a look could not find what is there
    settled,   \* history: <<card, sha>> handled while the card was there
    faults

vars == <<fate, named, comments, quoted, emitted, run, blind, settled, faults>>
world == <<fate, named, quoted>>

\* What may follow <type>/: a slug with a hyphen is a card id.
Branches == [type : {"feat", "other"}, slug : Ids \cup {"wip"}]
CommitNames == [branch : Branches, trailers : {<<>>} \cup {<<i>> : i \in Ids} \cup Ids \X Ids]
Triggers == {"commit", "push", "absent"}
Links == Ids \X Shas
Resting == [at |-> "idle", sha |-> Nothing, rest |-> <<>>]

TypeOK ==
    /\ fate \in [Ids -> {"there", "deleted", "restored"}] /\ named \in [Shas -> CommitNames]
    /\ comments \in [Ids -> [Shas -> Nat]] /\ emitted \in [Ids -> [Shas -> Nat]]
    /\ quoted \subseteq Links /\ blind \subseteq Links /\ settled \subseteq Links
    /\ run \in [Hooks -> [at : {"idle", "check", "append", "emit"},
                          sha : Shas \cup {Nothing}, rest : Seq(Ids)]]
    /\ faults \in 0..MaxFaults

Found == {i \in Ids : fate[i] # "deleted"}
None == [i \in Ids |-> [s \in Shas |-> 0]]

Init ==
    /\ fate = [i \in Ids |-> "there"] /\ named \in [Shas -> CommitNames]
    /\ comments = None /\ emitted = None
    /\ quoted \in SUBSET Links /\ blind = {} /\ settled = {}
    /\ run = [h \in Hooks |-> Resting]
    /\ faults = 0

-----------------------------------------------------------------------------
(* Which card a commit is about.                                           *)

extract_card_id(branch) ==
    IF branch.type = "feat" /\ branch.slug \in Ids THEN branch.slug ELSE Nothing

\* the last trailer of its kind
extract_card_id_from_message(trailers) ==
    IF trailers = <<>> THEN Nothing ELSE trailers[Len(trailers)]

resolve_card_id(n) ==
    LET branch == extract_card_id(n.branch)
    IN  IF branch # Nothing THEN branch ELSE extract_card_id_from_message(n.trailers)

(* What a producer may send: a card list that is no list of ids, or a      *)
(* missing sha, is refused.  The trigger only picks the words, `committed' *)
(* or `pushed'; a missing one is a push.                                   *)
Payloads ==
    [kind : {"push", "done"}, sha : Shas \cup {Nothing}, trigger : Triggers,
     card_ids : {<<>>, <<Nothing>>} \cup {<<i>> : i \in Ids} \cup Ids \X Ids]

event_validate(p) == p.sha # Nothing /\ \A n \in DOMAIN p.card_ids : p.card_ids[n] \in Ids

\* The endpoint and the verb bind the kind.
_parse_event(p) == p.kind = "push" /\ event_validate(p)

\* Nothing is emitted for a commit without a card.
build_push_event(s, trigger) ==
    {[kind |-> "push", sha |-> s, trigger |-> trigger, card_ids |-> <<i>>] :
        i \in {resolve_card_id(named[s])} \ {Nothing}}

-----------------------------------------------------------------------------
(* The handler: dispatch_event calls it for the cards in order.            *)

Card(h) == Head(run[h].rest)
Link(h) == <<Card(h), run[h].sha>>
Goes(h, at) == run' = [run EXCEPT ![h].at = at]
Fault == faults < MaxFaults /\ faults' = faults + 1

\* On to the next card; a card that is there has been dealt with.
Onward(h) ==
    /\ run' = [run EXCEPT ![h] =
                  IF Len(run[h].rest) = 1 THEN Resting
                  ELSE [at |-> "check", sha |-> run[h].sha, rest |-> Tail(run[h].rest)]]
    /\ settled' = IF Card(h) \in Found THEN settled \cup {Link(h)} ELSE settled

dispatch_event(h, p) ==
    /\ run[h].at = "idle" /\ _parse_event(p)
    /\ p.card_ids # <<>>
    /\ run' = [run EXCEPT ![h] = [at |-> "check", sha |-> p.sha, rest |-> p.card_ids]]
    /\ UNCHANGED <<world, comments, emitted, blind, settled, faults>>

\* `hook push' of the commit hook and of the push hook
GitHook(h) ==
    \E s \in Shas, trigger \in {"commit", "push"} :
        \E p \in build_push_event(s, trigger) : dispatch_event(h, p)

hook_push_view(h) == \E p \in Payloads : dispatch_event(h, p)

\* mutant: the sha is looked for on any card
RecordedSomewhere(i, s) == \E j \in Found : comments[j][s] > 0 \/ <<j, s>> \in quoted
\* any comment that has the sha in its text; a card that is not there has none
_push_already_recorded(i, s) == i \in Found /\ (comments[i][s] > 0 \/ <<i, s>> \in quoted)

AlreadyRecorded(h) ==
    /\ run[h].at = "check" /\ _push_already_recorded(Card(h), run[h].sha)
    /\ Onward(h)
    /\ UNCHANGED <<world, comments, emitted, blind, faults>>

NotRecorded(h) ==
    /\ run[h].at = "check" /\ ~_push_already_recorded(Card(h), run[h].sha)
    /\ Goes(h, "append")
    /\ blind' = IF Card(h) \notin Found \/ \E g \in Hooks \ {h} :
                                run[g].at = "append" /\ Link(g) = Link(h)
                THEN blind \cup {Link(h)} ELSE blind
    /\ UNCHANGED <<world, comments, emitted, settled, faults>>

CardNotFound(h) ==
    /\ run[h].at = "append" /\ Card(h) \notin Found
    /\ Onward(h)
    /\ UNCHANGED <<world, comments, emitted, blind, faults>>

AppendComment(h) ==
    /\ run[h].at = "append" /\ Card(h) \in Found
    /\ comments' = [comments EXCEPT ![Card(h)][run[h].sha] = @ + 1]
    /\ Goes(h, "emit")
    /\ UNCHANGED <<world, emitted, blind, settled, faults>>

\* emit never raises; what it lost is not sent again
_emit_git_event(h) ==
    /\ run[h].at = "emit"
    /\ \/ /\ emitted' = [emitted EXCEPT ![Card(h)][run[h].sha] = @ + 1]
          /\ UNCHANGED faults
       \/ Fault /\ UNCHANGED emitted
    /\ Onward(h)
    /\ UNCHANGED <<world, comments, blind>>

\* The store cannot be read or written, or the process dies: the cards left
\* are not visited.
Fails(h) ==
    /\ run[h].at # "idle" /\ Fault
    /\ run' = [run EXCEPT ![h] = Resting]
    /\ UNCHANGED <<world, comments, emitted, blind, settled>>

(* Others *)
delete_task(i) ==
    /\ \A j \in Ids : fate[j] = "there"
    /\ fate' = [fate EXCEPT ![i] = "deleted"]
    /\ UNCHANGED <<named, comments, quoted, emitted, run, blind, settled, faults>>

restore_task(i) ==
    /\ fate[i] = "deleted" /\ fate' = [fate EXCEPT ![i] = "restored"]
    /\ UNCHANGED <<named, comments, quoted, emitted, run, blind, settled, faults>>

-----------------------------------------------------------------------------

Hook(h) ==
    \/ GitHook(h) \/ hook_push_view(h)
    \/ AlreadyRecorded(h) \/ NotRecorded(h) \/ CardNotFound(h)
    \/ AppendComment(h) \/ _emit_git_event(h) \/ Fails(h)

Next ==
    \/ \E h \in Hooks : Hook(h)
    \/ \E i \in Ids : delete_task(i) \/ restore_task(i)

Spec == Init /\ [][Next]_vars

-----------------------------------------------------------------------------

(* Commit hook, push hook and repeated posts leave one comment and one     *)
(* event per card and commit ("a re-link never re-emits"), unless one      *)
(* handler looked while another was about to write, or while the card was  *)
(* deleted (a deleted card shows no comments); no event is without its     *)
(* comment.  And a card that was there when its handler was done with it   *)
(* mentions the commit, whatever is deleted, restored and said about it    *)
(* (_handle_push).                                                         *)
LinkedOnce ==
    \A i \in Ids, s \in Shas :
        /\ emitted[i][s] <= comments[i][s]
        /\ comments[i][s] > 1 => <<i, s>> \in blind
        /\ <<i, s>> \in settled => comments[i][s] > 0 \/ <<i, s>> \in quoted
=============================================================================
