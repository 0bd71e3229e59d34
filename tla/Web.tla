------------------------------- MODULE Web ------------------------------
(***************************************************************************)
(* The two halves of the board server.  The board's cache and the chat     *)
(* page's sidecar share no state and no lock, so a behaviour of the server *)
(* is one of each side by side; each is explored on its own, with the      *)
(* other at rest in its initial state, rather than every pair of their     *)
(* states.                                                                 *)
(***************************************************************************)
EXTENDS Threads

CONSTANTS Ids, Verbs, Pollers, Others, MaxWrites

VARIABLES half
VARIABLES cards, cache, refresh, call, timeline, removed, writes, seen, returned

Board == INSTANCE BoardCache WITH store <- cards, req <- call

ASSUME BoardAssumption ==
    Ids # {} /\ Verbs \subseteq Board!PostVerbs /\ MaxWrites \in Nat \ {0}

WebInit == half \in {"board", "chat"} /\ Board!Init /\ Init

boardVars == <<cards, cache, refresh, call, timeline, removed, writes, seen, returned>>
webVars == <<half, boardVars, vars>>

OnBoard == half = "board" /\ UNCHANGED <<half, vars>>
OnChat == half = "chat" /\ UNCHANGED <<half, boardVars>>

WebNext ==
    \/ OnBoard /\ Board!Next
    \/ OnChat /\ Next

(* The fairness of the two specifications. *)
WebSpec ==
    /\ WebInit /\ [][WebNext]_webVars
    /\ \A r \in Board!Callers : WF_webVars(OnBoard /\ Board!Poll(r))
    /\ WF_webVars(OnChat /\ Stored)
    /\ \A r \in Requests : WF_webVars(OnChat /\ Poll(r))

(* The properties of the halves; those of the chat page are in Threads. *)
WebTypeOK == TypeOK /\ Board!TypeOK
LinearRead == Board!LinearRead
TimelineCatchesUp == Board!TimelineCatchesUp
=============================================================================
