------------------------------ MODULE TurnPush -------------------------------
(***************************************************************************)
(* Turns pushed to agents: a POST to the agent's turn URL, whose answer    *)
(* comes when the turn is over, or too late.  The operator's nudge button  *)
(* sends one under a cooldown that lives in the board's process; the cron  *)
(* entry `print-stats --notify --nudge-quiet' sends every agent a summary  *)
(* and nudges those with a card in progress that nobody touches.           *)
(* (_push.py, _turn_url.py, handlers/nudge.py, _cli/_stats.py)             *)
(*                                                                         *)
(* The two share the wire and nothing else.  Agents are numbers, the order *)
(* of their names.  Bodies and the dry run are left out; what follows in   *)
(* the cron entry is the sweep of Nudges.                                  *)
(***************************************************************************)
EXTENDS Naturals, FiniteSets, FiniteSetsExt

CONSTANTS
    Agents,
    Cards, Lane,   \* the agent of each card
    Clicks,        \* requests the board's threads serve
    Ticks,         \* processes cron starts
    Configs,       \* where agents may be reached: [Agents -> Addresses]
    Cooldown,      \* COOLDOWN_SECONDS in periods
    Timeout,       \* of a POST, in periods: the default, well below Cooldown
    MaxFaults,
    NoUrl, NoPost

\* What a URL is good for: an agent answers there; nobody does, or nobody
\* can be reached; it is no URL at all.
Urls == {"live", "dead", "malformed"}

\* A user's turn_url, or host and a2a_port; the operator's map; the agent's
\* own environment variable.
Addresses == [turn_url : Urls \cup {NoUrl}, a2a_port : {"live", "dead", NoUrl},
              map : Urls \cup {NoUrl}, env : Urls \cup {NoUrl}]

PushAssumption ==
    /\ Agents \subseteq Nat /\ IsFiniteSet(Agents)
    /\ Lane \in [Cards -> Agents]
    /\ Configs \subseteq [Agents -> Addresses]
    /\ Timeout \in Nat /\ Cooldown \in Nat /\ Timeout < Cooldown
    /\ MaxFaults \in Nat

VARIABLES
    address,   \* the configuration
    post,      \* [Clicks \cup Ticks -> POST under way or NoPost]
    last,      \* _LAST_SENT_AT: periods since, Cooldown when long ago
    nudged,    \* history: the last click whose POST an agent got, and whether
               \* it was answered, or a fault or another click came across it
    card,      \* [Cards -> {"waits", "moves", "rests"}]; in progress, touched lately
    tick,      \* [Ticks -> [at, todo, lanes]]: a cron entry at work
    heard,     \* history: agents nudged since their lane came to rest
    faults

clickVars == <<last, nudged>>
cronVars == <<card, tick, heard>>
vars == <<address, post, clickVars, cronVars, faults>>

Senders == Clicks \cup Ticks
Resting == [at |-> "idle", todo |-> {}, lanes |-> {}]

Posts == [agent : Agents, url : {"live", "dead"}, arrived : BOOLEAN, age : 0 .. Timeout]

TypeOK ==
    /\ address \in Configs
    /\ post \in [Senders -> Posts \cup {NoPost}]
    /\ last \in [Agents -> 0 .. Cooldown]
    /\ nudged \in [Agents -> [since : 0 .. Cooldown, by : Clicks \cup {NoPost},
                              told : {"nothing", "answered", "tangled"}]]
    /\ card \in [Cards -> {"waits", "moves", "rests"}]
    /\ tick \in [Ticks -> [at : {"idle", "notify", "quiet"}, todo : SUBSET Agents,
                           lanes : SUBSET Agents]]
    /\ heard \subseteq Agents
    /\ faults \in 0 .. MaxFaults

Init ==
    /\ address \in Configs
    /\ post = [p \in Senders |-> NoPost]
    /\ last = [a \in Agents |-> Cooldown]
    /\ nudged = [a \in Agents |-> [since |-> Cooldown, by |-> NoPost, told |-> "nothing"]]
    /\ card = [c \in Cards |-> "waits"]
    /\ tick = [t \in Ticks |-> Resting]
    /\ heard = {}
    /\ faults = 0

Fault == faults < MaxFaults /\ faults' = faults + 1

-----------------------------------------------------------------------------
(* Where an agent is reached.                                              *)

Or(url, other) == IF url # NoUrl THEN url ELSE other

user_turn_url(a) == Or(address[a].turn_url, address[a].a2a_port)

\* the environment, when the registry knows no URL or cannot be read
FromEnv(a) == Or(address[a].map, address[a].env)
turn_url_for(a) == Or(user_turn_url(a), FromEnv(a))

-----------------------------------------------------------------------------
(* deliver.                                                                *)

\* The URL it uses, and whether the registry failed it.
Resolves(a, url) ==
    \/ url = turn_url_for(a) /\ UNCHANGED faults
    \/ url = FromEnv(a) /\ Fault

Flies(p, a, url) ==
    post' = [post EXCEPT ![p] = [agent |-> a, url |-> url, arrived |-> FALSE, age |-> 0]]

\* A connection that is refused or reset, or an HTTP error
Fails(p) ==
    \/ post[p].url = "dead" /\ UNCHANGED faults
    \/ post[p].url = "live" /\ Fault

\* Out of time: the turn is being worked on, or the host answers nothing at all.
TimedOut(p) == post[p].arrived \/ post[p].url = "dead"

\* Mutant of _timeout_result: a failure to background callers too.
_timeout_fails(p, ok) == TimedOut(p) /\ ~ok

\* To the callers modelled here it counts as dispatched, a success.
_timeout_result(p, ok) == TimedOut(p) /\ ok

\* What deliver tells its caller.
Answers(p, ok) ==
    \/ ok /\ post[p].arrived /\ UNCHANGED faults
    \/ _timeout_result(p, ok) /\ UNCHANGED faults
    \/ ~ok /\ Fails(p)

-----------------------------------------------------------------------------
(* The button.                                                             *)

InFlight(a) == {k \in Clicks : post[k] # NoPost /\ post[k].agent = a}

\* Within the cooldown the click is answered 429; without a URL, or with one
\* that raises, it is answered at once.
handle_nudge(k, a) ==
    /\ post[k] = NoPost /\ last[a] >= Cooldown
    /\ \E url \in {"live", "dead"} : Resolves(a, url) /\ Flies(k, a, url)
    /\ UNCHANGED <<address, clickVars, cronVars>>

NudgeArrives(k) ==
    /\ post[k] # NoPost /\ post[k].url = "live" /\ ~post[k].arrived
    /\ post' = [post EXCEPT ![k].arrived = TRUE]
    /\ nudged' = [nudged EXCEPT ![post[k].agent] =
                    [since |-> post[k].age, by |-> k,
                     told |-> IF InFlight(post[k].agent) = {k} THEN "nothing" ELSE "tangled"]]
    /\ UNCHANGED <<address, last, cronVars, faults>>

\* The cooldown counts from the click, not from its answer.
NudgeAnswered(k) ==
    /\ post[k] # NoPost
    /\ \E ok \in BOOLEAN :
          LET a == post[k].agent
          IN  /\ Answers(k, ok)
              /\ last' = IF ok THEN [last EXCEPT ![a] = post[k].age] ELSE last
              /\ nudged' = IF nudged[a].by = k /\ nudged[a].told = "nothing"
                           THEN [nudged EXCEPT ![a].told =
                                   IF faults' = faults THEN "answered" ELSE "tangled"]
                           ELSE nudged
    /\ post' = [post EXCEPT ![k] = NoPost]
    /\ UNCHANGED <<address, cronVars>>

Longer(n) == IF n < Cooldown THEN n + 1 ELSE Cooldown

\* A period goes by; no POST lasts longer than its timeout.
Elapse ==
    /\ \A k \in Clicks : post[k] # NoPost => post[k].age < Timeout
    /\ post' = [p \in Senders |-> IF p \in Clicks /\ post[p] # NoPost
                                  THEN [post[p] EXCEPT !.age = @ + 1] ELSE post[p]]
    /\ last' = [a \in Agents |-> Longer(last[a])]
    /\ nudged' = [a \in Agents |-> [nudged[a] EXCEPT !.since = Longer(@)]]
    /\ UNCHANGED <<address, cronVars, faults>>

\* The cooldowns are forgotten, which the module allows.
BoardRestarts ==
    /\ Fault
    /\ post' = [p \in Senders |-> IF p \in Clicks THEN NoPost ELSE post[p]]
    /\ last' = [a \in Agents |-> Cooldown]
    /\ nudged' = [a \in Agents |-> [nudged[a] EXCEPT !.told = "tangled"]]
    /\ UNCHANGED <<address, cronVars>>

Button ==
    \/ \E k \in Clicks, a \in Agents : handle_nudge(k, a)
    \/ \E k \in Clicks : NudgeArrives(k) \/ NudgeAnswered(k)
    \/ Elapse \/ BoardRestarts

-----------------------------------------------------------------------------
(* The cron entry.                                                         *)

AtRest(a) == \E c \in Cards : Lane[c] = a /\ card[c] = "rests"

\* Whoever is nudged has heard it until the lane moves.
Heard(agents) == heard' = {a \in agents : AtRest(a)'}

\* The lock is taken before the store is read; another entry gives up.  Every
\* agent with a card has a row; a lane is quiet by the age its cards have when
\* the nudges are due, so one in progress may have come to rest since.
stats_cmd(t) ==
    /\ \A u \in Ticks : tick[u].at = "idle"
    /\ tick' = [tick EXCEPT ![t] =
                  [at |-> "notify", todo |-> {Lane[c] : c \in Cards},
                   lanes |-> {Lane[c] : c \in {d \in Cards : card[d] # "waits"}}]]
    /\ UNCHANGED <<address, post, clickVars, card, heard, faults>>

\* The next agent of the loop at work; the summaries come in another order.
Upcoming(t) == IF tick[t].at = "notify" THEN tick[t].todo
            ELSE IF tick[t].todo = {} THEN {} ELSE {Min(tick[t].todo)}

Done(t, a) == tick' = [tick EXCEPT ![t].todo = @ \ {a}]
Ends(t) == tick' = [tick EXCEPT ![t] = Resting]

\* deliver without a URL, and with one that urllib rejects: that raises, and
\* ends the entry.
NothingSent(t) ==
    /\ tick[t].at # "idle" /\ post[t] = NoPost
    /\ \E a \in Upcoming(t), url \in {NoUrl, "malformed"} :
          /\ Resolves(a, url)
          /\ IF url = NoUrl THEN Done(t, a) ELSE Ends(t)
    /\ UNCHANGED <<address, post, clickVars, card, heard>>

Push(t) ==
    /\ tick[t].at # "idle" /\ post[t] = NoPost
    /\ \E a \in Upcoming(t), url \in {"live", "dead"} : Resolves(a, url) /\ Flies(t, a, url)
    /\ UNCHANGED <<address, clickVars, cronVars>>

PushArrives(t) ==
    /\ post[t] # NoPost /\ post[t].url = "live" /\ ~post[t].arrived
    /\ post' = [post EXCEPT ![t].arrived = TRUE]
    /\ UNCHANGED <<address, clickVars, card, tick, faults>>
    /\ Heard(heard \cup IF tick[t].at = "quiet" THEN {post[t].agent} ELSE {})

\* Mutant of Pushed: only a success goes on to the next agent.
PushedOrEnds(t) ==
    /\ post[t] # NoPost
    /\ \E ok \in BOOLEAN : Answers(t, ok) /\ IF ok THEN Done(t, post[t].agent) ELSE Ends(t)
    /\ post' = [post EXCEPT ![t] = NoPost]
    /\ UNCHANGED <<address, clickVars, card, heard>>

\* Whatever the answer, on to the next agent.
Pushed(t) ==
    /\ post[t] # NoPost
    /\ \E ok \in BOOLEAN : Answers(t, ok)
    /\ Done(t, post[t].agent)
    /\ post' = [post EXCEPT ![t] = NoPost]
    /\ UNCHANGED <<address, clickVars, card, heard>>

\* From the summaries to the nudges: lanes that are quiet now are among those
\* that were at work.
_emit_quiet_nudges(t) ==
    /\ tick[t].at = "notify" /\ tick[t].todo = {} /\ post[t] = NoPost
    /\ \E quiet \in SUBSET tick[t].lanes :
          /\ {a \in tick[t].lanes : AtRest(a)} \subseteq quiet
          /\ tick' = [tick EXCEPT ![t] = [at |-> "quiet", todo |-> quiet, lanes |-> {}]]
    /\ UNCHANGED <<address, post, clickVars, card, heard, faults>>

EntryEnds(t) ==
    /\ tick[t].at = "quiet" /\ tick[t].todo = {} /\ post[t] = NoPost
    /\ Ends(t)
    /\ UNCHANGED <<address, post, clickVars, card, heard, faults>>

Killed(t) ==
    /\ tick[t].at # "idle" /\ Fault
    /\ Ends(t) /\ post' = [post EXCEPT ![t] = NoPost]
    /\ UNCHANGED <<address, clickVars, card, heard>>

\* A card is started, worked on, left alone, or finished.
CardMoves(c) ==
    /\ card' \in {[card EXCEPT ![c] = s] : s \in {"moves", "waits"} \ {card[c]}}
    /\ Heard(heard)
    /\ UNCHANGED <<address, post, clickVars, tick, faults>>
CardRests(c) ==
    /\ card[c] = "moves" /\ card' = [card EXCEPT ![c] = "rests"]
    /\ Heard(heard)
    /\ UNCHANGED <<address, post, clickVars, tick, faults>>

Entry(t) ==
    \/ NothingSent(t) \/ Push(t) \/ PushArrives(t) \/ Pushed(t)
    \/ _emit_quiet_nudges(t) \/ EntryEnds(t)

Cron ==
    \/ \E t \in Ticks : stats_cmd(t) \/ Entry(t) \/ Killed(t)
    \/ \E c \in Cards : CardMoves(c) \/ CardRests(c)

Next == Button \/ Cron

\* cron starts the entry for ever, a POST ends, and a live agent is reached
Fairness ==
    /\ WF_vars(\E t \in Ticks : stats_cmd(t))
    /\ \A t \in Ticks : WF_vars(Entry(t))

Spec == Init /\ [][Next]_vars /\ Fairness

-----------------------------------------------------------------------------
(* Properties.                                                             *)

\* An agent that got a nudge is not nudged again within the cooldown, even if
\* the caller only ran out of time, unless its connection broke, two clicks
\* were under way at once or the board was restarted (nudge.py).
NudgedOnce ==
    [][\A k \in Clicks, a \in Agents :
          handle_nudge(k, a) /\ nudged[a].told = "answered" => nudged[a].since >= Cooldown]_vars

\* A malformed URL of anybody ends the entry for all.
Reachable(a) ==
    /\ turn_url_for(a) = "live"
    /\ \A c \in Cards : turn_url_for(Lane[c]) # "malformed"

\* An agent with a card that rests is nudged, however many other cards it has
\* that move, and whoever cannot be reached before it, unless the lane moves
\* (_emit_quiet_nudges, "quietly stall on 1 while the others mask it").
QuietAreNudged ==
    \A a \in Agents : AtRest(a) /\ Reachable(a) ~> a \in heard \/ ~AtRest(a)

\* Neither too often nor never.
PushesKeepPace == NudgedOnce /\ QuietAreNudged
=============================================================================
