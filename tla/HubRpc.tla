------------------------------- MODULE HubRpc -------------------------------
(***************************************************************************)
(* The remote hub: every backend verb of a remote agent is one POST to     *)
(* `scitex-cards serve`, authenticated by a bearer token that both sides   *)
(* read again for each call, attributed to the agent by what the client    *)
(* puts in the body, and never retried.  The client waits 60 s; the        *)
(* handler thread does not know.  Stopping the hub ends its threads        *)
(* between any two steps.                                                  *)
(* (_backend.py, _backend_http.py, _server.py, _cli/_hub.py)               *)
(*                                                                         *)
(* One remote host.  A verb is what this layer tells apart: its effect on  *)
(* the store is one locked step, that of StoreTxn.                         *)
(***************************************************************************)
EXTENDS Naturals

CONSTANTS
    Calls,      \* calls of verbs made on the remote host
    Agents,     \* agents of that host
    Hub,        \* the identity in the environment of the hub
    Nobody,     \* no author recorded
    MaxTokens,  \* tokens minted for the host
    MaxFaults   \* stops of the hub explored

VARIABLES
    minted,  \* the token in the hub's tokens directory
    file,    \* the token in the host's hub.token; 0 while it has none
    held,    \* the token resolved by the last backend instance; 0 for none
    up,      \* the hub serves
    call,    \* [Calls -> [at, agent, verb, token, by, out]]
    server,  \* [Calls -> stage of the handler thread]
    done,    \* [Calls -> times the verb took effect]
    author,  \* [Calls -> to whom the effect is attributed]
    fresh,   \* history: the calls whose token was and stayed the hub's
    faults

vars == <<minted, file, held, up, call, server, done, author, fresh, faults>>

\* A verb that records its actor, one that records none, an unknown one.
Verbs == {"comment_task", "delete_task", "unknown"}
_IDENTITY_KWARG == {"comment_task"}
Outcomes == {"ok", "no_token", "unauthorized", "refused", "lost"}
Stages == {"none", "request", "run", "ok", "unauthorized", "refused", "over"}

NoCall == [at |-> "idle", agent |-> Nobody, verb |-> "unknown", token |-> 0, by |-> Nobody,
           out |-> "none"]

TypeOK ==
    /\ minted \in 1..MaxTokens /\ file \in 0..MaxTokens /\ held \in 0..MaxTokens
    /\ up \in BOOLEAN
    /\ \A k \in Calls :
          /\ call[k].at \in {"idle", "waiting", "returned"}
          /\ call[k].verb \in Verbs /\ call[k].token \in 0..MaxTokens
          /\ call[k].agent \in Agents \cup {Nobody} /\ call[k].by \in Agents \cup {Nobody}
          /\ call[k].out \in Outcomes \cup {"none"}
    /\ server \in [Calls -> Stages]
    /\ done \in [Calls -> 0..2]
    /\ author \in [Calls -> Agents \cup {Hub, Nobody}]
    /\ fresh \subseteq Calls
    /\ faults \in 0..MaxFaults

Init ==
    /\ minted = 1 /\ file \in {0, 1} /\ held = 0
    /\ up = TRUE
    /\ call = [k \in Calls |-> NoCall]
    /\ server = [k \in Calls |-> "none"]
    /\ done = [k \in Calls |-> 0]
    /\ author = [k \in Calls |-> Nobody]
    /\ fresh = {} /\ faults = 0

-----------------------------------------------------------------------------

(* The client.  get_backend gives a new instance, which has no token yet.  *)
get_backend == 0

_resolve_token == IF get_backend # 0 THEN get_backend ELSE file

NoIdentity(verb, agent) == Nobody  \* with a bug: the hub's environment decides
_identity(verb, agent) == IF verb \in _IDENTITY_KWARG THEN agent ELSE Nobody

_call(k, agent, verb) ==
    /\ call[k].at = "idle"
    /\ call' = [call EXCEPT ![k] =
          [at |-> IF _resolve_token = 0 THEN "returned" ELSE "waiting",
           agent |-> agent, verb |-> verb, token |-> _resolve_token, by |-> _identity(verb, agent),
           out |-> IF _resolve_token = 0 THEN "no_token" ELSE "none"]]
    /\ held' = _resolve_token
    /\ server' = [server EXCEPT ![k] = IF _resolve_token = 0 THEN "over" ELSE "request"]
    /\ fresh' = fresh \cup {j \in {k} : file = minted}
    /\ UNCHANGED <<minted, file, up, done, author, faults>>

Returns(k, out) == call' = [call EXCEPT ![k].at = "returned", ![k].out = out]

\* The wait is over, or there is no connection, or it broke: an error, and
\* the request goes on or not.
GivesUp(k) ==
    /\ call[k].at = "waiting"
    /\ Returns(k, "lost")
    /\ UNCHANGED <<minted, file, held, up, server, done, author, fresh, faults>>

(* The hub: one thread for each request.                                   *)
_authorized(k) == call[k].token = minted

do_POST(k) ==
    /\ up /\ server[k] = "request"
    /\ server' = [server EXCEPT ![k] =
          IF ~_authorized(k) THEN "unauthorized"
          ELSE IF call[k].verb = "unknown" THEN "refused" ELSE "run"]
    /\ UNCHANGED <<minted, file, held, up, call, done, author, fresh, faults>>

\* The verb takes the actor it is given, else the one of its environment.
ActsAs(k) == IF call[k].by # Nobody THEN call[k].by ELSE Hub

Runs(k) ==
    /\ up /\ server[k] = "run"
    /\ server' = [server EXCEPT ![k] = "ok"]
    /\ done' = [done EXCEPT ![k] = @ + 1]
    /\ author' = [author EXCEPT
          ![k] = IF call[k].verb \in _IDENTITY_KWARG THEN ActsAs(k) ELSE Nobody]
    /\ UNCHANGED <<minted, file, held, up, call, fresh, faults>>

\* The verb raises: not found, not valid, a lock that cannot be had.
Raises(k) ==
    /\ up /\ server[k] = "run"
    /\ server' = [server EXCEPT ![k] = "refused"]
    /\ UNCHANGED <<minted, file, held, up, call, done, author, fresh, faults>>

\* An answer to a client that has given up goes nowhere.
_send_json(k) ==
    /\ up /\ server[k] \in {"ok", "unauthorized", "refused"}
    /\ server' = [server EXCEPT ![k] = "over"]
    /\ IF call[k].at = "waiting" THEN Returns(k, server[k]) ELSE UNCHANGED call
    /\ UNCHANGED <<minted, file, held, up, done, author, fresh, faults>>

\* Stopped or dead: the handler threads go with it.
Stop ==
    /\ up /\ faults < MaxFaults
    /\ up' = FALSE /\ faults' = faults + 1
    /\ server' = [k \in Calls |-> IF server[k] \in {"none", "request"} THEN server[k] ELSE "over"]
    /\ UNCHANGED <<minted, file, held, call, done, author, fresh>>

\* make_server mints a token only if there is none.
make_server ==
    /\ ~up /\ up' = TRUE
    /\ UNCHANGED <<minted, file, held, call, server, done, author, fresh, faults>>

\* A request that never arrives: no connection, the tunnel down.
Drops(k) ==
    /\ server[k] = "request"
    /\ server' = [server EXCEPT ![k] = "over"]
    /\ UNCHANGED <<minted, file, held, up, call, done, author, fresh, faults>>

(* hub provision: the token is overwritten on the hub, then copied; the    *)
(* copy may fail, and is made again by the next provision.                 *)
mint_token ==
    /\ minted < MaxTokens
    /\ minted' = minted + 1
    /\ fresh' = {k \in fresh : server[k] # "request"}
    /\ UNCHANGED <<file, held, up, call, server, done, author, faults>>

CopyToken ==
    /\ file # minted
    /\ file' = minted
    /\ UNCHANGED <<minted, held, up, call, server, done, author, fresh, faults>>

Next ==
    \/ \E k \in Calls :
          \/ \E agent \in Agents, verb \in Verbs : _call(k, agent, verb)
          \/ GivesUp(k) \/ Drops(k)
          \/ do_POST(k) \/ Runs(k) \/ Raises(k) \/ _send_json(k)
    \/ Stop \/ make_server \/ mint_token \/ CopyToken

Spec == Init /\ [][Next]_vars

-----------------------------------------------------------------------------

(* What a caller is told is true of the hub's store: "ok" means that its   *)
(* verb took effect once, a refusal that it did not and will not; a lost   *)
(* call may have, but never twice; and an effect that names its actor      *)
(* names the agent that called (HubBackend._call, RpcHandler.do_POST).     *)
OutcomeIsTrue ==
    \A k \in Calls :
        /\ done[k] <= 1
        /\ call[k].out = "ok" => done[k] = 1
        /\ call[k].out \in {"no_token", "unauthorized", "refused"} =>
              done[k] = 0 /\ server[k] = "over"
        /\ done[k] = 1 /\ call[k].verb \in _IDENTITY_KWARG => author[k] = call[k].agent

(* A call made with the token the hub has, and not overtaken by another    *)
(* mint, is not unauthorized: after a rotation and its copy neither side   *)
(* has to be restarted (get_backend, _load_tokens).                        *)
RotationHeals ==
    \A k \in fresh : call[k].out # "unauthorized" /\ server[k] # "unauthorized"

(* What the client is answered is so, of its verb and of its token.        *)
AnswersAreTrue == OutcomeIsTrue /\ RotationHeals
=============================================================================
