---------------------------- MODULE HookPlugins -----------------------------
(***************************************************************************)
(* The last step of dispatch_event: the entry-point plugins of the hook    *)
(* bus are loaded, sorted by (priority, name) and called one after the     *)
(* other with the one event dict.  Each call runs in a daemon thread that  *)
(* the dispatcher joins for a bounded time and then abandons; the thread   *)
(* cannot be killed.  A critical handler that raises or times out ends the *)
(* chain.  A budget <= 0 calls the handlers inline.  (_hooks/_plugins.py)  *)
(*                                                                         *)
(* Handlers are external: each writes its field of the event before it     *)
(* returns, may raise at any point, and may hang.                          *)
(***************************************************************************)
EXTENDS Naturals, Sequences, FiniteSets

CONSTANTS
    Names,      \* entry points, as numbers: the tie-break is by name
    Priorities  \* priorities a handler may declare (lower runs earlier)

VARIABLES
    priority,  \* [Names -> Priorities]
    critical,  \* handlers that declare critical = True
    bounded,   \* the wall-time budget is positive
    chain,     \* handlers still to call, in order
    main,      \* [at, fn]: the dispatching thread and the handler it is at
    worker,    \* [Names -> what became of the handler's call]
    event,     \* the handlers whose field is in the event dict
    saw        \* history: [Names -> the event as the handler found it]

vars == <<priority, critical, bounded, chain, main, worker, event, saw>>

Ends == {"returned", "raised"}
Nobody == 0

TypeOK ==
    /\ priority \in [Names -> Priorities] /\ critical \subseteq Names
    /\ bounded \in BOOLEAN
    /\ chain \in Seq(Names)
    /\ main.at \in {"load", "call", "join", "done", "aborted"}
    /\ main.fn \in Names \cup {Nobody}
    /\ worker \in [Names -> {"none", "running"} \cup Ends]
    /\ event \subseteq Names
    /\ saw \in [Names -> SUBSET Names]

Init ==
    /\ priority \in [Names -> Priorities] /\ critical \in SUBSET Names
    /\ bounded \in BOOLEAN
    /\ chain = <<>>
    /\ main = [at |-> "load", fn |-> Nobody]
    /\ worker = [n \in Names |-> "none"]
    /\ event = {}
    /\ saw = [n \in Names |-> {}]

-----------------------------------------------------------------------------

Earlier(m, n) == priority[m] < priority[n] \/ (priority[m] = priority[n] /\ m < n)

At(at, fn) == main' = [at |-> at, fn |-> fn]

Sorted(handlers) == \A i, j \in DOMAIN handlers : i < j => Earlier(handlers[i], handlers[j])

\* A plugin that does not load is left out, whatever it would have declared.
Discover ==
    /\ main.at = "load"
    /\ \E loaded \in SUBSET Names :
          \E handlers \in [1..Cardinality(loaded) -> loaded] :
              Sorted(handlers) /\ chain' = handlers
    /\ At("call", Nobody)
    /\ UNCHANGED <<priority, critical, bounded, worker, event, saw>>

Call ==
    /\ main.at = "call" /\ chain # <<>>
    /\ LET fn == Head(chain)
       IN  /\ At("join", fn)
           /\ worker' = [worker EXCEPT ![fn] = "running"]
           /\ saw' = [saw EXCEPT ![fn] = event]
    /\ chain' = Tail(chain)
    /\ UNCHANGED <<priority, critical, bounded, event>>

NoneLeft ==
    /\ main.at = "call" /\ chain = <<>>
    /\ At("done", Nobody)
    /\ UNCHANGED <<priority, critical, bounded, chain, worker, event, saw>>

\* A raise, or a worker that is still alive: recorded, and if the handler is
\* critical the chain ends.
Fails(fn) == IF fn \in critical THEN At("aborted", Nobody) ELSE At("call", Nobody)

Join ==
    /\ main.at = "join"
    /\ \/ worker[main.fn] = "returned" /\ At("call", Nobody)
       \/ worker[main.fn] = "raised" /\ Fails(main.fn)
    /\ UNCHANGED <<priority, critical, bounded, chain, worker, event, saw>>

\* A timeout is recorded and never ends the chain.
TimesOutQuietly ==
    /\ main.at = "join" /\ bounded
    /\ worker[main.fn] = "running"
    /\ At("call", Nobody)
    /\ UNCHANGED <<priority, critical, bounded, chain, worker, event, saw>>

TimesOut ==
    /\ main.at = "join" /\ bounded
    /\ worker[main.fn] = "running"
    /\ Fails(main.fn)
    /\ UNCHANGED <<priority, critical, bounded, chain, worker, event, saw>>

(* The handlers, in their threads: an abandoned one goes on.               *)
Handle(fn) ==
    /\ worker[fn] = "running"
    /\ \/ event' = event \cup {fn} /\ UNCHANGED worker
       \/ /\ \/ fn \in event /\ worker' = [worker EXCEPT ![fn] = "returned"]
             \/ worker' = [worker EXCEPT ![fn] = "raised"]
          /\ UNCHANGED event
    /\ UNCHANGED <<priority, critical, bounded, chain, main, saw>>

Dispatcher == Discover \/ Call \/ NoneLeft \/ Join \/ TimesOut

Next == Dispatcher \/ \E fn \in Names : Handle(fn)

(* The dispatching thread runs; no handler need ever finish.               *)
Spec == Init /\ [][Next]_vars /\ WF_vars(Dispatcher)

-----------------------------------------------------------------------------

Called(n) == worker[n] # "none"

(* Before a handler is called, every critical handler that sorts before it *)
(* and was called has returned, and the handler finds what it wrote: a     *)
(* message is not delivered off an owner that was not looked up, late or   *)
(* failed (_run_plugins).                                                  *)
CriticalComesFirst ==
    \A c \in critical, n \in Names :
        Called(c) /\ Called(n) /\ Earlier(c, n) => worker[c] = "returned" /\ c \in saw[n]

(* "Handlers still run STRICTLY one-at-a-time, in order."                  *)
OneAtATime == \A m, n \in Names : worker[m] = "running" /\ worker[n] = "running" => m = n

=============================================================================
