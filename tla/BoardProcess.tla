---------------------------- MODULE BoardProcess ----------------------------
(***************************************************************************)
(* `board start / stop / restart`: a foreground server that writes a       *)
(* pidfile before it binds its port and removes the file when it leaves    *)
(* by Ctrl-C, and commands in other terminals that find it by that file.   *)
(* (_cli/_board.py, _cli/_board_proc.py)                                   *)
(*                                                                         *)
(* A process id is used by one server; afterwards the kernel may give it   *)
(* to a foreign process.  Django's runserver is external: a taken port     *)
(* ends the process at once (os._exit), and so does SIGTERM, which it      *)
(* does not handle under --noreload; neither runs the `finally` block.     *)
(* One port.                                                               *)
(***************************************************************************)
EXTENDS Naturals

CONSTANTS
    Pids,       \* process ids of servers
    Terminals,  \* where stop and restart are typed
    Nobody      \* no process

VARIABLES
    proc,      \* [Pids -> stage of the process with that id]
    manage,    \* the servers launched as `python -m django scitex_cards_board`
    pidfile,   \* the pid it holds, or Nobody
    term,      \* [Terminals -> [at, pid, again]]: a stop or restart under way
    raced      \* history: two commands have overlapped

vars == <<proc, manage, pidfile, term, raced>>

Stages == {"unused", "cleaning", "checked", "written", "serving", "leaving",
           "dead", "foreign"}
Resting == [at |-> "idle", pid |-> Nobody, again |-> FALSE]

TypeOK ==
    /\ proc \in [Pids -> Stages]
    /\ manage \subseteq Pids
    /\ pidfile \in Pids \cup {Nobody}
    /\ \A t \in Terminals :
          /\ term[t].at \in {"idle", "signal", "unlink", "start"}
          /\ term[t].pid \in Pids \cup {Nobody}
    /\ raced \in BOOLEAN

Init ==
    /\ proc = [p \in Pids |-> "unused"]
    /\ manage = {}
    /\ pidfile = Nobody
    /\ term = [t \in Terminals |-> Resting]
    /\ raced = FALSE

-----------------------------------------------------------------------------

_board_pid_alive(p) == p # Nobody /\ proc[p] \notin {"unused", "dead"}

\* runserver holds the port while it serves.
OnPort(p) == proc[p] = "serving"

\* /proc/<pid>/cmdline carries a marker only under the management command:
\* call_command does not change the argv of `scitex-todo board start`.
_board_cmdline_is_board(p) == p \in manage

Underway(p) == proc[p] \in {"cleaning", "checked", "written"}
Overlaps == (\E p \in Pids : Underway(p)) \/ (\E t \in Terminals : term[t].at # "idle")

Stage(p, stage) == proc' = [proc EXCEPT ![p] = stage]

(* A start that does not look for a running board.                         *)
CheckPidBlind(p) ==
    /\ proc[p] = "unused"
    /\ Stage(p, "checked")
    /\ UNCHANGED <<manage, pidfile>>

(* board start: refused while the pidfile names a live process; a dead one *)
(* is taken for stale and the file unlinked, whatever it holds by then.    *)
CheckPid(p) ==
    /\ proc[p] = "unused"
    /\ ~_board_pid_alive(pidfile)
    /\ Stage(p, IF pidfile = Nobody THEN "checked" ELSE "cleaning")
    /\ UNCHANGED <<manage, pidfile>>

board_start_cmd(p) ==
    /\ CheckPid(p)
    /\ raced' = (raced \/ Overlaps)
    /\ UNCHANGED term

UnlinkStale(p) ==
    /\ proc[p] = "cleaning"
    /\ pidfile' = Nobody
    /\ Stage(p, "checked")
    /\ UNCHANGED <<manage, term, raced>>

_board_write_pid(p) ==
    /\ proc[p] = "checked"
    /\ pidfile' = p
    /\ Stage(p, "written")
    /\ UNCHANGED <<manage, term, raced>>

\* A process that may bind the port: `board start` has written its pid; the
\* management command by itself keeps no pidfile.
RunServer(p) ==
    /\ \/ proc[p] = "written" /\ UNCHANGED manage
       \/ proc[p] = "unused" /\ manage' = manage \cup {p}
    /\ Stage(p, IF \E q \in Pids : OnPort(q) THEN "dead" ELSE "serving")
    /\ UNCHANGED <<pidfile, term, raced>>

(* Ctrl-C: the `finally` of `board start` unlinks whatever pidfile is there. *)
Interrupt(p) ==
    /\ proc[p] \in {"written", "serving"}
    /\ Stage(p, IF p \in manage THEN "dead" ELSE "leaving")
    /\ UNCHANGED <<manage, pidfile, term, raced>>

UnlinkOwn(p) ==
    /\ proc[p] = "leaving"
    /\ pidfile' = Nobody
    /\ Stage(p, "dead")
    /\ UNCHANGED <<manage, term, raced>>

Crash(p) ==
    /\ Underway(p) \/ proc[p] \in {"serving", "leaving"}
    /\ Stage(p, "dead")
    /\ UNCHANGED <<manage, pidfile, term, raced>>

\* The kernel gives a dead server's id to a process of somebody else.
Recycled(p) ==
    /\ proc[p] = "dead" /\ pidfile = p
    /\ Stage(p, "foreign")
    /\ UNCHANGED <<manage, pidfile, term, raced>>

(* board stop, and the stop of a restart (`again`).  It reads the pidfile  *)
(* and unlinks a stale one in one step: only an overlap could tell.        *)
_board_pid_on_port == {p \in Pids : OnPort(p) /\ _board_cmdline_is_board(p)}

Goes(t, at, p, again) == term' = [term EXCEPT ![t] = [at |-> at, pid |-> p, again |-> again]]

\* Nothing to stop: a restart goes on to its start.
Rests(t, again) ==
    IF again THEN Goes(t, "start", Nobody, TRUE) ELSE Goes(t, "idle", Nobody, FALSE)

_board_resolve_pid(t, again) ==
    \/ /\ _board_pid_alive(pidfile)
       /\ Goes(t, "signal", pidfile, again)
       /\ UNCHANGED pidfile
    \/ /\ ~_board_pid_alive(pidfile)
       /\ pidfile' = Nobody
       /\ \/ \E p \in _board_pid_on_port : Goes(t, "signal", p, again)
          \/ _board_pid_on_port = {} /\ Rests(t, again)

board_stop_cmd(t) ==
    /\ term[t].at = "idle"
    /\ \E again \in BOOLEAN : _board_resolve_pid(t, again)
    /\ raced' = (raced \/ Overlaps)
    /\ UNCHANGED <<proc, manage>>

\* SIGTERM, or SIGKILL once the timeout is over; a pid that has died in
\* between is an error, and ends a restart too.
Signal(t) ==
    LET p == term[t].pid
    IN  /\ term[t].at = "signal"
        /\ IF _board_pid_alive(p)
             THEN Stage(p, "dead") /\ Goes(t, "unlink", p, term[t].again)
             ELSE Goes(t, "idle", Nobody, FALSE) /\ UNCHANGED proc
        /\ UNCHANGED <<manage, pidfile, raced>>

UnlinkStopped(t) ==
    /\ term[t].at = "unlink"
    /\ pidfile' = Nobody
    /\ Rests(t, term[t].again)
    /\ UNCHANGED <<proc, manage, raced>>

\* The start of a restart, in the same terminal.
board_restart_cmd(t) ==
    /\ term[t].at = "start"
    /\ \/ \E p \in Pids : CheckPid(p)
       \/ _board_pid_alive(pidfile) /\ UNCHANGED <<proc, manage, pidfile>>
    /\ Goes(t, "idle", Nobody, FALSE)
    /\ UNCHANGED raced

Next ==
    \/ \E p \in Pids :
          \/ board_start_cmd(p) \/ UnlinkStale(p) \/ _board_write_pid(p) \/ RunServer(p)
          \/ Interrupt(p) \/ UnlinkOwn(p) \/ Crash(p) \/ Recycled(p)
    \/ \E t \in Terminals :
          board_stop_cmd(t) \/ Signal(t) \/ UnlinkStopped(t) \/ board_restart_cmd(t)

Spec == Init /\ [][Next]_vars

-----------------------------------------------------------------------------

(* The pidfile names the server that `board start` put on the port, unless *)
(* a start or a stop overlapped another: neither a crash, a refused start, *)
(* a taken port, a stale file nor a recycled id loses track of a server    *)
(* (_board_run_server, board_start_cmd).                                   *)
ServerIsTracked ==
    \A p \in Pids \ manage : OnPort(p) /\ ~raced => pidfile = p

(* `board stop` finds the server on the port when the pidfile does not     *)
(* name it: _board_proc.py says the management command's name is in the    *)
(* argv of the live process.                                               *)
StopFindsServer ==
    [][\A t \in Terminals : board_stop_cmd(t) /\ (\E p \in Pids : OnPort(p))
           => term'[t].at = "signal"]_vars

=============================================================================
