---------------------------- MODULE UserRegistry ----------------------------
(***************************************************************************)
(* The `users:` section of the store's identity file: writers load, check  *)
(* and replace it under the store lock; readers resolve the names on cards *)
(* from a parse cached under the file's (mtime, size).                     *)
(* (_users/_store_write.py, _users/_store_read.py, _users/_identity.py)    *)
(*                                                                         *)
(* A name stands for any string that may be on a card: a display name, an  *)
(* alias or a host@name key.  Canonical is external data: what the alias   *)
(* table and the stripping of prefixes and hosts make of a name.  An       *)
(* os.replace gives the file a new stat.                                   *)
(***************************************************************************)
EXTENDS Naturals

CONSTANTS
    Users,      \* ids that registrations draw
    Names,
    Canonical,  \* [Names -> Names]
    None,       \* no user, no host key, no lock holder
    Writers, Readers,
    MaxWrites   \* writes explored

VARIABLES
    file,    \* [Users -> [names, host]]: no names, not registered
    stat,    \* version of the file; 0 while it is absent
    lock,    \* the writer in the locked section, or None
    proc,    \* [Writers -> [at, doc]]
    cached,  \* [Readers -> [stat, rows]]: the process's read cache
    reader,  \* [Readers -> [at, stat, rows, must]]
    given    \* history: [Names -> the user a call gave the name to]

vars == <<file, stat, lock, proc, cached, reader, given>>

Absent == [names |-> {}, host |-> None]
Rows == [Users -> [names : SUBSET Names, host : Names \cup {None}]]
Empty == [u \in Users |-> Absent]
NothingRead == [stat |-> 0, rows |-> Empty]
Unknown == [n \in Names |-> None]
Resting == [at |-> "idle", stat |-> 0, rows |-> Empty, must |-> Unknown]

TypeOK ==
    /\ file \in Rows /\ stat \in 0..MaxWrites
    /\ lock \in Writers \cup {None}
    /\ proc \in [Writers -> [at : {"idle", "loaded"}, doc : Rows]]
    /\ cached \in [Readers -> [stat : 0..MaxWrites, rows : Rows]]
    /\ \A r \in Readers : reader[r].at \in {"idle", "parse", "fill", "answer"}
    /\ given \in [Names -> Users \cup {None}]

Init ==
    /\ file = Empty /\ stat = 0
    /\ lock = None
    /\ proc = [w \in Writers |-> [at |-> "idle", doc |-> Empty]]
    /\ cached = [r \in Readers |-> NothingRead]
    /\ reader = [r \in Readers |-> Resting]
    /\ given = Unknown

-----------------------------------------------------------------------------

Registered(rows) == {u \in Users : rows[u].names # {}}
_names_index(rows, n) == {u \in Registered(rows) : n \in rows[u].names}
HasHost(rows, n) == {u \in Registered(rows) : rows[u].host = n}

\* Names before host keys; the canonical form of a name that is neither.
Exact(rows, n) == IF _names_index(rows, n) # {} THEN _names_index(rows, n) ELSE HasHost(rows, n)
resolve_user(rows, n) == IF Exact(rows, n) # {} THEN Exact(rows, n) ELSE Exact(rows, Canonical[n])

(* A write: everything between lock and replace is on the file loaded      *)
(* under the lock.  Anything refused writes nothing.                       *)
Load(w) ==
    /\ lock = None /\ proc[w].at = "idle" /\ stat < MaxWrites
    /\ lock' = w
    /\ proc' = [proc EXCEPT ![w] = [at |-> "loaded", doc |-> file]]
    /\ UNCHANGED <<file, stat, cached, reader, given>>

Release(w) ==
    /\ lock' = None
    /\ proc' = [proc EXCEPT ![w] = [at |-> "idle", doc |-> Empty]]

_save_users_unlocked(w, rows) ==
    /\ file' = rows /\ stat' = stat + 1
    /\ Release(w)
    /\ UNCHANGED <<cached, reader>>

Gives(u, names) == given' = [n \in Names |-> IF n \in names THEN u ELSE given[n]]

Taken(doc, names, u) == \E n \in names : _names_index(doc, n) \ {u} # {}

register_user(w, u, names, host) ==
    LET doc == proc[w].doc
    IN  /\ u \notin Registered(doc)
        /\ ~Taken(doc, names, u)
        /\ _save_users_unlocked(w, [doc EXCEPT ![u] = [names |-> names, host |-> host]])
        /\ Gives(u, names)

add_alias(w, u, n) ==
    LET doc == proc[w].doc
    IN  /\ u \in Registered(doc) /\ n \notin doc[u].names
        /\ ~Taken(doc, {n}, u)
        /\ _save_users_unlocked(w, [doc EXCEPT ![u].names = @ \cup {n}])
        /\ Gives(u, {n})

\* set_notify and touch_user rewrite a field that no name depends on.
touch_user(w) ==
    /\ \E n \in Names : Exact(proc[w].doc, n) # {}
    /\ _save_users_unlocked(w, proc[w].doc)
    /\ UNCHANGED given

set_notify(w) ==
    /\ Registered(proc[w].doc) # {}
    /\ _save_users_unlocked(w, proc[w].doc)
    /\ UNCHANGED given

\* Refused, unchanged, or killed before the replace.
Abandon(w) ==
    /\ proc[w].at = "loaded"
    /\ Release(w)
    /\ UNCHANGED <<file, stat, cached, reader, given>>

Write(w) ==
    /\ proc[w].at = "loaded"
    /\ \/ \E u \in Users, names \in SUBSET Names \ {{}}, host \in Names \cup {None} :
             register_user(w, u, names, host)
       \/ \E u \in Users, n \in Names : add_alias(w, u, n)
       \/ touch_user(w) \/ set_notify(w)

(* A read: stat, the cache if it matches, else a parse filed under the     *)
(* stat taken before it.                                                   *)
Stat(r) ==
    /\ reader[r].at = "idle"
    /\ reader' = [reader EXCEPT ![r] = [Resting EXCEPT
          !.at = IF stat = 0 \/ cached[r].stat = stat THEN "answer" ELSE "parse",
          !.stat = stat, !.must = given,
          !.rows = IF stat # 0 /\ cached[r].stat = stat THEN cached[r].rows ELSE Empty]]
    /\ UNCHANGED <<file, stat, lock, proc, cached, given>>

Parse(r) ==
    /\ reader[r].at = "parse"
    /\ reader' = [reader EXCEPT ![r].at = "fill", ![r].rows = file]
    /\ UNCHANGED <<file, stat, lock, proc, cached, given>>

(* The parse is filed under the stat of the moment.                        *)
KeyAfter(r) == stat

Key(r) == reader[r].stat

Fill(r) ==
    /\ reader[r].at = "fill"
    /\ cached' = [cached EXCEPT ![r] = [stat |-> Key(r), rows |-> reader[r].rows]]
    /\ reader' = [reader EXCEPT ![r].at = "answer"]
    /\ UNCHANGED <<file, stat, lock, proc, given>>

Answer(r) ==
    /\ reader[r].at = "answer"
    /\ reader' = [reader EXCEPT ![r] = Resting]
    /\ UNCHANGED <<file, stat, lock, proc, cached, given>>

Next ==
    \/ \E w \in Writers : Load(w) \/ Write(w) \/ Abandon(w)
    \/ \E r \in Readers : Stat(r) \/ Parse(r) \/ Fill(r) \/ Answer(r)

Spec == Init /\ [][Next]_vars

-----------------------------------------------------------------------------

(* Once a registration or an alias has given a name to a user, every       *)
(* resolution that begins afterwards, in any process, resolves it to that  *)
(* user: no other registration, alias or heartbeat takes it away, and no   *)
(* reader is served rows older than it (register_user, resolve_user).      *)
NamesStay ==
    \A r \in Readers : reader[r].at = "answer" =>
        \A n \in Names : reader[r].must[n] # None =>
            resolve_user(reader[r].rows, n) = {reader[r].must[n]}

=============================================================================
