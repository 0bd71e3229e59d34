----------------------------- MODULE Migration ------------------------------
(***************************************************************************)
(* `migration apply`: the long texts of a card -- its note, an overlong    *)
(* title, long comments -- move from the store into tasks/<id>/README.md   *)
(* of the lane.  Under the store lock the rows are loaded anew; each row   *)
(* is classified, its README written and read back, and the row stripped   *)
(* in memory; one save writes the stripped rows; a git commit follows.     *)
(* (_migration/_migrate.py)                                                *)
(*                                                                         *)
(* A text is a model value.  One lane, that of the ambient store, whose    *)
(* lock the verbs that write cards take too.                               *)
(***************************************************************************)
EXTENDS Naturals

CONSTANTS
    Ids, Texts,
    Nobody,     \* the lock is free
    Migrators,  \* processes that run `migration apply`
    MaxFaults   \* failed writes and deaths explored

VARIABLES
    rows,     \* [Ids -> the long texts in the card's row]
    dir,      \* the cards that have a directory tasks/<id>
    readme,   \* [Ids -> the texts in its README]
    lock,     \* who holds the store lock
    mig,      \* [Migrators -> [at, doc, left, new, updated]]
    had,      \* history: [Ids -> the long texts the card was given]
    regrown,  \* history: the cards given a long text after they were migrated
    faults

vars == <<rows, dir, readme, lock, mig, had, regrown, faults>>

NoRows == [i \in Ids |-> {}]
Resting == [at |-> "idle", doc |-> NoRows, left |-> {}, new |-> NoRows, updated |-> FALSE]

TypeOK ==
    /\ rows \in [Ids -> SUBSET Texts] /\ readme \in [Ids -> SUBSET Texts]
    /\ dir \subseteq Ids
    /\ lock \in Migrators \cup {Nobody}
    /\ \A m \in Migrators : mig[m].at \in {"idle", "rows", "save", "commit"}
    /\ had \in [Ids -> SUBSET Texts] /\ regrown \subseteq Ids
    /\ faults \in 0..MaxFaults

Init ==
    /\ rows \in [Ids -> SUBSET Texts] /\ had = rows
    /\ dir = {} /\ readme = NoRows
    /\ lock = Nobody
    /\ mig = [m \in Migrators |-> Resting]
    /\ regrown = {}
    /\ faults = 0

-----------------------------------------------------------------------------

\* classify_row finds none of NEEDS_NOTE, NEEDS_TITLE, NEEDS_COMMENT, NEEDS_DIR.
canonical(i, row) == row = {} /\ i \in dir

\* What is in the README, and what the row keeps of its long texts.
_build_readme_content(row) == row
_strip_migrated_fields(row) == {}

apply_lane(m) ==
    /\ mig[m].at = "idle" /\ lock = Nobody
    /\ lock' = m
    /\ mig' = [mig EXCEPT ![m] = [at |-> "rows", doc |-> rows, left |-> Ids,
                                  new |-> rows, updated |-> FALSE]]
    /\ UNCHANGED <<rows, dir, readme, had, regrown, faults>>

Onward(m, i, new, updated) ==
    mig' = [mig EXCEPT ![m] = [
        at |-> IF mig[m].left = {i} THEN "save" ELSE "rows",
        doc |-> mig[m].doc, left |-> mig[m].left \ {i},
        new |-> [mig[m].new EXCEPT ![i] = new], updated |-> mig[m].updated \/ updated]]

AtRow(m, i) == mig[m].at = "rows" /\ i \in mig[m].left

KeepCanonical(m, i) ==
    /\ AtRow(m, i) /\ canonical(i, mig[m].doc[i])
    /\ Onward(m, i, mig[m].doc[i], FALSE)
    /\ UNCHANGED <<rows, dir, readme, lock, had, regrown, faults>>

MigrateRow(m, i) ==
    /\ AtRow(m, i) /\ ~canonical(i, mig[m].doc[i])
    /\ dir' = dir \cup {i}
    /\ readme' = [readme EXCEPT ![i] = _build_readme_content(mig[m].doc[i])]
    /\ Onward(m, i, _strip_migrated_fields(mig[m].doc[i]), TRUE)
    /\ UNCHANGED <<rows, lock, had, regrown, faults>>

(* A README that could not be written is taken for written.                *)
SkipRowStripped(m, i) ==
    /\ AtRow(m, i) /\ ~canonical(i, mig[m].doc[i])
    /\ faults < MaxFaults
    /\ faults' = faults + 1
    /\ Onward(m, i, _strip_migrated_fields(mig[m].doc[i]), TRUE)
    /\ UNCHANGED <<rows, dir, readme, lock, had, regrown>>

\* The directory cannot be made, the README written, or what was written
\* read back: the row is kept as it is.
SkipRow(m, i) ==
    /\ AtRow(m, i) /\ ~canonical(i, mig[m].doc[i])
    /\ faults < MaxFaults
    /\ faults' = faults + 1
    /\ \E made \in {{}, {i}} :
          /\ dir' = dir \cup made
          /\ \/ UNCHANGED readme
             \/ made # {} /\ readme' = [readme EXCEPT ![i] = _build_readme_content(mig[m].doc[i])]
    /\ Onward(m, i, mig[m].doc[i], FALSE)
    /\ UNCHANGED <<rows, lock, had, regrown>>

Save(m) ==
    /\ mig[m].at = "save"
    /\ rows' = IF mig[m].updated THEN mig[m].new ELSE rows
    /\ mig' = [mig EXCEPT ![m] = IF mig[m].updated THEN [@ EXCEPT !.at = "commit"] ELSE Resting]
    /\ lock' = Nobody
    /\ UNCHANGED <<dir, readme, had, regrown, faults>>

\* Best effort; the directories are on disk whether or not git has them.
_git_commit_lane(m) ==
    /\ mig[m].at = "commit"
    /\ mig' = [mig EXCEPT ![m] = Resting]
    /\ UNCHANGED <<rows, dir, readme, lock, had, regrown, faults>>

\* Killed, or the save refuses the document: the kernel frees the lock.
Die(m) ==
    /\ mig[m].at # "idle" /\ faults < MaxFaults
    /\ faults' = faults + 1
    /\ mig' = [mig EXCEPT ![m] = Resting]
    /\ lock' = IF lock = m THEN Nobody ELSE lock
    /\ UNCHANGED <<rows, dir, readme, had, regrown>>

\* A verb gives a card a long note, title or comment.
Write(i, t) ==
    /\ lock = Nobody /\ t \notin had[i]
    /\ rows' = [rows EXCEPT ![i] = @ \cup {t}]
    /\ had' = [had EXCEPT ![i] = @ \cup {t}]
    /\ regrown' = regrown \cup {j \in {i} : readme[j] # {}}
    /\ UNCHANGED <<dir, readme, lock, mig, faults>>

Next ==
    \/ \E m \in Migrators :
          \/ apply_lane(m) \/ Save(m) \/ _git_commit_lane(m) \/ Die(m)
          \/ \E i \in Ids : KeepCanonical(m, i) \/ MigrateRow(m, i) \/ SkipRow(m, i)
    \/ \E i \in Ids, t \in Texts : Write(i, t)

Spec == Init /\ [][Next]_vars

-----------------------------------------------------------------------------

(* A long text is in the store or in the card's README, whatever fails or  *)
(* dies in between and however often the migration is run; a card that     *)
(* gets another long text after its migration is excused, because the next *)
(* migration writes its README from the row alone (apply_lane).            *)
TextKept == \A i \in Ids \ regrown : had[i] \subseteq rows[i] \cup readme[i]

=============================================================================
