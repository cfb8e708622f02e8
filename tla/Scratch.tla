------------------------------ MODULE Scratch ------------------------------
(***************************************************************************)
(* The life of a scratch worktree in each thread of a call                 *)
(* (crates/app/src/patches/worktree.rs and crates/git/src/worktree.rs)     *)
(* under the SIGINT holds of crates/io/src/interrupt.rs.                   *)
(*                                                                         *)
(* A thread goes enter, hold, place, add, adding, inside, then "work",     *)
(* which the caller's module models, then release, remove, prune, settle,  *)
(* left.  `worktree add` and `worktree prune` are two steps each, so that  *)
(* the lock between them matters.                                          *)
(***************************************************************************)
EXTENDS Integers, FiniteSets

CONSTANTS
    Threads,        \* the threads of the call
    MaxFaults,      \* how many operations of the system fail in one call
    None

VARIABLES
    at,             \* [Threads -> program counter]
    value,          \* [Threads -> "ok", "failed" or "stopped"]
    tree,           \* [Threads -> the worktree of the thread's session]
    notes,          \* [Threads -> the notes of the session]
    lock,           \* the holder of WORKTREE_LOCK
    holds,          \* the number of active SigintHolds
    interrupted,    \* SIGINT was recorded
    alive,          \* the process runs
    faults          \* the operations that failed

scratch == <<at, value, tree, notes, lock, holds, interrupted, alive, faults>>
process == <<interrupted, alive>>

\* The record that git keeps of a worktree is "new" until the directory is
\* populated; an add that was killed leaves it "locked".
NoTree == [record |-> "none", dir |-> FALSE]
Trees == [record : {"none", "new", "locked", "registered"}, dir : BOOLEAN]

\* What an add that failed may leave.
Failed == {NoTree, [record |-> "new", dir |-> FALSE], [record |-> "locked", dir |-> FALSE],
           [record |-> "locked", dir |-> TRUE], [record |-> "registered", dir |-> TRUE]}

GitNotes == {"remove_failed", "prune_failed", "leftover"}

InitScratch ==
    /\ value = [t \in Threads |-> "ok"]
    /\ tree = [t \in Threads |-> NoTree]
    /\ notes = [t \in Threads |-> {}]
    /\ lock = None /\ holds = 0 /\ interrupted = FALSE /\ alive = TRUE
    /\ faults = 0

go(t, from, to) == alive /\ at[t] = from /\ at' = [at EXCEPT ![t] = to]
gives(t, v) == value' = [value EXCEPT ![t] = v]

\* A step in which an operation of the system fails, and one in which none does.
fault == faults < MaxFaults /\ faults' = faults + 1
fine  == UNCHANGED faults

notes_add(t, ns) == notes' = [notes EXCEPT ![t] = @ \cup ns]

-----------------------------------------------------------------------------
(* Scratch::run up to the work.                                            *)

\* The check before the creation; the cache root may be unusable.
enter(t) ==
    /\ IF interrupted
       THEN go(t, "enter", "left") /\ gives(t, "stopped") /\ fine
       ELSE \/ go(t, "enter", "left") /\ gives(t, "failed") /\ fault
            \/ go(t, "enter", "hold") /\ gives(t, "ok") /\ fine
    /\ UNCHANGED <<tree, notes, lock, holds, process>>

\* hold_sigint, before anything of the worktree exists.
hold(t) ==
    /\ \/ go(t, "hold", "place") /\ holds' = holds + 1 /\ fine /\ UNCHANGED value
       \/ go(t, "hold", "settle") /\ gives(t, "failed") /\ fault /\ UNCHANGED holds
    /\ UNCHANGED <<tree, notes, lock, process>>

\* The scratch directory, or a refusal that drops the hold.
place(t) ==
    /\ \/ go(t, "place", "add") /\ fine /\ UNCHANGED <<value, holds>>
       \/ go(t, "place", "settle") /\ gives(t, "failed") /\ fault /\ holds' = holds - 1
    /\ UNCHANGED <<tree, notes, lock, process>>

\* Variant: the add does not take the lock.
add_unlocked(t) ==
    /\ go(t, "add", "adding") /\ lock # t
    /\ tree' = [tree EXCEPT ![t] = [record |-> "new", dir |-> FALSE]]
    /\ UNCHANGED <<value, notes, lock, holds, process, faults>>

\* `git worktree add` begins under the lock.
add(t) ==
    /\ go(t, "add", "adding") /\ lock = None /\ lock' = t
    /\ tree' = [tree EXCEPT ![t] = [record |-> "new", dir |-> FALSE]]
    /\ UNCHANGED <<value, notes, holds, process, faults>>

\* Variant: the creation keeps the lock that its own release will want.
added_locked(t) ==
    /\ go(t, "adding", "release") /\ gives(t, "failed") /\ fault
    /\ UNCHANGED <<tree, notes, lock, holds, process>>

\* It ends: the worktree is there, or the call failed or was killed at its
\* timeout and left any part of it.
added(t) ==
    /\ \/ /\ go(t, "adding", "inside") /\ fine /\ UNCHANGED value
          /\ tree' = [tree EXCEPT ![t].dir = TRUE,
                                  ![t].record = IF @ = "new" THEN "registered" ELSE @]
       \/ /\ go(t, "adding", "release") /\ gives(t, "failed") /\ fault
          /\ \E left \in Failed : tree' = [tree EXCEPT ![t] = left]
    /\ lock' = IF lock = t THEN None ELSE lock
    /\ UNCHANGED <<notes, holds, process>>

\* The commit may lack the root's directory; then the call's SIGINT check.
inside(t) ==
    /\ \/ go(t, "inside", "release") /\ gives(t, "failed") /\ fault
       \/ /\ fine
          /\ IF interrupted THEN go(t, "inside", "release") /\ gives(t, "stopped")
                            ELSE go(t, "inside", "work") /\ UNCHANGED value
    /\ UNCHANGED <<tree, notes, lock, holds, process>>

-----------------------------------------------------------------------------
(* The release.                                                            *)

\* The lock, for the remove and the prune.
release(t) ==
    /\ go(t, "release", "remove") /\ lock = None /\ lock' = t
    /\ UNCHANGED <<value, tree, notes, holds, process, faults>>


\* `git worktree remove --force --force`; when it fails, or finds nothing to
\* remove, the directory is removed without git.
remove(t) ==
    /\ go(t, "remove", "prune")
    /\ \/ tree[t] # NoTree /\ tree' = [tree EXCEPT ![t] = NoTree] /\ fine /\ UNCHANGED notes
       \/ tree[t] = NoTree /\ notes_add(t, {"remove_failed"}) /\ fine /\ UNCHANGED tree
       \/ /\ tree[t] # NoTree /\ fault
          /\ \E gone, unrecorded \in BOOLEAN :
                tree' = [tree EXCEPT ![t].dir = @ /\ ~gone,
                                     ![t].record = IF unrecorded THEN "none" ELSE @]
          /\ notes_add(t, {"remove_failed"})
    /\ UNCHANGED <<value, lock, holds, process>>

\* `git worktree prune` removes the records with no directory, but a locked
\* one, of every worktree of the repository.
pruned == [t \in Threads |->
    IF tree[t].record \in {"new", "registered"} /\ ~tree[t].dir
    THEN NoTree ELSE tree[t]]

\* The prune, the look for a leftover, which may itself fail, and the end of the lock and the hold.
prune(t) ==
    /\ go(t, "prune", "settle")
    /\ LET over == IF tree[t].dir THEN {"leftover"} ELSE {}
       IN \/ tree' = pruned /\ notes_add(t, over) /\ fine
          \/ UNCHANGED tree /\ notes_add(t, over \cup {"prune_failed"}) /\ fault
          \/ tree' = pruned /\ notes_add(t, {"leftover"}) /\ fault
    /\ lock' = None /\ holds' = holds - 1
    /\ UNCHANGED <<value, process>>

\* The check after the release: a SIGINT wins over every other outcome.
settle(t) ==
    /\ go(t, "settle", "left")
    /\ IF interrupted THEN gives(t, "stopped") ELSE UNCHANGED value
    /\ UNCHANGED <<tree, notes, lock, holds, process, faults>>

\* SIGINT while a hold lives is recorded; otherwise it ends the process.
sigint ==
    /\ alive /\ ~interrupted /\ interrupted' = TRUE
    /\ alive' = (holds > 0)
    /\ UNCHANGED <<at, value, tree, notes, lock, holds, faults>>

-----------------------------------------------------------------------------
\* Where a thread works in its worktree; the callers' own steps included.
InTree == {"inside", "work", "measure", "spawn", "wait", "kill", "reap", "ran", "after"}

\* Everything that a release leaves behind is in its notes.
LeftoversNoted ==
    \A t \in Threads : at[t] = "settle" =>
        /\ tree[t].dir => "leftover" \in notes[t]
        /\ tree[t].record # "none" => notes[t] \cap {"remove_failed", "prune_failed"} # {}

\* The thread's worktree has its record and its directory while the thread
\* works in it: no prune of another thread took the record of an add that had
\* not populated its directory.
WorksInWorktree ==
    \A t \in Threads : at[t] \in InTree => tree[t].dir /\ tree[t].record = "registered"
=============================================================================
