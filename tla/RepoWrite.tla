----------------------------- MODULE RepoWrite -----------------------------
(***************************************************************************)
(* The repository write of crates/io/src/txn.rs, one file-system call per  *)
(* step, with every call able to fail, under a SIGINT hold                 *)
(* (crates/io/src/interrupt.rs), and with a kill between any two calls.    *)
(*                                                                         *)
(* Paths are the positions 1 .. N of the write's path order; the path at   *)
(* position i resolves to the file Target[i].  Two paths may resolve to    *)
(* one file: write_all contains each path but compares no resolved paths.  *)
(*                                                                         *)
(* A write goes through: hold, stage 1 .. N, reserve 1 .. N, then for each *)
(* position "out" (target to backup) and "in" (staging to target), then    *)
(* the cleanup: "rollback" of the completed backups, last first,           *)
(* "drop_staged" and "drop_backups".  The cleanup intervals are those of   *)
(* the step that failed; a write with no failure drops its N backups.      *)
(***************************************************************************)
EXTENDS Integers, FiniteSets

CONSTANTS
    N,              \* the number of paths of the write
    Files,          \* the files that the paths resolve to
    Target          \* [1 .. N -> Files]

ASSUME NAssumption == N \in Nat \ {0}
ASSUME TargetAssumption == Target \in [1 .. N -> Files]

VARIABLES
    phase,          \* where the write is; "returned" and "dead" are final
    pos,            \* the position of the next file-system call
    failed,         \* the position where a step failed, 0 before a failure
    error,          \* the variant of WriteError, "none" while all is well
    completed,      \* how many targets were moved to their backups
    tree,           \* [Files -> contents], the files themselves
    staging,        \* [1 .. N -> contents], the hidden .agentless-tmp siblings
    backup,         \* [1 .. N -> contents], the backup siblings
    retained,       \* the positions whose backup could not move back
    leftovers,      \* the siblings that the cleanup could not remove
    held,           \* a SigintHold is active
    interrupted     \* SIGINT was recorded

vars == <<phase, pos, failed, error, completed, tree, staging, backup,
          retained, leftovers, held, interrupted>>

disk == <<tree, staging, backup>>
signal == <<held, interrupted>>

Position == 1 .. N

Missing == <<"missing", 0>>
Empty == <<"empty", 0>>
Original(f) == <<"original", f>>
New(i) == <<"new", i>>

Contents == {Missing, Empty} \cup {Original(f) : f \in Files}
                             \cup {New(i) : i \in Position}

Sibling == {"staging", "backup"} \X Position

Phases == {"start", "stage", "reserve", "out", "in", "rollback",
           "drop_staged", "drop_backups", "returned", "dead"}
Errors == {"none", "watch", "stage", "reserve", "replace"}

Init ==
    /\ phase = "start" /\ pos = 1 /\ failed = 0 /\ error = "none"
    /\ completed = 0
    /\ tree = [f \in Files |-> Original(f)]
    /\ staging = [i \in Position |-> Missing]
    /\ backup = [i \in Position |-> Missing]
    /\ retained = {} /\ leftovers = {}
    /\ held = FALSE /\ interrupted = FALSE

-----------------------------------------------------------------------------
(* The hold and the four phases.                                           *)

\* Variant: the write starts without its hold.
write_unheld ==
    /\ phase = "start" /\ phase' = "stage"
    /\ UNCHANGED <<pos, failed, error, completed, disk, retained, leftovers, signal>>

\* The hold is taken first; without it nothing is written.
write_held ==
    /\ phase = "start"
    /\ \/ phase' = "stage" /\ held' = TRUE /\ UNCHANGED error
       \/ phase' = "returned" /\ error' = "watch" /\ UNCHANGED held
    /\ UNCHANGED <<pos, failed, completed, disk, retained, leftovers, interrupted>>

\* One path is contained and staged, whole and synced, or the write goes to
\* the cleanup of the files staged so far.  A path that is refused, or whose
\* sibling cannot be created, leaves no sibling; a staging file that cannot
\* be written is removed, and stays when its removal fails too.
stage_one ==
    /\ phase = "stage"
    /\ \/ /\ staging' = [staging EXCEPT ![pos] = New(pos)]
          /\ IF pos = N THEN phase' = "reserve" /\ pos' = 1
                        ELSE phase' = "stage" /\ pos' = pos + 1
          /\ UNCHANGED <<failed, error>>
       \/ /\ staging' \in {staging, [staging EXCEPT ![pos] = Empty]}
          /\ failed' = pos /\ error' = "stage"
          /\ phase' = "drop_staged" /\ pos' = 1
    /\ UNCHANGED <<completed, tree, backup, retained, leftovers, signal>>

reserve_one ==
    /\ phase = "reserve"
    /\ \/ /\ backup' = [backup EXCEPT ![pos] = Empty]
          /\ IF pos = N THEN phase' = "out" /\ pos' = 1
                        ELSE phase' = "reserve" /\ pos' = pos + 1
          /\ UNCHANGED <<failed, error>>
       \/ /\ failed' = pos /\ error' = "reserve"
          /\ phase' = "drop_staged" /\ pos' = 1
          /\ UNCHANGED backup
    /\ UNCHANGED <<completed, tree, staging, retained, leftovers, signal>>

\* Variant: a failed rename only discards, and moves no backup back.
undo_without_rollback(done) ==
    failed' = pos /\ error' = "replace" /\ phase' = "drop_staged" /\ pos' = pos

\* The undo after a failed rename starts at the last completed backup.
undo_from(done) ==
    /\ failed' = pos /\ error' = "replace"
    /\ IF done = 0 THEN phase' = "drop_staged" /\ pos' = pos
                   ELSE phase' = "rollback" /\ pos' = done

\* Variant: the pair counts as completed only after its second rename.
move_out_uncounted ==
    /\ phase = "out"
    /\ \/ /\ backup' = [backup EXCEPT ![pos] = tree[Target[pos]]]
          /\ tree' = [tree EXCEPT ![Target[pos]] = Missing]
          /\ completed' = pos - 1
          /\ phase' = "in"
          /\ UNCHANGED <<pos, failed, error>>
       \/ undo_from(completed) /\ UNCHANGED <<backup, tree, completed>>
    /\ UNCHANGED <<staging, retained, leftovers, signal>>

\* rename(target, backup); the pair is completed before the second rename.
move_out ==
    /\ phase = "out"
    /\ \/ /\ backup' = [backup EXCEPT ![pos] = tree[Target[pos]]]
          /\ tree' = [tree EXCEPT ![Target[pos]] = Missing]
          /\ completed' = pos
          /\ phase' = "in"
          /\ UNCHANGED <<pos, failed, error>>
       \/ undo_from(completed) /\ UNCHANGED <<backup, tree, completed>>
    /\ UNCHANGED <<staging, retained, leftovers, signal>>

\* rename(staging, target); after the last one the backups are dropped.
move_in ==
    /\ phase = "in"
    /\ \/ /\ tree' = [tree EXCEPT ![Target[pos]] = staging[pos]]
          /\ staging' = [staging EXCEPT ![pos] = Missing]
          /\ IF pos = N THEN phase' = "drop_backups" /\ pos' = 1
                        ELSE phase' = "out" /\ pos' = pos + 1
          /\ UNCHANGED <<failed, error>>
       \/ undo_from(completed) /\ UNCHANGED <<tree, staging>>
    /\ UNCHANGED <<completed, backup, retained, leftovers, signal>>

-----------------------------------------------------------------------------
(* The cleanup.                                                            *)

\* rename(backup, target) for each completed pair, last first; a rename that
\* fails keeps its backup.
roll_back ==
    /\ phase = "rollback"
    /\ \/ /\ tree' = [tree EXCEPT ![Target[pos]] = backup[pos]]
          /\ backup' = [backup EXCEPT ![pos] = Missing]
          /\ UNCHANGED retained
       \/ retained' = retained \cup {pos} /\ UNCHANGED <<tree, backup>>
    /\ IF pos = 1 THEN phase' = "drop_staged" /\ pos' = failed
                  ELSE phase' = "rollback" /\ pos' = pos - 1
    /\ UNCHANGED <<failed, error, completed, staging, leftovers, signal>>

\* The staged files that the error path discards: those staged before a
\* failed stage, all of them when a backup is not reserved, and from the
\* failed position on when a rename fails.
StagedToDrop ==
    CASE error = "stage"   -> 1 .. failed - 1
      [] error = "reserve" -> 1 .. N
      [] error = "replace" -> failed .. N
      [] OTHER             -> {}

\* The backups that are discarded: all of them after a write that is done,
\* those reserved before a failed reserve, and the ones no target moved to.
BackupsToDrop ==
    CASE error = "none"    -> 1 .. N
      [] error = "reserve" -> 1 .. failed - 1
      [] error = "replace" -> completed + 1 .. N
      [] OTHER             -> {}

\* remove_file; a sibling that stays is reported.
remove(kind, siblings) ==
    \/ siblings' = [siblings EXCEPT ![pos] = Missing] /\ UNCHANGED leftovers
    \/ leftovers' = leftovers \cup {<<kind, pos>>} /\ UNCHANGED siblings

\* Variant: the discard starts again while a leftover is there.
discard_staged_again ==
    /\ phase = "drop_staged"
    /\ IF pos \in StagedToDrop
       THEN /\ remove("staging", staging)
            /\ pos' = pos + 1 /\ UNCHANGED phase
       ELSE /\ IF leftovers # {} THEN pos' = 1 /\ UNCHANGED phase
                                 ELSE phase' = "drop_backups" /\ pos' = 1
            /\ UNCHANGED <<staging, leftovers>>
    /\ UNCHANGED <<failed, error, completed, tree, backup, retained, signal>>

discard_staged ==
    /\ phase = "drop_staged"
    /\ IF pos \in StagedToDrop
       THEN /\ remove("staging", staging)
            /\ pos' = pos + 1 /\ UNCHANGED phase
       ELSE /\ phase' = "drop_backups"
            /\ pos' = IF error = "replace" THEN completed + 1 ELSE 1
            /\ UNCHANGED <<staging, leftovers>>
    /\ UNCHANGED <<failed, error, completed, tree, backup, retained, signal>>

\* The last discard is followed by the return, which releases the hold.
discard ==
    /\ phase = "drop_backups"
    /\ IF pos \in BackupsToDrop
       THEN /\ remove("backup", backup)
            /\ pos' = pos + 1 /\ UNCHANGED <<phase, held>>
       ELSE /\ phase' = "returned" /\ held' = FALSE
            /\ UNCHANGED <<pos, backup, leftovers>>
    /\ UNCHANGED <<failed, error, completed, tree, staging, retained, interrupted>>

-----------------------------------------------------------------------------
(* The environment: SIGINT, and a kill or a power loss.                    *)

Running == phase \notin {"returned", "dead"}

\* A held SIGINT is recorded and the write goes on; otherwise the default
\* action ends the process.
sigint ==
    /\ Running
    /\ IF held THEN ~interrupted /\ interrupted' = TRUE /\ UNCHANGED phase
               ELSE phase' = "dead" /\ interrupted' = TRUE
    /\ UNCHANGED <<pos, failed, error, completed, disk, retained, leftovers, held>>

kill ==
    /\ Running
    /\ phase' = "dead"
    /\ UNCHANGED <<pos, failed, error, completed, disk, retained, leftovers, signal>>

Step == \/ write_held \/ stage_one \/ reserve_one \/ move_out \/ move_in
        \/ roll_back \/ discard_staged \/ discard

Next == Step \/ sigint \/ kill

Spec == Init /\ [][Next]_vars

\* Every file-system call returns, so the write's own next step is taken.
FairSpec == Spec /\ WF_vars(Step)

-----------------------------------------------------------------------------
(* The result of the call: the variant of WriteError, or "ok".             *)

outcome ==
    IF phase # "returned" THEN "pending"
    ELSE CASE error = "none"                        -> "ok"
           [] error = "replace" /\ retained = {}    -> "restored"
           [] error = "replace" /\ retained # {}    -> "partly"
           [] OTHER                                 -> error

TypeOK ==
    /\ phase \in Phases
    /\ pos \in 1 .. N + 1 /\ failed \in 0 .. N /\ completed \in 0 .. N
    /\ error \in Errors
    /\ tree \in [Files -> Contents]
    /\ staging \in [Position -> Contents] /\ backup \in [Position -> Contents]
    /\ retained \subseteq Position
    /\ leftovers \subseteq Sibling
    /\ held \in BOOLEAN /\ interrupted \in BOOLEAN

Injective == \A i, j \in Position : Target[i] = Target[j] => i = j

\* The write is past its last rename: every target is replaced.
Committed == /\ error = "none" /\ completed = N
             /\ phase \in {"drop_backups", "returned", "dead"}
             /\ staging = [i \in Position |-> Missing]

\* An error other than PartlyApplied says that nothing changed or that every
\* original was restored; then every file is as it was, also when two paths
\* of the write resolve to one file.
FailureRestoresTree ==
    outcome \in {"watch", "stage", "reserve", "restored"} =>
        tree = [f \in Files |-> Original(f)]

\* The write that returns no error has replaced every target by its bytes.
SuccessWritesAll ==
    outcome = "ok" => \A i \in Position : tree[Target[i]] = New(i)

\* Until every target is replaced, no interleaving of failures, SIGINT and
\* kills loses an original: it is in its file or in one of its backups.
OriginalsSurvive ==
    ~Committed => \A f \in Files :
        \/ tree[f] = Original(f)
        \/ \E i \in Position : Target[i] = f /\ backup[i] = Original(f)

\* SIGINT ends the process only while no hold is active, and then the write
\* has not begun or is over: no staged file, no reserved backup, no file moved.
SigintNeverTears ==
    phase = "dead" /\ ~held =>
        /\ tree = [f \in Files |-> Original(f)]
        /\ \A i \in Position : staging[i] = Missing /\ backup[i] = Missing

\* The write ends: it returns, or the process is killed.
WriteEnds == <>(phase \in {"returned", "dead"})

-----------------------------------------------------------------------------
(* The refinement of AtomicWrite, for paths that resolve to distinct files *)
(* and cover Files.                                                        *)

PathOf(f) == CHOOSE i \in Position : Target[i] = f

Atomic == INSTANCE AtomicWrite WITH
    Before  <- [f \in Files |-> Original(f)],
    After   <- [f \in Files |-> New(PathOf(f))],
    outcome <- CASE outcome = "ok"      -> "all"
                     [] outcome = "partly"  -> "partly"
                     [] outcome = "pending" -> "pending"
                     [] OTHER               -> "none",
    content <- IF phase = "returned" THEN tree ELSE [f \in Files |-> Original(f)],
    rescue  <- IF outcome = "partly" THEN {Target[i] : i \in retained} ELSE {}

\* The detailed write implements the all-or-nothing write that the module's
\* header promises to its caller.
WritesAtomically == Atomic!Spec
=============================================================================
