------------------------------ MODULE TestRun ------------------------------
(***************************************************************************)
(* One bounded test command in a thread (crates/io/src/testrun.rs), run in *)
(* the thread's scratch worktree: the hold, the captures and the spawn,    *)
(* the wait, the end of the process group and the result.  The thread goes *)
(* spawn, wait, kill, reap, ran, then "after", which the caller models.    *)
(*                                                                         *)
(* A process group has its leader and the children it started.             *)
(***************************************************************************)
EXTENDS Scratch

CONSTANT MaxTime    \* the last value of the clock, which stands for all later times

VARIABLES
    now,            \* the clock, in seconds
    group,          \* [Threads -> the process group of the thread's command]
    run             \* [Threads -> the command: its bound, its start, its status]

testrun == <<now, group, run>>

Groups == {"none", "running", "orphans", "gone"}
Statuses == {"passed", "failed", "timeout", "error"}

NoRun == [time |-> 0, from_budget |-> FALSE, began |-> 0, status |-> None]

InitTestRun ==
    /\ group = [t \in Threads |-> "none"]
    /\ run = [t \in Threads |-> NoRun]

ends(t, s) == run' = [run EXCEPT ![t].status = s]

\* The command cannot be split or started, the watch or the captures fail,
\* or the child starts in a process group of its own.
spawn(t) ==
    /\ \/ go(t, "spawn", "ran") /\ ends(t, "error") /\ fine /\ UNCHANGED <<holds, group>>
       \/ go(t, "spawn", "ran") /\ ends(t, "unusable") /\ fault /\ UNCHANGED <<holds, group>>
       \/ /\ go(t, "spawn", "wait") /\ holds' = holds + 1 /\ fine
          /\ group' = [group EXCEPT ![t] = "running"]
          /\ run' = [run EXCEPT ![t].began = now]
    /\ UNCHANGED <<value, tree, notes, lock, process, now>>

Spent(t) == now - run[t].began >= run[t].time

\* The child exits: its own children may go on.  Otherwise the bound, then a
\* SIGINT, then a failed wait or trim end the wait with the child unreaped.
wait(t) ==
    /\ \/ /\ \E s \in {"passed", "failed"} : go(t, "wait", "ran") /\ ends(t, s) /\ fine
          /\ \E g \in {"orphans", "gone"} : group' = [group EXCEPT ![t] = g]
       \/ /\ Spent(t) \/ now = MaxTime
          /\ go(t, "wait", "kill") /\ ends(t, "timeout") /\ fine /\ UNCHANGED group
       \/ /\ ~Spent(t) /\ interrupted
          /\ go(t, "wait", "kill") /\ ends(t, "interrupted") /\ fine /\ UNCHANGED group
       \/ ~Spent(t) /\ go(t, "wait", "kill") /\ ends(t, "unusable") /\ fault /\ UNCHANGED group
    /\ UNCHANGED <<value, tree, notes, lock, holds, process, now>>

\* SIGTERM to the group, and the grace; a signal that fails is noted.
terminate(t) ==
    /\ go(t, "kill", "reap")
    /\ \/ /\ \E g \in {"running", "orphans", "gone"} : group' = [group EXCEPT ![t] = g]
          /\ fine /\ UNCHANGED notes
       \/ UNCHANGED group /\ notes_add(t, {"group"}) /\ fault
    /\ UNCHANGED <<value, tree, lock, holds, process, now, run>>

\* SIGKILL to the group even when the leader exited, and the reap: a signal
\* that fails, and a leader that is not reaped, are noted.
kill(t) ==
    /\ go(t, "reap", "ran")
    /\ \/ group' = [group EXCEPT ![t] = "gone"] /\ fine /\ UNCHANGED notes
       \/ UNCHANGED group /\ group[t] # "gone" /\ notes_add(t, {"group"}) /\ fault
    /\ UNCHANGED <<value, tree, lock, holds, process, now, run>>

\* The result, the end of the hold, and run_command's own SIGINT check.  The
\* captures of a command that ran may not read.
ran(t) ==
    /\ go(t, "ran", "after")
    /\ holds' = IF group[t] = "none" THEN holds ELSE holds - 1
    /\ \/ /\ run[t].status \in Statuses
          /\ gives(t, IF interrupted THEN "stopped" ELSE "ok") /\ fine
       \/ run[t].status \in Statuses \ {"error"} /\ gives(t, "failed") /\ fault
       \/ run[t].status = "unusable" /\ gives(t, "failed") /\ fine
       \/ run[t].status = "interrupted" /\ gives(t, "stopped") /\ fine
    /\ group' = [group EXCEPT ![t] = "none"]
    /\ UNCHANGED <<tree, notes, lock, process, now, run>>

\* The clock goes on while the process runs.
tick ==
    /\ alive /\ now < MaxTime /\ now' = now + 1
    /\ UNCHANGED <<scratch, group, run>>

-----------------------------------------------------------------------------
=============================================================================
