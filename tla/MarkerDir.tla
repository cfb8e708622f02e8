----------------------------- MODULE MarkerDir -----------------------------
(***************************************************************************)
(* A marker directory that hook processes share (crates/hook/src/search/   *)
(* marker.rs and crates/hook/src/prompt_map.rs): a fixed directory under   *)
(* the temporary one that any process of the user creates when it is       *)
(* missing, that counts only when it is private to the user, and that a    *)
(* cleaner may empty at any time.  Hook processes are short-lived; a       *)
(* process slot stands for a process id, which a later process may get     *)
(* again.                                                                  *)
(***************************************************************************)
EXTENDS Integers, FiniteSets

CONSTANTS
    Procs,          \* the process ids
    Sessions,       \* the sessions
    MaxCalls,       \* the bound on the hook calls
    MaxFaults,      \* the bound on failed operations, crashes and clears
    None            \* a model value: nothing

VARIABLES
    full,           \* TRUE when the file system takes no new file
    dir,            \* "missing", "private", or "foreign": another user's
    markers,        \* the sessions whose marker is in the directory
    probes,         \* the processes whose write probe is in the directory
    at,             \* [Procs -> where the process is, "idle" when there is none]
    call,           \* [Procs -> its payload]
    code,           \* [Procs -> the exit code of its last call, None before]
    stable,         \* [Procs -> the directory was not cleared since its call began]
    calls,          \* the calls so far
    faults          \* the faults so far

directory == <<full, dir, markers, probes>>
vars == <<directory, at, call, code, stable, calls, faults>>

Fails == faults < MaxFaults /\ faults' = faults + 1
Works == UNCHANGED faults

InitDir ==
    /\ full \in BOOLEAN
    /\ dir \in {"missing", "private"} /\ markers = {} /\ probes = {}
    /\ at = [p \in Procs |-> "idle"] /\ call = [p \in Procs |-> None]
    /\ code = [p \in Procs |-> None] /\ stable = [p \in Procs |-> TRUE]
    /\ calls = 0 /\ faults = 0

\* A hook process starts with its payload.
Begins(p, payload) ==
    /\ at[p] = "idle" /\ calls < MaxCalls
    /\ at' = [at EXCEPT ![p] = "parse"]
    /\ call' = [call EXCEPT ![p] = payload]
    /\ code' = [code EXCEPT ![p] = None]
    /\ stable' = [stable EXCEPT ![p] = TRUE]
    /\ calls' = calls + 1
    /\ UNCHANGED <<directory, faults>>

\* A step of a process that leaves the directory alone.
Moves(p, from, to) ==
    /\ at[p] = from
    /\ at' = [at EXCEPT ![p] = to]
    /\ UNCHANGED <<call, stable, calls>>

Exits(p, from, status) ==
    /\ at[p] = from
    /\ at' = [at EXCEPT ![p] = "idle"]
    /\ code' = [code EXCEPT ![p] = status]
    /\ UNCHANGED <<call, stable, calls>>

Stays == UNCHANGED <<directory, code>>

\* The directory is created with mode 0700 when it is missing; one that exists
\* keeps its mode. A creation that fails goes to `otherwise`.
create_missing_owner_dir(p, to, otherwise) ==
    \/ /\ Works
       /\ Moves(p, "mkdir", IF full /\ dir = "missing" THEN otherwise ELSE to)
       /\ dir' = IF dir = "missing" /\ ~full THEN "private" ELSE dir
       /\ UNCHANGED <<full, markers, probes, code>>
    \/ Fails /\ Moves(p, "mkdir", otherwise) /\ Stays

trusted == dir = "private"

\* Only a real directory that this user owns and nobody else can write counts.
is_private_directory(p, to, otherwise) ==
    Works /\ Moves(p, "trust", IF trusted THEN to ELSE otherwise) /\ Stays

\* A process dies where it stands.
Crash(p) ==
    /\ at[p] # "idle" /\ Fails
    /\ at' = [at EXCEPT ![p] = "idle"]
    /\ UNCHANGED <<directory, call, code, stable, calls>>

\* A cleaner or a reboot empties the temporary directory.
Clear ==
    /\ dir # "missing" /\ Fails
    /\ dir' = "missing" /\ markers' = {} /\ probes' = {}
    /\ stable' = [p \in Procs |-> FALSE]
    /\ UNCHANGED <<full, at, call, code, calls>>

\* Another user creates the directory first.
Occupy ==
    /\ dir = "missing" /\ Fails
    /\ dir' = "foreign"
    /\ UNCHANGED <<full, markers, probes, at, call, code, stable, calls>>
=============================================================================
