----------------------------- MODULE CacheSweep ----------------------------
(***************************************************************************)
(* The sweep that follows an index run (crates/store/src/sweep.rs, called  *)
(* by swept of crates/app/src/index.rs) among the other processes that     *)
(* share the cache root: index runs of other repositories, each with its   *)
(* own sweep, and sessions that open a database and then stamp its         *)
(* modification time (Tags::touch of crates/app/src/tags.rs).              *)
(*                                                                         *)
(* A run holds its database's lock while it writes and gives it up before  *)
(* it sweeps.  The sweep weighs every database without a lock, plans, and  *)
(* then takes the lock of each victim, reads its time again and removes    *)
(* it.  A stamp takes no lock.                                             *)
(***************************************************************************)
EXTENDS EvictPlan

CONSTANTS
    Listing,        \* the databases in the order of cache_entries
    Size,           \* [databases -> bytes]
    Runs,           \* the index runs
    Own,            \* [Runs -> the database that the run writes]
    Limit,          \* the ceiling
    MaxClock,       \* the bound on the clock
    None            \* no lock holder

Databases == Range(Listing)

ASSUME ListingAssumption == IsInjective(Listing)
ASSUME OwnAssumption == Own \in [Runs -> Databases]

VARIABLES
    clock,          \* the time
    mtime,          \* [databases -> the time of its file, or -1: no file]
    lock,           \* [databases -> the run that holds agentless.lock]
    run,            \* [Runs -> its step, its `now`, its victims, its report]
    session,        \* the databases that a session opened and did not stamp yet
    removed,        \* how many databases left the disk
    late            \* the databases stamped while a sweep holds their lock

vars == <<clock, mtime, lock, run, session, removed, late>>

Gone == -1

Init ==
    /\ clock = PROTECTED_SECONDS + 1
    /\ mtime \in [Databases -> {Gone, 0}]
    /\ lock = [d \in Databases |-> None]
    /\ run = [r \in Runs |-> [pc |-> "idle", now |-> 0, victims |-> <<>>, databases |-> 0]]
    /\ session = {}
    /\ removed = 0
    /\ late = {}

victim(r) == Head(run[r].victims).database

\* The sweep is done with its first victim.
next_victim(r) == [run[r] EXCEPT !.victims = Tail(@), !.pc = "sweeping"]

-----------------------------------------------------------------------------
(* An index run.                                                           *)

index_open(r) ==
    /\ run[r].pc = "idle" /\ lock[Own[r]] = None
    /\ lock' = [lock EXCEPT ![Own[r]] = r]
    /\ run' = [run EXCEPT ![r].pc = "writing"]
    /\ UNCHANGED <<clock, mtime, session, removed, late>>

\* The write ends and the lock is released.  The rows of an existing database
\* stay in its write-ahead log while a session has it open, and the time of
\* the file with them.  A session that has stamped it is not followed: calls
\* are far shorter than the window, so its stamp is recent.
written(r) ==
    /\ run[r].pc = "writing"
    /\ \/ mtime' = [mtime EXCEPT ![Own[r]] = clock]
       \/ Own[r] \in session /\ mtime[Own[r]] # Gone /\ UNCHANGED mtime
    /\ lock' = [lock EXCEPT ![Own[r]] = None]
    /\ run' = [run EXCEPT ![r].pc = "written"]
    /\ UNCHANGED <<clock, session, removed, late>>

\* swept and cache_entries: the time of the sweep, then the weighing of every
\* database that is there.
cache_entries ==
    LET there == SelectSeq(Listing, LAMBDA d : mtime[d] # Gone)
    IN  [i \in DOMAIN there |->
            [database |-> there[i], size |-> Size[there[i]], used_at |-> mtime[there[i]]]]

enforce_cache_limit(r) ==
    /\ run[r].pc = "written"
    /\ run' = [run EXCEPT ![r].pc = "sweeping", ![r].now = clock,
                          ![r].victims = evict_plan(cache_entries, Limit, Own[r], clock)]
    /\ UNCHANGED <<clock, mtime, lock, session, removed, late>>

\* A victim whose lock is held is kept.
evicted_locked(r) ==
    /\ run[r].pc = "sweeping" /\ run[r].victims # <<>>
    /\ lock[victim(r)] # None
    /\ run' = [run EXCEPT ![r] = next_victim(r)]
    /\ UNCHANGED <<clock, mtime, lock, session, removed, late>>

evicted(r) ==
    /\ run[r].pc = "sweeping" /\ run[r].victims # <<>>
    /\ lock[victim(r)] = None
    /\ lock' = [lock EXCEPT ![victim(r)] = r]
    /\ run' = [run EXCEPT ![r].pc = "recheck"]
    /\ UNCHANGED <<clock, mtime, session, removed, late>>


\* Under the lock: a victim that is gone, or was used since the plan, is kept.
evict_victim(r) ==
    /\ run[r].pc = "recheck"
    /\ IF mtime[victim(r)] = Gone \/ mtime[victim(r)] >= run[r].now - PROTECTED_SECONDS
       THEN /\ lock' = [lock EXCEPT ![victim(r)] = None]
            /\ late' = late \ {victim(r)}
            /\ run' = [run EXCEPT ![r] = next_victim(r)]
       ELSE /\ run' = [run EXCEPT ![r].pc = "remove"]
            /\ UNCHANGED <<lock, late>>
    /\ UNCHANGED <<clock, mtime, session, removed>>


\* The remove counts when the database was still there.  One that fails is a
\* warning: nothing left the disk.
remove_database(r) ==
    /\ run[r].pc = "remove"
    /\ \/ /\ mtime' = [mtime EXCEPT ![victim(r)] = Gone]
          /\ removed' = IF mtime[victim(r)] = Gone THEN removed ELSE removed + 1
          /\ run' = [run EXCEPT ![r] = [next_victim(r) EXCEPT
                        !.databases = IF mtime[victim(r)] = Gone THEN @ ELSE @ + 1]]
       \/ /\ run' = [run EXCEPT ![r] = next_victim(r)]
          /\ UNCHANGED <<mtime, removed>>
    /\ lock' = [lock EXCEPT ![victim(r)] = None]
    /\ late' = late \ {victim(r)}
    /\ UNCHANGED <<clock, session>>

-----------------------------------------------------------------------------
(* Sessions and the clock.                                                 *)

\* A session opens a database that is there, and stamps it later; the stamp
\* never creates the file.
open_facts(d) ==
    /\ mtime[d] # Gone /\ d \notin session
    /\ session' = session \cup {d}
    /\ UNCHANGED <<clock, mtime, lock, run, removed, late>>

touch(d) ==
    /\ d \in session
    /\ session' = session \ {d}
    /\ IF mtime[d] = Gone
       THEN UNCHANGED <<mtime, late>>
       ELSE /\ mtime' = [mtime EXCEPT ![d] = clock]
            /\ late' = IF lock[d] # None /\ run[lock[d]].pc \in {"recheck", "remove"}
                       THEN late \cup {d} ELSE late
    /\ UNCHANGED <<clock, lock, run, removed>>

tick ==
    /\ clock < MaxClock
    /\ clock' = clock + 1
    /\ UNCHANGED <<mtime, lock, run, session, removed, late>>

RunStep(r) == \/ index_open(r) \/ written(r) \/ enforce_cache_limit(r)
              \/ evicted_locked(r) \/ evicted(r) \/ evict_victim(r) \/ remove_database(r)

Next == \/ \E r \in Runs : RunStep(r)
        \/ \E d \in Databases : open_facts(d) \/ touch(d)
        \/ tick

Spec == Init /\ [][Next]_vars

-----------------------------------------------------------------------------
(* The properties.                                                         *)

TypeOK ==
    /\ clock \in Nat
    /\ mtime \in [Databases -> Nat \cup {Gone}]
    /\ lock \in [Databases -> Runs \cup {None}]
    /\ \A r \in Runs :
          /\ run[r].pc \in {"idle", "writing", "written", "sweeping", "recheck", "remove"}
          /\ run[r].now \in Nat /\ run[r].databases \in Nat
          /\ \A i \in DOMAIN run[r].victims : run[r].victims[i].database \in Databases
    /\ session \subseteq Databases /\ late \subseteq Databases
    /\ removed \in Nat
    /\ \A d \in Databases :
          lock[d] # None => run[lock[d]].pc \in {"writing", "recheck", "remove"}

Leaves(d) == mtime[d] # Gone /\ mtime'[d] = Gone
Recent(d) == mtime[d] >= clock - PROTECTED_SECONDS


=============================================================================
