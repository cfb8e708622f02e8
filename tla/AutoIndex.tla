----------------------------- MODULE AutoIndex -----------------------------
(***************************************************************************)
(* The background index of the MCP server (crates/mcp/src/autoindex.rs)    *)
(* for one repository: the registry of attempts, the calls that arm it     *)
(* after they open their session (crates/app/src/tags.rs), and the index   *)
(* runs on their own threads (crates/app/src/index.rs).  FactsDb has the   *)
(* detail of the database; here it is absent, created with no meta row, or *)
(* built at a generation.                                                  *)
(*                                                                         *)
(* A generation is the tree of HEAD, here a number that a commit raises.   *)
(* An arming reads the registry, decides, and takes the registry's mutex   *)
(* again to start a run; calls, runs, commits and the cache sweep of other *)
(* processes interleave between those steps.                               *)
(***************************************************************************)
EXTENDS Integers, FiniteSets

CONSTANTS
    Slots,          \* the threads that a background run can take
    MaxGeneration,  \* the bound on commits
    Settings,       \* the clients and repositories to look at; see setting
    None            \* no run, no lock holder

ASSUME MaxAssumption == MaxGeneration \in Nat \ {0}

VARIABLES
    setting,        \* callers: the calls that the server works on at once,
                    \* last: the last generation, evictions: of other processes,
                    \* found: the database that the server finds,
                    \* faults: whether walks, thread starts and runs can fail
    head,           \* the generation of the repository now
    db,             \* Absent, Created, or the generation it was built at
    lock,           \* the slot whose run holds agentless.lock, or None
    registry,       \* the Run of the database: its slot and its generation
    call,           \* [Callers -> the state of the call]
    run,            \* [Slots -> the state of the thread]
    evictions,      \* how many sweeps took the database
    attempts        \* [generation -> how many runs were started for it]

vars == <<setting, head, db, lock, registry, call, run, evictions, attempts>>

Generation == 1 .. MaxGeneration
Callers == UNION {s.callers : s \in Settings}
Absent == 0
Created == -1
UNAVAILABLE == -2

\* Run::running: the thread of the registered attempt has not ended.
running(entry) == entry.slot # None /\ run[entry.slot].pc # "ended"

\* Variant: a database of any generation counts as fresh.
attempted_any(c) == call[c].found \in Generation \/ call[c].previous = call[c].gen

\* The arming needs no refresh: the database is at the generation, or the
\* last attempt was for it.
attempted(c) == call[c].found = call[c].gen \/ call[c].previous = call[c].gen

Between == [pc |-> "idle", found |-> Absent, gen |-> 0, previous |-> 0]
Ended == [pc |-> "ended", gen |-> 0]

Init ==
    /\ setting \in Settings
    /\ head = 1
    /\ db = setting.found
    /\ lock = None
    /\ registry = [slot |-> None, gen |-> 0]
    /\ call = [c \in Callers |-> Between]
    /\ run = [s \in Slots |-> Ended]
    /\ evictions = 0
    /\ attempts = [g \in Generation |-> 0]

-----------------------------------------------------------------------------
(* A call: the open and the git snapshot run side by side, the discard and *)
(* the arming follow.                                                      *)

\* The open of the database, and then the git snapshot.
open_facts(c) ==
    /\ c \in setting.callers /\ call[c].pc = "idle"
    /\ call' = [call EXCEPT ![c].pc = "opened", ![c].found = db]
    /\ UNCHANGED <<setting, head, db, lock, registry, run, evictions, attempts>>

snapshot(c) ==
    /\ call[c].pc = "opened"
    /\ call' = [call EXCEPT ![c].pc = "settled", ![c].gen = head]
    /\ UNCHANGED <<setting, head, db, lock, registry, run, evictions, attempts>>

\* A database with no meta row was refused at the open; it is removed now,
\* unless a run holds the lock.  The remove tests nothing again.
discarded(c) ==
    /\ call[c].pc = "settled"
    /\ IF call[c].found = Created /\ lock = None
       THEN db' = Absent
       ELSE UNCHANGED db
    /\ call' = [call EXCEPT ![c].pc = "arming"]
    /\ UNCHANGED <<setting, head, lock, registry, run, evictions, attempts>>

\* last: a live run and an attempt with no generation block the arming.
last(c) ==
    /\ call[c].pc = "arming"
    /\ call' = IF running(registry) \/ registry.gen = UNAVAILABLE
               THEN [call EXCEPT ![c] = Between]
               ELSE [call EXCEPT ![c].pc = "armed", ![c].previous = registry.gen]
    /\ UNCHANGED <<setting, head, db, lock, registry, run, evictions, attempts>>

nothing(c) ==
    /\ call[c].pc = "armed"
    /\ attempted(c)
    /\ call' = [call EXCEPT ![c] = Between]
    /\ UNCHANGED <<setting, head, db, lock, registry, run, evictions, attempts>>

\* The generation of a tree outside git needs a walk that can fail.  The
\* record of that never replaces a live run.
record(c) ==
    /\ setting.faults
    /\ call[c].pc = "armed"
    /\ call[c].found \in {Absent, Created}
    /\ registry' = IF running(registry) THEN registry
                   ELSE [slot |-> None, gen |-> UNAVAILABLE]
    /\ call' = [call EXCEPT ![c] = Between]
    /\ UNCHANGED <<setting, head, db, lock, run, evictions, attempts>>


\* Under the registry's mutex: a racer may have registered the generation.
\* The attempt is registered whether or not its thread starts.
start(c) ==
    /\ call[c].pc = "armed"
    /\ ~attempted(c)
    /\ IF registry.gen = call[c].gen
       THEN UNCHANGED <<registry, run, attempts>>
       ELSE /\ attempts' = [attempts EXCEPT ![call[c].gen] = @ + 1]
            /\ \/ \E s \in Slots :
                     /\ run[s].pc = "ended"
                     /\ run' = [run EXCEPT ![s] = [pc |-> "started", gen |-> call[c].gen]]
                     /\ registry' = [slot |-> s, gen |-> call[c].gen]
               \/ /\ setting.faults
                  /\ registry' = [slot |-> None, gen |-> call[c].gen]
                  /\ UNCHANGED run
    /\ call' = [call EXCEPT ![c] = Between]
    /\ UNCHANGED <<setting, head, db, lock, evictions>>

-----------------------------------------------------------------------------
(* A background run, at the generation of the session that started it.     *)

\* The lock of another run stops this one: CacheLocked.  Otherwise the open
\* creates the database when it is missing.
index_open(s) ==
    /\ run[s].pc = "started"
    /\ IF lock # None
       THEN run' = [run EXCEPT ![s] = Ended] /\ UNCHANGED <<db, lock>>
       ELSE /\ lock' = s
            /\ db' = IF db = Absent THEN Created ELSE db
            /\ run' = [run EXCEPT ![s].pc = "locked"]
    /\ UNCHANGED <<setting, head, registry, call, evictions, attempts>>

\* The write of the rows and of the meta row, or a failure before it; either
\* way the lock is released and the thread ends.
index_write(s) ==
    /\ run[s].pc = "locked"
    /\ \/ db' = run[s].gen
       \/ setting.faults /\ UNCHANGED db
    /\ lock' = None
    /\ run' = [run EXCEPT ![s] = Ended]
    /\ UNCHANGED <<setting, head, registry, call, evictions, attempts>>

-----------------------------------------------------------------------------
(* The environment.                                                        *)

commit ==
    /\ head < setting.last
    /\ head' = head + 1
    /\ UNCHANGED <<setting, db, lock, registry, call, run, evictions, attempts>>

\* The sweep of an index run of another repository takes the database.
evict ==
    /\ evictions < setting.evictions
    /\ db \in Generation /\ lock = None
    /\ db' = Absent
    /\ evictions' = evictions + 1
    /\ UNCHANGED <<setting, head, lock, registry, call, run, attempts>>

CallStep(c) == \/ open_facts(c) \/ snapshot(c) \/ discarded(c) \/ last(c)
               \/ nothing(c) \/ record(c) \/ start(c)
RunStep(s) == index_open(s) \/ index_write(s)

Next == \/ \E c \in Callers : CallStep(c)
        \/ \E s \in Slots : RunStep(s)
        \/ commit \/ evict

Spec == Init /\ [][Next]_vars

\* Clients keep calling, and the operating system schedules every thread.
Fairness == /\ \A c \in Callers : WF_vars(CallStep(c))
            /\ \A s \in Slots : WF_vars(RunStep(s))

FairSpec == Spec /\ Fairness

-----------------------------------------------------------------------------
(* The properties.                                                         *)

Database == Generation \cup {Absent, Created}

TypeOK ==
    /\ head \in Generation
    /\ db \in Database
    /\ lock \in Slots \cup {None}
    /\ registry \in [slot : Slots \cup {None}, gen : Generation \cup {0, UNAVAILABLE}]
    /\ call \in [Callers -> [pc : {"idle", "opened", "settled", "arming", "armed"},
                             found : Database, gen : Generation \cup {0},
                             previous : Generation \cup {0}]]
    /\ run \in [Slots -> [pc : {"started", "locked", "ended"}, gen : Generation \cup {0}]]
    /\ setting \in Settings /\ evictions \in 0 .. setting.evictions
    /\ attempts \in [Generation -> Nat]

\* The clients call one at a time.
Sequential == Cardinality(setting.callers) = 1



\* Every head that rests gets its attempt, whatever calls and runs overlap,
\* unless the database is at that head already.
HeadIsAttempted == ~setting.faults => <>[](attempts[head] > 0 \/ db = head)

\* An evicted repository is indexed again by the calls that follow.
EvictedIsReindexed == (db = Absent) ~> (db \in Generation)
=============================================================================
