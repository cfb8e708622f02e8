---------------------------- MODULE ErosionGate ----------------------------
(***************************************************************************)
(* The erosion gate (crates/hook/src: lib.rs, gate.rs, call.rs,            *)
(* signals.rs, worker.rs, verdict.rs, modes.rs): one process that answers  *)
(* one PreToolUse payload.  Three threads share it.  The main thread runs  *)
(* the steps, notes what it learns in the call's record and settles the    *)
(* call; the lint worker runs on its own and may outlive the wait for it;  *)
(* the SIGTERM watcher settles a call that still runs and exits.  The two  *)
(* settles race for the record under one mutex, and a fourth actor, the    *)
(* log, may refuse the record.                                             *)
(*                                                                         *)
(* Texts are left out: a lint row is its check and what it says (a         *)
(* finding, a gap, or a gap that only means the check is off here), and a  *)
(* record is its outcome and its logged findings.  Time is a counter in    *)
(* units of the log reserve; a timed wait ends at the instant it is due.   *)
(***************************************************************************)
EXTENDS Integers, Sequences, FiniteSets

CONSTANTS
    Checks,         \* the gated checks
    EnvGates,       \* the values of AGENTLESS_EROSION_GATE that are tried
    Configs,        \* the erosion_gate entries tried, [Checks -> Modes \cup {Unset}]
    Reports,        \* the sets of rows that a lint may return
    DEADLINE,       \* the call's deadline, from its start
    LOG_RESERVE,    \* held back from every step's time
    GIT_TIMEOUT,    \* the cap on git's time
    MaxTime,        \* the bound on the clock
    None            \* a model value: nothing

VARIABLES
    env_gate,       \* the environment value
    config,         \* the repository's entries
    logging,        \* TRUE when a log is set
    at,             \* where the main thread is
    modes,          \* [Checks -> Modes] once configured, else None
    until,          \* when the wait of the current step is over
    slot,           \* the worker's slot: None, or how the lint finished
    worker,         \* "none", "running" or "ended"
    found,          \* the rows of the lint that finished in time
    decision,       \* the exit code that the main thread decided on
    phase,          \* the record while the call runs, None once it is settled
    taken,          \* the record that a settle took out of the phase
    lock,           \* None, or "watcher" while the watcher holds the mutex
    watch,          \* "none", "armed", "unwatched" or "closed"
    pending,        \* TRUE while a SIGTERM waits for the watcher
    log,            \* the records appended
    said,           \* TRUE when a failed append is on stderr
    exit,           \* None while the process runs, else how it ended
    now

input == <<env_gate, config, logging>>
steps == <<at, modes, until, found, decision>>
work == <<slot, worker>>
settling == <<phase, taken, lock>>
signals == <<watch, pending>>
ends == <<log, said, exit>>
vars == <<input, steps, work, settling, signals, ends, now>>

Modes == {"off", "advisory", "block"}
Unset == "unset"
Outcomes == {"clean", "advisory", "blocked", "degraded", "skipped"}
Rows == [check : Checks, says : {"finding", "gap", "off"}]
Blank == [outcome |-> None, findings |-> {}]

\* The steps that can halt the gate, with the outcomes they halt it with; a
\* panic of any step halts it as an internal error, which is degraded.
Halts == [read |-> {"degraded"}, payload |-> {"skipped", "degraded"},
          locate |-> {"skipped", "degraded"}, root |-> {"skipped", "degraded"},
          configure |-> {"degraded"}, propose |-> {"skipped", "degraded"},
          lint |-> {"degraded"}, classify |-> {"degraded"}]

Places == DOMAIN Halts \cup {"start", "watch", "git", "linting", "settle", "append",
                             "stop", "write", "done"}

Running == exit = None

----------------------------------------------------------------------------
(* Modes, rows and the verdict.                                            *)

\* A variable that names no default mode, "off" included, gives advisory.
default_mode(value) == IF value \in {"advisory", "block"} THEN value ELSE "advisory"

resolve(entries, value) ==
    [c \in Checks |-> IF entries[c] # Unset THEN entries[c] ELSE default_mode(value)]

active(ms) == {c \in Checks : ms[c] # "off"}

\* The rows by mode: a finding blocks in block mode and advises in every
\* other; a row that says its check is off here is no gap.
classify(rows, ms) ==
    LET findings == {r \in rows : r.says = "finding"}
    IN [blocking |-> {r \in findings : ms[r.check] = "block"},
        advisory |-> {r \in findings : ms[r.check] # "block"},
        gaps     |-> {r \in rows : r.says = "gap"}]

\* What the record says of a verdict.
Outcome(v) ==
    IF v.blocking # {} THEN "blocked"
    ELSE IF v.advisory # {} THEN "advisory"
    ELSE IF v.gaps # {} THEN "degraded"
    ELSE "clean"

\* Variant: any finding blocks.
decision_any(v) ==
    [code |-> IF v.blocking \cup v.advisory # {} THEN 2 ELSE 0, reply |-> FALSE]

\* What the process answers to a verdict: the exit code, and whether stdout
\* carries the advisory reply.
Decision(v) ==
    [code |-> IF v.blocking # {} THEN 2 ELSE 0,
     reply |-> v.blocking = {} /\ v.advisory # {}]

Silent == [code |-> 0, reply |-> FALSE]

\* The time a step may use, 0 when nothing is left.
budget ==
    IF DEADLINE - now - LOG_RESERVE > 0 THEN DEADLINE - now - LOG_RESERVE ELSE 0

Smaller(a, b) == IF a < b THEN a ELSE b

----------------------------------------------------------------------------
Init ==
    /\ env_gate \in EnvGates /\ config \in Configs /\ logging \in BOOLEAN
    /\ at = "start" /\ modes = None /\ until = 0 /\ found = {} /\ decision = Silent
    /\ slot = None /\ worker = "none"
    /\ phase = Blank /\ taken = None /\ lock = None
    /\ watch = "none" /\ pending = FALSE
    /\ log = <<>> /\ said = FALSE /\ exit = None
    /\ now = 0

\* The variable that turns the gate off ends the call before anything is read.
Start ==
    /\ Running /\ at = "start"
    /\ at' = IF env_gate = "off" THEN "write" ELSE "watch"
    /\ UNCHANGED <<input, modes, until, found, decision, work, settling, signals, ends, now>>

\* The watch may fail to start: the gate goes on, and SIGTERM is not settled.
Watch ==
    /\ Running /\ at = "watch"
    /\ at' = "read"
    /\ watch' \in {"armed", "unwatched"}
    /\ UNCHANGED <<input, modes, until, found, decision, work, settling, pending, ends, now>>

\* A note writes into the record of a call that still runs; it takes the mutex.
Note(record) == phase' = IF phase = None THEN None ELSE record

\* A step that succeeds notes what it learned and goes on.
Goes(from, to) ==
    /\ Running /\ at = from /\ lock = None
    /\ at' = to
    /\ UNCHANGED <<input, modes, found, decision, work, settling, signals, ends, now>>

\* The payload is read, decoded and identified; then its fields are read.
Read == Goes("read", "payload") /\ UNCHANGED until
Payload == Goes("payload", "locate") /\ UNCHANGED until

\* The path is resolved and has a tier-1 suffix, and git has time left.
Locate ==
    /\ budget > 0
    /\ Goes("locate", "git")
    /\ until' = now + Smaller(budget, GIT_TIMEOUT)

\* Git answers, or it is stopped at its timeout and the gate halts.
GitAnswers == now < until /\ Goes("git", "root") /\ UNCHANGED until

\* A halt notes its outcome; the answer stays the silent exit 0.
Halt(outcome) ==
    /\ Running /\ lock = None
    /\ Note([Blank EXCEPT !.outcome = outcome])
    /\ decision' = Silent
    /\ at' = "settle"
    /\ UNCHANGED <<input, modes, until, found, work, taken, lock, signals, ends, now>>

GitStopped == at = "git" /\ now = until /\ Halt("degraded")

\* The root is decoded and holds the path.
Root == Goes("root", "configure") /\ UNCHANGED until

\* The modes are resolved; a repository with every check off is skipped.
Configure ==
    /\ at = "configure" /\ Running /\ lock = None
    /\ LET ms == resolve(config, env_gate) IN
         /\ modes' = ms
         /\ at' = IF active(ms) = {} THEN "settle" ELSE "propose"
         /\ IF active(ms) = {} THEN Note([Blank EXCEPT !.outcome = "skipped"])
                               ELSE UNCHANGED phase
    /\ UNCHANGED <<input, until, found, decision, work, taken, lock, signals, ends, now>>

Propose == Goes("propose", "lint") /\ UNCHANGED until

\* The lint starts on its own thread with the time that is left.
Lint ==
    /\ at = "lint" /\ Running /\ lock = None /\ budget > 0
    /\ at' = "linting"
    /\ until' = now + budget
    /\ worker' = "running"
    /\ UNCHANGED <<input, modes, found, decision, slot, settling, signals, ends, now>>

\* A step halts the gate: its input is not the gate's, or it failed or panicked.
HaltAt(place, outcome) == at = place /\ outcome \in Halts[place] /\ Halt(outcome)

\* The worker fills the slot, before or after the wait for it ended.
WorkerEnds ==
    /\ Running /\ worker = "running"
    /\ worker' = "ended"
    /\ slot' \in [how : {"done"}, rows : {r \in Reports : \A x \in r : x.check \in active(modes)}]
                   \cup [how : {"failed", "panicked"}, rows : {{}}]
    /\ UNCHANGED <<input, steps, settling, signals, ends, now>>

\* The wait ends with the slot filled, or at the deadline with it empty.
Linted ==
    /\ Running /\ at = "linting" /\ slot # None /\ slot.how = "done"
    /\ found' = slot.rows /\ slot' = None
    /\ at' = "classify"
    /\ UNCHANGED <<input, modes, until, decision, worker, settling, signals, ends, now>>

\* Variant: the wait for the lint has no end.
lint_fails_untimed == at = "linting" /\ slot # None /\ slot.how # "done" /\ Halt("degraded")

LintFails == /\ at = "linting"
             /\ \/ slot = None /\ now = until
                \/ slot # None /\ slot.how # "done"
             /\ Halt("degraded")

\* The rows give the verdict: the answer first, then the note of the outcome.
Classify ==
    /\ Running /\ at = "classify" /\ lock = None
    /\ LET v == classify(found, modes) IN
         /\ decision' = Decision(v)
         /\ Note([outcome |-> Outcome(v), findings |-> v.blocking \cup v.advisory])
    /\ at' = "settle"
    /\ UNCHANGED <<input, modes, until, found, work, taken, lock, signals, ends, now>>

\* The settle takes the record under the mutex and lets the mutex go; a call
\* that the watcher settled gives no answer.
Settle ==
    /\ Running /\ at = "settle" /\ lock = None
    /\ phase' = None
    /\ IF phase # None
       THEN taken' = phase /\ at' = "append" /\ UNCHANGED decision
       ELSE decision' = Silent /\ at' = "stop" /\ UNCHANGED taken
    /\ UNCHANGED <<input, modes, until, found, work, lock, signals, ends, now>>

\* One append of one line; a failure is said on stderr. No log, no line.
Appends(record) ==
    \/ logging /\ log' = Append(log, record) /\ UNCHANGED said
    \/ logging /\ said' = TRUE /\ UNCHANGED log
    \/ ~logging /\ UNCHANGED <<log, said>>

AppendRecord ==
    /\ Running /\ at = "append"
    /\ Appends(taken)
    /\ at' = "stop"
    /\ UNCHANGED <<input, modes, until, found, decision, work, settling, signals, exit, now>>

\* The watch is closed and its thread joined: a thread that is settling the
\* call never returns. From here SIGTERM has no action.
Stop ==
    /\ Running /\ at = "stop" /\ lock = None
    /\ watch' = IF watch = "armed" THEN "closed" ELSE watch
    /\ pending' = FALSE
    /\ at' = "write"
    /\ UNCHANGED <<input, modes, until, found, decision, work, settling, ends, now>>

\* The answer is written and the process exits with the decided code.
Answer ==
    /\ Running /\ at = "write"
    /\ exit' = [by |-> "main", code |-> decision.code, reply |-> decision.reply]
    /\ at' = "done"
    /\ UNCHANGED <<input, modes, until, found, decision, work, settling, signals, log, said, now>>

----------------------------------------------------------------------------
(* The SIGTERM and its watcher.                                            *)

\* A SIGTERM before the watch kills the process (a watch that failed may
\* have left either action); a watched one waits for the watcher; a closed
\* watch ignores it.
Killed ==
    /\ Running /\ watch \in {"none", "unwatched"} /\ at # "done"
    /\ exit' = [by |-> "signal", code |-> 15, reply |-> FALSE]
    /\ UNCHANGED <<input, steps, work, settling, signals, log, said, now>>

Sigterm ==
    /\ Running /\ watch = "armed" /\ ~pending /\ lock = None
    /\ pending' = TRUE
    /\ UNCHANGED <<input, steps, work, settling, watch, ends, now>>

\* Variant: the watcher ends a call whether or not it is settled.
terminate_settled ==
    /\ Running /\ watch = "armed" /\ pending
    /\ pending' = FALSE
    /\ taken' = [Blank EXCEPT !.outcome = "degraded"]
    /\ lock' = "watcher"
    /\ UNCHANGED <<input, steps, work, phase, watch, ends, now>>

\* The watcher takes the mutex. A call that still runs ends degraded, and the
\* mutex stays held through the append and the exit.
Terminate ==
    /\ Running /\ watch = "armed" /\ pending /\ lock = None
    /\ pending' = FALSE
    /\ IF phase # None
       THEN /\ taken' = [phase EXCEPT !.outcome = "degraded"]
            /\ phase' = None
            /\ lock' = "watcher"
       ELSE UNCHANGED settling
    /\ UNCHANGED <<input, steps, work, watch, ends, now>>

TerminateExits ==
    /\ Running /\ lock = "watcher"
    /\ Appends(taken)
    /\ exit' = [by |-> "watcher", code |-> 0, reply |-> FALSE]
    /\ UNCHANGED <<input, steps, work, settling, signals, now>>

\* Time passes while no timed wait is due.
Tick ==
    /\ Running /\ now < MaxTime
    /\ ~(at \in {"git", "linting"} /\ now >= until)
    /\ now' = now + 1
    /\ UNCHANGED <<input, steps, work, settling, signals, ends>>

Main ==
    \/ Start \/ Watch \/ Read \/ Payload \/ Locate \/ GitAnswers \/ GitStopped \/ Root
    \/ Configure \/ Propose \/ Lint
    \/ \E place \in DOMAIN Halts, outcome \in {"skipped", "degraded"} : HaltAt(place, outcome)
    \/ Linted \/ LintFails \/ Classify \/ Settle \/ AppendRecord \/ Stop \/ Answer

Watcher == Terminate \/ TerminateExits

Next == Main \/ WorkerEnds \/ Watcher \/ Killed \/ Sigterm \/ Tick

----------------------------------------------------------------------------
(* Properties.                                                             *)

\* The call's state is well formed: a call that runs has a record, a settled
\* one does not, and the modes are known from the configure step on.
TypeOK ==
    /\ at \in Places /\ modes \in [Checks -> Modes] \cup {None}
    /\ until \in 0 .. MaxTime /\ now \in 0 .. MaxTime /\ found \subseteq Rows
    /\ decision \in [code : {0, 2}, reply : BOOLEAN]
    /\ worker \in {"none", "running", "ended"} /\ lock \in {None, "watcher"}
    /\ watch \in {"none", "armed", "unwatched", "closed"} /\ pending \in BOOLEAN
    /\ \A r \in {phase, taken} \ {None} : r.outcome \in Outcomes \cup {None}
    /\ \A i \in DOMAIN log : log[i].outcome \in Outcomes /\ log[i].findings \subseteq Rows
    /\ at \in {"propose", "lint", "linting", "classify"} => modes # None

\* The answer and the log never disagree (call.rs settle and terminate race
\* for the record, signals.rs exits with the mutex held): when the process has
\* ended and a record is in the log, the exit blocks the edit exactly when the
\* record says "blocked", and a reply goes with an "advisory" record. (A gate
\* whose watch could not start may be killed between its record and its exit.)
\* One call leaves one record: never two, and a process that was watched and
\* ended left its record in the log or said on stderr that it could not.
LogTellsTheAnswer ==
    /\ exit # None /\ exit.by # "signal" /\ log # <<>> =>
          /\ (exit.code = 2) <=> (log[Len(log)].outcome = "blocked")
          /\ exit.reply => log[Len(log)].outcome = "advisory"
    /\ Len(log) <= 1
    /\ exit # None /\ exit.by # "signal" /\ logging /\ env_gate # "off" =>
          (Len(log) = 1) # said

\* The gate fails open: an exit that blocks comes only from a lint that ended
\* in time and found something under a check that the entries, or else the
\* environment, put in block mode.
BlocksOnlyBlocking ==
    exit # None /\ exit.code = 2 =>
        \E r \in found : /\ r.says = "finding"
                         /\ \/ config[r.check] = "block"
                            \/ config[r.check] = Unset /\ env_gate = "block"

=============================================================================
