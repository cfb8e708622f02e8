------------------------------ MODULE Validate ------------------------------
(***************************************************************************)
(* One validate call (crates/app/src/validate.rs and its parts): the       *)
(* baseline runs and the reproduction baseline on unpatched HEAD, one      *)
(* planning worktree, then each distinct candidate result judged in a      *)
(* worktree of its own by a pool of threads, under one time budget and one *)
(* SIGINT watch.                                                           *)
(*                                                                         *)
(* Candidates are their indexes in the sorted directory.  Key[c] is the    *)
(* set of changed files that candidate c gives: candidates with one key    *)
(* share one execution.                                                    *)
(***************************************************************************)
EXTENDS TestRun, SequencesExt

CONSTANTS
    Requests,       \* the checked numbers and commands of the calls
    Candidates,     \* 1 .. the number of candidates
    Refusable,      \* the candidates that the planning may refuse
    Key             \* [Candidates -> keys]

MIN_COMMAND == 1

VARIABLES
    request,        \* the call: jobs, repeats, repro, timeout, budget
    phase,          \* "baseline", "repro", "plan", "evaluate" or "returned"
    runs,           \* the statuses of the baseline runs
    header,         \* what the baseline says: baseline, repro_verdict, budget_truncated
    plans,          \* the candidates that can be scheduled, in index order
    next,           \* the next unclaimed representative
    claimed,        \* [Threads -> the representative's position]
    judging,        \* [Threads -> the verdict that the thread builds]
    results,        \* the representatives' answers, in their order
    stop,           \* set by the first failed or interrupted representative
    outcome         \* the answer of the call

call == <<request, phase, runs, header, plans, next, claimed, judging, results,
          stop, outcome>>
vars == <<scratch, testrun, call>>

Main == 1

Unmeasured(status) ==
    [apply |-> status, regression |-> "not_evaluated", reproduction |-> None,
     truncated |-> FALSE, abandoned |-> FALSE, halt |-> None]

\* The answer of a representative with no verdict: "skipped", "stopped", "failed".
Halt(why) == [Unmeasured("not_evaluated") EXCEPT !.halt = why]

\* A call with no budget compares no two times but those of one command, so
\* its clock may stay at the value that stands for all of them.
Init ==
    /\ InitScratch /\ InitTestRun
    /\ at = [t \in Threads |-> IF t = Main THEN "baseline" ELSE "finished"]
    /\ request \in Requests
    /\ now = IF request.budget = None THEN MaxTime ELSE 0
    /\ phase = "baseline" /\ runs = <<>>
    /\ header = [baseline |-> "ok", repro |-> "not_given", truncated |-> FALSE]
    /\ plans = <<>> /\ next = 1 /\ results = <<>> /\ stop = FALSE
    /\ claimed = [t \in Threads |-> 0]
    /\ judging = [t \in Threads |-> Unmeasured("not_evaluated")]
    /\ outcome = [kind |-> None, verdicts |-> <<>>, expired |-> FALSE]

-----------------------------------------------------------------------------
(* The budget.  A call with no budget has no deadline.                     *)

reached == request.budget # None /\ now >= request.budget

remaining == IF request.budget > now THEN request.budget - now ELSE 0

\* The command's own timeout, or what is left of the budget; None when less
\* than MIN_COMMAND is left.
command_bound ==
    IF request.budget = None THEN [time |-> request.timeout, from_budget |-> FALSE]
    ELSE IF remaining < MIN_COMMAND THEN None
    ELSE IF remaining < request.timeout THEN [time |-> remaining, from_budget |-> TRUE]
    ELSE [time |-> request.timeout, from_budget |-> FALSE]

bounded(t) == run' = [run EXCEPT ![t] = [time |-> command_bound.time, began |-> 0,
                                         from_budget |-> command_bound.from_budget,
                                         status |-> None]]

truncated(t) == run[t].from_budget /\ run[t].status = "timeout"

-----------------------------------------------------------------------------
(* The answers of the call.                                                *)

Reported(verdicts, expired) ==
    [kind |-> "report", verdicts |-> verdicts, expired |-> expired]

returns(answer) == phase' = "returned" /\ outcome' = answer
returns_value(v) == returns([kind |-> v, verdicts |-> <<>>, expired |-> FALSE])

\* Every candidate gets the verdict of a run that did not reach it.
unreached(expired) ==
    returns(Reported([c \in Candidates |-> Unmeasured("not_evaluated")], expired))

\* The session of the thread is over: its worktree and notes are handed on.
over(t, to) ==
    /\ at[t] = "left" /\ alive
    /\ at' = [at EXCEPT ![t] = to]
    /\ tree' = [tree EXCEPT ![t] = NoTree] /\ notes' = [notes EXCEPT ![t] = {}]
    /\ run' = [run EXCEPT ![t] = NoRun] /\ gives(t, "ok")
    /\ UNCHANGED <<lock, holds, process, faults, now, group>>

-----------------------------------------------------------------------------
(* The baseline.                                                           *)

\* The header of a baseline; an unverified one never reaches the reproduction.
said_baseline(status, cut) ==
    [baseline |-> status, truncated |-> cut,
     repro |-> IF request.repro /\ status = "unverified" THEN "not_evaluated" ELSE "not_given"]

\* The bound of the next baseline run, before its worktree is made.
baseline_runs ==
    /\ IF command_bound = None
       THEN /\ go(Main, "baseline", "finished") /\ unreached(TRUE) /\ UNCHANGED run
            /\ header' = said_baseline("unverified", FALSE)
       ELSE go(Main, "baseline", "enter") /\ bounded(Main) /\ UNCHANGED <<phase, outcome, header>>
    /\ UNCHANGED <<value, tree, notes, lock, holds, process, faults, now, group, request, runs,
                   plans, next, claimed, judging, results, stop>>

\* The command in a worktree of the baseline.
baseline_command ==
    /\ phase \in {"baseline", "repro"}
    /\ go(Main, "work", "spawn") \/ go(Main, "after", "release")
    /\ UNCHANGED <<value, tree, notes, lock, holds, process, faults, testrun, call>>

\* All passed; one that failed, timed out or did not start makes the whole
\* call unverified.
baseline_outcome(statuses) ==
    IF \A i \in DOMAIN statuses : statuses[i] = "passed" THEN "ok" ELSE "unverified"

\* After a baseline run: the error of the session, the end of the budget, the
\* next repeat, or what the repeats say together.
baseline ==
    /\ phase = "baseline"
    /\ LET all  == Append(runs, run[Main].status)
           said == baseline_outcome(all)
           cut  == header.truncated \/ truncated(Main)
       IN IF value[Main] # "ok"
          THEN over(Main, "finished") /\ returns_value(value[Main]) /\ UNCHANGED <<runs, header>>
          ELSE /\ runs' = IF Len(all) < request.repeats THEN all ELSE <<>>
               /\ \/ /\ Len(all) < request.repeats /\ reached
                     /\ over(Main, "finished") /\ unreached(TRUE)
                     /\ header' = said_baseline("unverified", FALSE)
                  \/ /\ Len(all) < request.repeats /\ ~reached
                     /\ over(Main, "baseline") /\ UNCHANGED <<phase, outcome>>
                     /\ header' = [header EXCEPT !.truncated = cut]
                  \/ /\ Len(all) = request.repeats
                     /\ header' = said_baseline(said, cut)
                     /\ \/ said = "unverified" /\ over(Main, "finished") /\ unreached(FALSE)
                        \/ /\ said = "ok" /\ request.repro /\ over(Main, "repro")
                           /\ phase' = "repro" /\ UNCHANGED outcome
                        \/ /\ said = "ok" /\ ~request.repro /\ over(Main, "enter")
                           /\ phase' = "plan" /\ UNCHANGED outcome
    /\ UNCHANGED <<request, plans, next, claimed, judging, results, stop>>

\* The bound of the reproduction command on unpatched HEAD.
repro_bound ==
    /\ IF command_bound = None
       THEN /\ go(Main, "repro", "finished") /\ unreached(TRUE) /\ UNCHANGED run
            /\ header' = [header EXCEPT !.repro = "not_evaluated"]
       ELSE go(Main, "repro", "enter") /\ bounded(Main) /\ UNCHANGED <<phase, outcome, header>>
    /\ UNCHANGED <<value, tree, notes, lock, holds, process, faults, now, group, request, runs,
                   plans, next, claimed, judging, results, stop>>

\* A failure or a timeout is the bug showing itself.
repro_verdict(status) == CASE status = "passed" -> "does_not_reproduce"
                           [] status = "error"  -> "unrunnable"
                           [] OTHER             -> "reproduces"

repro_baseline ==
    /\ phase = "repro"
    /\ IF value[Main] # "ok"
       THEN over(Main, "finished") /\ returns_value(value[Main]) /\ UNCHANGED header
       ELSE /\ over(Main, "enter") /\ phase' = "plan" /\ UNCHANGED outcome
            /\ header' = [header EXCEPT !.repro = repro_verdict(run[Main].status),
                                        !.truncated = @ \/ truncated(Main)]
    /\ UNCHANGED <<request, runs, plans, next, claimed, judging, results, stop>>

-----------------------------------------------------------------------------
(* The planning, in one worktree.                                          *)

\* Each candidate is refused or scheduled; a path outside the worktree fails
\* the whole call.
planned ==
    /\ phase = "plan" /\ go(Main, "work", "release")
    /\ \/ gives(Main, "failed") /\ fault /\ UNCHANGED plans
       \/ /\ fine
          /\ \E refused \in SUBSET Refusable :
                plans' = SelectSeq([c \in Candidates |-> c], LAMBDA c : c \notin refused)
          /\ UNCHANGED value
    /\ UNCHANGED <<tree, notes, lock, holds, process, testrun, request, phase, runs, header,
                   next, claimed, judging, results, stop, outcome>>

\* The first of the plans with one key runs for all of them.
executed_as(c) == CHOOSE d \in ToSet(plans) :
    Key[d] = Key[c] /\ \A e \in ToSet(plans) : Key[e] = Key[c] => d <= e

representatives == SelectSeq(plans, LAMBDA c : executed_as(c) = c)

\* The pool: the caller and its helpers; a helper that does not start leaves
\* its share to the caller.
executed ==
    /\ phase = "plan"
    /\ IF value[Main] # "ok"
       THEN over(Main, "finished") /\ returns_value(value[Main]) /\ UNCHANGED results
       ELSE /\ phase' = "evaluate" /\ UNCHANGED outcome
            /\ results' = [i \in DOMAIN representatives |-> Unmeasured("not_evaluated")]
            /\ over(Main, "claim")
    /\ UNCHANGED <<request, runs, header, plans, next, claimed, judging, stop>>

helper(t) ==
    /\ phase = "evaluate" /\ t # Main /\ next <= Len(results)
    /\ t <= request.jobs /\ t <= Len(results) /\ claimed[t] = 0
    /\ go(t, "finished", "claim")
    /\ UNCHANGED <<value, tree, notes, lock, holds, process, faults, testrun, call>>

-----------------------------------------------------------------------------
(* The evaluation of the representatives.                                  *)

answers(t, result) == results' = [results EXCEPT ![claimed[t]] = result]

\* fetch_add on the shared index.
claim(t) ==
    /\ phase = "evaluate" /\ next' = next + 1
    /\ IF next <= Len(results)
       THEN go(t, "claim", "evaluate") /\ claimed' = [claimed EXCEPT ![t] = next]
       ELSE go(t, "claim", "finished") /\ UNCHANGED claimed
    /\ UNCHANGED <<value, tree, notes, lock, holds, process, faults, testrun, request, phase, runs,
                   header, plans, judging, results, stop, outcome>>

\* Before the worktree: the stop flag, a SIGINT, the budget.
evaluate(t) ==
    /\ \/ /\ stop /\ go(t, "evaluate", "claim")
          /\ answers(t, Halt("skipped")) /\ UNCHANGED stop
       \/ /\ ~stop /\ interrupted /\ go(t, "evaluate", "claim")
          /\ answers(t, Halt("stopped")) /\ stop' = TRUE
       \/ /\ ~stop /\ ~interrupted /\ reached /\ go(t, "evaluate", "claim")
          /\ answers(t, [Unmeasured("not_evaluated") EXCEPT !.abandoned = TRUE])
          /\ UNCHANGED stop
       \/ /\ ~stop /\ ~interrupted /\ ~reached /\ go(t, "evaluate", "enter")
          /\ UNCHANGED <<results, stop>>
    /\ UNCHANGED <<value, tree, notes, lock, holds, process, faults, testrun, request, phase, runs,
                   header, plans, next, claimed, judging, outcome>>

\* The candidate's patch in its worktree: a failed write, diff or containment
\* fails the call, an edit that does not apply fails the candidate, and a
\* SIGINT during the write stops the call after the write.
judged(t) ==
    /\ phase = "evaluate"
    /\ \/ go(t, "work", "release") /\ gives(t, "failed") /\ fault /\ UNCHANGED judging
       \/ /\ go(t, "work", "release") /\ fine /\ UNCHANGED value
          /\ judging' = [judging EXCEPT ![t] = Unmeasured("failed")]
       \/ /\ interrupted /\ go(t, "work", "release") /\ gives(t, "stopped")
          /\ fine /\ UNCHANGED judging
       \/ /\ ~interrupted /\ go(t, "work", "measure") /\ fine /\ UNCHANGED value
          /\ judging' = [judging EXCEPT ![t] = Unmeasured("ok")]
    /\ UNCHANGED <<tree, notes, lock, holds, process, testrun, request, phase, runs, header,
                   plans, next, claimed, results, stop, outcome>>

\* Variant: the end of the budget is not reported as work abandoned.
measured_expired(t) ==
    /\ IF command_bound = None
       THEN /\ go(t, "measure", "release") /\ UNCHANGED run
            /\ judging' = [judging EXCEPT ![t].truncated = TRUE]
       ELSE go(t, "measure", "spawn") /\ bounded(t) /\ UNCHANGED judging
    /\ UNCHANGED <<value, tree, notes, lock, holds, process, faults, now, group, request, phase,
                   runs, header, plans, next, claimed, results, stop, outcome>>

\* The regression command, or no time for it.
measured(t) ==
    /\ IF command_bound = None
       THEN /\ go(t, "measure", "release") /\ UNCHANGED run
            /\ judging' = [judging EXCEPT ![t].truncated = TRUE, ![t].abandoned = TRUE]
       ELSE go(t, "measure", "spawn") /\ bounded(t) /\ UNCHANGED judging
    /\ UNCHANGED <<value, tree, notes, lock, holds, process, faults, now, group, request, phase,
                   runs, header, plans, next, claimed, results, stop, outcome>>

repro_valid == header.repro = "reproduces"

\* After the regression command: the reproduction command runs only on a
\* usable rung and after a passing run.
regressed(t) ==
    /\ phase = "evaluate" /\ judging[t].regression = "not_evaluated"
    /\ LET ruled == [judging[t] EXCEPT !.regression = run[t].status,
                                       !.truncated = truncated(t)]
           keep(v) == judging' = [judging EXCEPT ![t] = v]
       IN \/ /\ value[t] # "ok" /\ go(t, "after", "release") /\ UNCHANGED <<judging, run>>
          \/ /\ value[t] = "ok" /\ ~repro_valid
             /\ go(t, "after", "release") /\ keep(ruled) /\ UNCHANGED run
          \/ /\ value[t] = "ok" /\ repro_valid /\ ruled.regression # "passed"
             /\ go(t, "after", "release") /\ UNCHANGED run
             /\ keep([ruled EXCEPT !.reproduction = "not_evaluated"])
          \/ /\ value[t] = "ok" /\ repro_valid /\ ruled.regression = "passed"
             /\ command_bound = None
             /\ go(t, "after", "release") /\ UNCHANGED run
             /\ keep([ruled EXCEPT !.reproduction = "not_evaluated", !.abandoned = TRUE])
          \/ /\ value[t] = "ok" /\ repro_valid /\ ruled.regression = "passed"
             /\ command_bound # None
             /\ go(t, "after", "spawn") /\ bounded(t) /\ keep(ruled)
    /\ UNCHANGED <<value, tree, notes, lock, holds, process, faults, now, group, request, phase,
                   runs, header, plans, next, claimed, results, stop, outcome>>

\* After the reproduction command.
reproduced(t) ==
    /\ phase = "evaluate" /\ judging[t].regression # "not_evaluated"
    /\ go(t, "after", "release")
    /\ IF value[t] # "ok" THEN UNCHANGED judging
       ELSE judging' = [judging EXCEPT ![t].reproduction = run[t].status,
                                       ![t].truncated = @ \/ truncated(t)]
    /\ UNCHANGED <<value, tree, notes, lock, holds, process, faults, testrun, request, phase,
                   runs, header, plans, next, claimed, results, stop, outcome>>

\* The end of the representative: an error stops the ones not begun.
evaluated(t) ==
    /\ phase = "evaluate" /\ over(t, "claim")
    /\ IF value[t] # "ok" THEN answers(t, Halt(value[t])) /\ stop' = TRUE
                          ELSE answers(t, judging[t]) /\ UNCHANGED stop
    /\ judging' = [judging EXCEPT ![t] = Unmeasured("not_evaluated")]
    /\ UNCHANGED <<request, phase, runs, header, plans, next, claimed, outcome>>

-----------------------------------------------------------------------------
(* The answer.                                                             *)

halts == {results[i].halt : i \in DOMAIN results}

\* A SIGINT wins over every failure; a representative is skipped only after
\* another one halted.
gathered ==
    IF "stopped" \in halts THEN "stopped"
    ELSE IF "failed" \in halts THEN "failed"
    ELSE IF "skipped" \in halts THEN "stopped" ELSE "ok"

\* Each evaluation projected onto the members of its group, with the refused
\* candidates, in index order.
shared ==
    [c \in Candidates |->
        IF c \in ToSet(plans)
        THEN results[CHOOSE i \in DOMAIN representatives : representatives[i] = executed_as(c)]
        ELSE Unmeasured("failed")]

answer ==
    /\ phase = "evaluate" /\ alive /\ next > Len(results)
    /\ \A t \in Threads : at[t] = "finished"
    /\ IF gathered = "ok"
       THEN returns(Reported(shared, \E i \in DOMAIN results : results[i].abandoned))
       ELSE returns_value(gathered)
    /\ UNCHANGED <<scratch, testrun, request, runs, header, plans, next, claimed, judging,
                   results, stop>>

Evaluate(t) == \/ claim(t) \/ evaluate(t) \/ judged(t) \/ measured(t)
               \/ regressed(t) \/ reproduced(t) \/ evaluated(t)

Baseline == \/ baseline_runs \/ baseline_command \/ baseline \/ repro_bound
            \/ repro_baseline \/ planned \/ executed \/ answer

Interrupt == phase # "returned" /\ sigint /\ UNCHANGED <<testrun, call>>
Clock == phase # "returned" /\ tick /\ UNCHANGED call

\* The steps of a worktree and of a command change nothing of the call.
Enter(t)     == enter(t)     /\ UNCHANGED <<testrun, call>>
Hold(t)      == hold(t)      /\ UNCHANGED <<testrun, call>>
Place(t)     == place(t)     /\ UNCHANGED <<testrun, call>>
Add(t)       == add(t)       /\ UNCHANGED <<testrun, call>>
Added(t)     == added(t)     /\ UNCHANGED <<testrun, call>>
Inside(t)    == inside(t)    /\ UNCHANGED <<testrun, call>>
Release(t)   == release(t)   /\ UNCHANGED <<testrun, call>>
TakeDown(t)  == remove(t)    /\ UNCHANGED <<testrun, call>>
Prune(t)     == prune(t)     /\ UNCHANGED <<testrun, call>>
Settle(t)    == settle(t)    /\ UNCHANGED <<testrun, call>>
Spawn(t)     == spawn(t)     /\ UNCHANGED call
Wait(t)      == wait(t)      /\ UNCHANGED call
Terminate(t) == terminate(t) /\ UNCHANGED call
Kill(t)      == kill(t)      /\ UNCHANGED call
Ran(t)       == ran(t)       /\ UNCHANGED call

Worktree(t) == \/ Enter(t) \/ Hold(t) \/ Place(t) \/ Add(t) \/ Added(t) \/ Inside(t)
               \/ Release(t) \/ TakeDown(t) \/ Prune(t) \/ Settle(t)
Command(t)  == Spawn(t) \/ Terminate(t) \/ Kill(t) \/ Ran(t)

Next ==
    \/ Baseline
    \/ \E t \in Threads : Worktree(t) \/ Command(t) \/ Wait(t) \/ helper(t) \/ Evaluate(t)
    \/ Interrupt \/ Clock

Spec == Init /\ [][Next]_vars

\* A thread that can step steps, and the clock goes on.  A helper need not
\* start, and a test command may run for ever: only its bound obliges the wait
\* to end.
FairSpec ==
    /\ Spec
    /\ WF_vars(Clock)
    /\ \A t \in Threads :
        WF_vars(\/ Worktree(t) \/ Command(t) \/ Evaluate(t) \/ (t = Main /\ Baseline)
                \/ (Wait(t) /\ (Spent(t) \/ now = MaxTime)))

-----------------------------------------------------------------------------
Judgements == [apply : {"ok", "failed", "not_evaluated"},
               regression : Statuses \cup {"not_evaluated"},
               reproduction : Statuses \cup {"not_evaluated", None},
               truncated : BOOLEAN, abandoned : BOOLEAN,
               halt : {None, "skipped", "stopped", "failed"}]

Holding(t) == at[t] \in InTree \cup {"place", "add", "adding", "release", "remove", "prune"}

\* The state is well-formed; a hold lives for each worktree and each command,
\* and WORKTREE_LOCK is held only around an add and around a removal.
TypeOK ==
    /\ request \in Requests /\ now \in 0 .. MaxTime
    /\ phase \in {"baseline", "repro", "plan", "evaluate", "returned"}
    /\ value \in [Threads -> {"ok", "failed", "stopped"}]
    /\ tree \in [Threads -> Trees] /\ group \in [Threads -> Groups]
    /\ \A t \in Threads : notes[t] \subseteq GitNotes \cup {"group"}
    /\ judging \in [Threads -> Judgements]
    /\ ToSet(results) \subseteq Judgements
    /\ interrupted \in BOOLEAN /\ alive \in BOOLEAN /\ stop \in BOOLEAN
    /\ holds = Cardinality({t \in Threads : Holding(t)})
               + Cardinality({t \in Threads : group[t] # "none"})
    /\ \A t \in Threads : lock = t <=> at[t] \in {"adding", "remove", "prune"}


\* A report over a verified baseline that does not say the budget expired has
\* measured every candidate that applied, on every rung that the baseline made
\* usable.  A reproduction baseline that the budget cut short counts as
\* reproducing (repro_verdict), but grades no candidate.
GradesWhatItMeasured ==
    outcome.kind = "report" =>
        \A c \in Candidates : LET v == outcome.verdicts[c] IN
            /\ ~outcome.expired /\ header.baseline = "ok" =>
                  /\ v.apply # "not_evaluated"
                  /\ v.apply = "ok" => /\ v.regression \in Statuses
                                       /\ repro_valid /\ v.regression = "passed" =>
                                              v.reproduction \in Statuses
            /\ header.truncated => v.regression = "not_evaluated"

\* Every call ends: it returns, or a SIGINT ends the process.
ValidateEnds == <>(phase = "returned" \/ ~alive)
=============================================================================
