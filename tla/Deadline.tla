----------------------------- MODULE Deadline ------------------------------
(***************************************************************************)
(* The time limit of one call (crates/kernel/src/deadline.rs), shared by   *)
(* the threads that work on it.  Each thread checks it, works, parses a    *)
(* file that the cache does not hold, and credits the time of the parse,   *)
(* up to the grace, without a lock: a load and a compare-and-swap that may *)
(* fail for no reason.  The client may cancel the call.                    *)
(*                                                                         *)
(* Times are whole ticks.  The code computes in floating point, where a    *)
(* sum of credits may differ in its last bit.                              *)
(***************************************************************************)
EXTENDS Integers, FiniteSetsExt

CONSTANTS
    Workers,        \* the threads of the call
    limit, grace,   \* the allowance of the call and the most credit
    MaxTime         \* the time when the threads stop working

VARIABLES
    now,            \* the clock, 0 at the start of the call
    credited,       \* the parse time credited so far
    cancelled,      \* the client left
    worker,         \* [Workers -> the thread's place and its local values]
    parsed          \* the parse times whose credit is done, for the properties

vars == <<now, credited, cancelled, worker, parsed>>

Fresh == [at |-> "check", began |-> 0, elapsed |-> 0, loaded |-> 0, seconds |-> 0,
          stopped |-> "no", past |-> FALSE]

Init ==
    /\ now = 0 /\ credited = 0 /\ cancelled = FALSE /\ parsed = 0
    /\ worker = [t \in Workers |-> Fresh]

At(t, place) == worker[t].at = place
\* Local values are forgotten where the code's go out of scope.
Goes(t, place) == worker' = [worker EXCEPT ![t] = [Fresh EXCEPT !.at = place]]
Stops(t, why) == worker' = [worker EXCEPT ![t].at = "stopped", ![t].stopped = why]

\* A check reads the flag first.
check(t) ==
    /\ At(t, "check")
    /\ IF cancelled THEN Stops(t, "cancelled") ELSE Goes(t, "elapsed")
    /\ UNCHANGED <<now, credited, cancelled, parsed>>

\* Variant: the check reads the credit before the clock.
check_spent_swapped(t) ==
    /\ \/ /\ At(t, "elapsed")
          /\ worker' = [worker EXCEPT ![t].at = "credited", ![t].loaded = credited]
       \/ /\ At(t, "credited")
          /\ LET late == [worker[t] EXCEPT !.past = now > limit + credited]
             IN  worker' = [worker EXCEPT ![t] =
                     IF now > limit + worker[t].loaded
                     THEN [late EXCEPT !.at = "stopped", !.stopped = "spent"]
                     ELSE [late EXCEPT !.at = "work"]]
    /\ UNCHANGED <<now, credited, cancelled, parsed>>

\* Then the clock, then the credit; `past` remembers whether the allowance was
\* spent when the clock was read.
check_spent(t) ==
    /\ \/ /\ At(t, "elapsed")
          /\ worker' = [worker EXCEPT ![t].at = "credited", ![t].elapsed = now,
                                      ![t].past = now > limit + credited]
       \/ /\ At(t, "credited")
          /\ IF worker[t].elapsed > limit + credited THEN Stops(t, "spent")
             ELSE Goes(t, "work")
    /\ UNCHANGED <<now, credited, cancelled, parsed>>

work(t) ==
    /\ At(t, "work")
    /\ \/ Goes(t, "check")
       \/ worker' = [worker EXCEPT ![t].at = "parse", ![t].began = now]
    /\ UNCHANGED <<now, credited, cancelled, parsed>>

\* The parse is over: its time is the credit, and the total is loaded.
recaching(t) ==
    /\ At(t, "parse")
    /\ worker' = [worker EXCEPT ![t].at = "swap", ![t].seconds = now - worker[t].began,
                                ![t].loaded = credited]
    /\ UNCHANGED <<now, credited, cancelled, parsed>>

credited_after(loaded, seconds) == IF loaded + seconds < grace THEN loaded + seconds ELSE grace

credit(t) ==
    /\ At(t, "swap")
    /\ \/ /\ credited = worker[t].loaded /\ Goes(t, "check")
          /\ credited' = credited_after(worker[t].loaded, worker[t].seconds)
          /\ parsed' = parsed + worker[t].seconds
       \/ /\ worker' = [worker EXCEPT ![t].loaded = credited]
          /\ UNCHANGED <<credited, parsed>>
    /\ UNCHANGED <<now, cancelled>>

cancel ==
    /\ ~cancelled /\ cancelled' = TRUE
    /\ UNCHANGED <<now, credited, worker, parsed>>

tick ==
    /\ now < MaxTime /\ now' = now + 1
    /\ UNCHANGED <<credited, cancelled, worker, parsed>>

Work(t) == check(t) \/ check_spent(t) \/ work(t) \/ recaching(t) \/ credit(t)

Next == (\E t \in Workers : Work(t)) \/ cancel \/ tick

-----------------------------------------------------------------------------
\* The credit of the call is the parse time of all its threads, up to the
\* grace: no thread's credit is lost to another's.
CreditsAddUp == credited = Min({parsed, grace})

\* A thread stops for its limit only when the allowance was spent at the moment
\* it read the clock, though other threads credit while it checks: a parse that
\* ends during the check never stops the call that it is credited to.
StopsWhenSpent ==
    \A t \in Workers : /\ worker[t].stopped = "spent" => worker[t].past
                       /\ worker[t].stopped = "cancelled" => cancelled
=============================================================================
