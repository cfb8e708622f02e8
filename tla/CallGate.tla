----------------------------- MODULE CallGate ------------------------------
(***************************************************************************)
(* The life of the calls of the MCP server: the concurrency gate, a thread *)
(* for each call, cancellation (crates/mcp/src/service.rs, offload.rs),    *)
(* and the wind-down of the HTTP server: the drain of the gate, the        *)
(* graceful close and the signals that cut them short (drain.rs, http.rs). *)
(*                                                                         *)
(* A call is an async task and, once it has its permit, a thread.  The     *)
(* thread owns the permit: the task may answer "cancelled" long before the *)
(* thread reaches a checkpoint and gives the permit back.  The gate is     *)
(* tokio's semaphore, whose queue is first in, first out; the drain waits  *)
(* in that queue for every permit.                                         *)
(***************************************************************************)
EXTENDS Integers, FiniteSets, SequencesExt

CONSTANTS
    Calls,          \* the tool calls of the clients
    Permits,        \* the permits of the gate
    Drain           \* the waiter that the drain puts in the gate's queue

ASSUME PermitsAssumption == Permits \in Nat \ {0}
ASSUME DrainAssumption == Drain \notin Calls

VARIABLES
    gate,           \* the semaphore: see Gate below
    task,           \* [Calls -> the state of the async task]
    thread,         \* [Calls -> the state of the call's thread]
    cancelled,      \* the calls that their client cancelled
    server,         \* "serving", "draining", "closing" or "ended"
    calls_ended,    \* what the drain returned
    before          \* the calls that stood at the gate at the stop

vars == <<gate, task, thread, cancelled, server, calls_ended, before>>

-----------------------------------------------------------------------------
(* The semaphore.  A waiter takes what is free and queues for the rest; a  *)
(* returned permit goes to the head of the queue; a waiter that gives up   *)
(* returns what it was granted.                                            *)

Opened == [free |-> Permits, queue |-> <<>>, owed |-> 0, granted |-> {}]

acquire_owned(g, c) ==
    IF g.free > 0 THEN [g EXCEPT !.free = @ - 1, !.granted = @ \cup {c}]
    ELSE [g EXCEPT !.queue = Append(@, c)]

\* Variant: the drain goes to the head of the queue.
acquire_first(g) ==
    IF g.free = Permits THEN [g EXCEPT !.free = 0, !.granted = @ \cup {Drain}]
    ELSE [g EXCEPT !.free = 0, !.owed = Permits - g.free, !.queue = <<Drain>> \o @]

acquire_many(g) ==
    IF g.free = Permits THEN [g EXCEPT !.free = 0, !.granted = @ \cup {Drain}]
    ELSE [g EXCEPT !.free = 0, !.owed = Permits - g.free, !.queue = Append(@, Drain)]

add_permit(g) ==
    CASE g.queue = <<>> -> [g EXCEPT !.free = @ + 1]
      [] g.queue # <<>> /\ Head(g.queue) = Drain /\ g.owed > 1 ->
            [g EXCEPT !.owed = @ - 1]
      [] OTHER -> [g EXCEPT !.queue = Tail(@), !.granted = @ \cup {Head(g.queue)},
                            !.owed = IF Head(g.queue) = Drain THEN 0 ELSE @]

add_permits(g, n) == FoldLeft(LAMBDA h, i : add_permit(h), g, [i \in 1 .. n |-> i])

\* How many permits a waiter of the queue, or one that left it, holds.
acquired(g, w) ==
    CASE w \in g.granted -> IF w = Drain THEN Permits ELSE 1
      [] w \notin g.granted /\ w = Drain /\ g.owed > 0 -> Permits - g.owed
      [] OTHER -> 0

drop_acquire(g, w) ==
    add_permits([g EXCEPT !.queue = SelectSeq(@, LAMBDA x : x # w),
                          !.granted = @ \ {w},
                          !.owed = IF w = Drain THEN 0 ELSE @],
                acquired(g, w))

-----------------------------------------------------------------------------
Init ==
    /\ gate = Opened
    /\ task = [c \in Calls |-> "none"]
    /\ thread = [c \in Calls |-> "none"]
    /\ cancelled = {}
    /\ server = "serving"
    /\ calls_ended = FALSE
    /\ before = {}

(* A call.  The connections that are open at the stop still bring calls in *)
(* the drain.                                                              *)

\* prepared refuses an unknown tool or a bad argument before the gate.
refused(c) ==
    /\ server \in {"serving", "draining"}
    /\ task[c] = "none"
    /\ task' = [task EXCEPT ![c] = "answered"]
    /\ UNCHANGED <<gate, thread, cancelled, server, calls_ended, before>>

arrived(c) ==
    /\ server \in {"serving", "draining"}
    /\ task[c] = "none"
    /\ task' = [task EXCEPT ![c] = "waiting"]
    /\ gate' = acquire_owned(gate, c)
    /\ UNCHANGED <<thread, cancelled, server, calls_ended, before>>

\* The permit moves into the job.  A thread that the operating system
\* refuses drops the job, and the permit with it.
started(c) ==
    /\ task[c] = "waiting" /\ c \in gate.granted
    /\ \/ /\ task' = [task EXCEPT ![c] = "running"]
          /\ thread' = [thread EXCEPT ![c] = "working"]
          /\ gate' = [gate EXCEPT !.granted = @ \ {c}]
       \/ /\ task' = [task EXCEPT ![c] = "answered"]
          /\ gate' = drop_acquire(gate, c)
          /\ UNCHANGED thread
    /\ UNCHANGED <<cancelled, server, calls_ended, before>>

\* The client's cancellation, and what the task does with it: it leaves the
\* queue, or leaves the thread to its next checkpoint.
cancel(c) ==
    /\ task[c] \in {"waiting", "running"} /\ c \notin cancelled
    /\ cancelled' = cancelled \cup {c}
    /\ UNCHANGED <<gate, task, thread, server, calls_ended, before>>

cancelled_waiting(c) ==
    /\ task[c] = "waiting" /\ c \in cancelled
    /\ task' = [task EXCEPT ![c] = "answered"]
    /\ gate' = drop_acquire(gate, c)
    /\ UNCHANGED <<thread, cancelled, server, calls_ended, before>>

\* Variant: the cancelled task gives the permit of its thread back.
cancelled_returning(c) ==
    /\ task[c] = "running" /\ c \in cancelled
    /\ task' = [task EXCEPT ![c] = "answered"]
    /\ gate' = add_permit(gate)
    /\ UNCHANGED <<thread, cancelled, server, calls_ended, before>>

cancelled_running(c) ==
    /\ task[c] = "running" /\ c \in cancelled
    /\ task' = [task EXCEPT ![c] = "answered"]
    /\ UNCHANGED <<gate, thread, cancelled, server, calls_ended, before>>

\* The thread sends its answer, or its sender is dropped without one; then
\* the permit is dropped.  The task takes either as its answer.
answered(c) ==
    /\ thread[c] = "working"
    /\ thread' = [thread EXCEPT ![c] = "sent"]
    /\ UNCHANGED <<gate, task, cancelled, server, calls_ended, before>>

permit_dropped(c) ==
    /\ thread[c] = "sent"
    /\ thread' = [thread EXCEPT ![c] = "ended"]
    /\ gate' = add_permit(gate)
    /\ UNCHANGED <<task, cancelled, server, calls_ended, before>>

received(c) ==
    /\ task[c] = "running" /\ thread[c] \in {"sent", "ended"}
    /\ task' = [task EXCEPT ![c] = "answered"]
    /\ UNCHANGED <<gate, thread, cancelled, server, calls_ended, before>>

-----------------------------------------------------------------------------
(* The wind-down.                                                          *)

\* A signal or a due restart ends the accept loop; the drain starts.
stopped ==
    /\ server = "serving"
    /\ server' = "draining"
    /\ gate' = acquire_many(gate)
    /\ before' = {c \in Calls : task[c] # "none"}
    /\ UNCHANGED <<task, thread, cancelled, calls_ended>>

\* Every permit is back; the drain gives them back at once, so a call that
\* queued behind it goes on in the graceful close.
drained ==
    /\ server = "draining" /\ Drain \in gate.granted
    /\ server' = "closing"
    /\ calls_ended' = TRUE
    /\ gate' = drop_acquire(gate, Drain)
    /\ UNCHANGED <<task, thread, cancelled, before>>

\* The bound of the drain, or a signal in the drain: the close is skipped and
\* the sessions are cancelled.
cut ==
    /\ server = "draining"
    /\ server' = "ended"
    /\ gate' = drop_acquire(gate, Drain)
    /\ UNCHANGED <<task, thread, cancelled, calls_ended, before>>

\* The close waits for the answers, up to its cap or to a signal.
closed ==
    /\ server = "closing"
    /\ server' = "ended"
    /\ UNCHANGED <<gate, task, thread, cancelled, calls_ended, before>>

CallStep(c) == \/ started(c) \/ cancelled_waiting(c) \/ cancelled_running(c)
               \/ answered(c) \/ permit_dropped(c) \/ received(c)

Next ==
    \/ \E c \in Calls : \/ refused(c) \/ arrived(c) \/ cancel(c)
                        \/ server # "ended" /\ CallStep(c)
    \/ stopped \/ drained \/ cut \/ closed

Spec == Init /\ [][Next]_vars

\* Tasks and threads are scheduled; a thread ends because its deadline is
\* checked.  No fairness on what clients and signals do.
Fairness == /\ \A c \in Calls : WF_vars(server # "ended" /\ CallStep(c))
            /\ WF_vars(drained)

FairSpec == Spec /\ Fairness

-----------------------------------------------------------------------------
(* The properties.                                                         *)

Waiters == Calls \cup {Drain}

TypeOK ==
    /\ gate.free \in 0 .. Permits
    /\ gate.owed \in 0 .. Permits
    /\ gate.granted \subseteq Waiters
    /\ Range(gate.queue) \subseteq Waiters /\ IsInjective(gate.queue)
    /\ task \in [Calls -> {"none", "waiting", "running", "answered"}]
    /\ thread \in [Calls -> {"none", "working", "sent", "ended"}]
    /\ cancelled \subseteq Calls /\ before \subseteq Calls
    /\ server \in {"serving", "draining", "closing", "ended"}
    /\ calls_ended \in BOOLEAN

Threads == {c \in Calls : thread[c] \in {"working", "sent"}}

\* No permit is lost and none is made up: the free ones, those of threads,
\* those granted to calls and those that the drain gathers are all there
\* are, so at most Permits threads work at once, through cancellations,
\* threads that do not start and a drain that is cut.
PermitsConserved ==
    gate.free + Cardinality(Threads) + Cardinality(gate.granted \ {Drain})
              + acquired(gate, Drain) = Permits

\* When the drain says that the calls ended, each call that stood at the gate
\* or had its thread at the stop has made its answer: the graceful close that
\* follows has only answers to write for them.
DrainedCallsAnswered ==
    calls_ended => \A c \in before : task[c] = "answered" \/ thread[c] \in {"sent", "ended"}

\* Every call that reaches the gate is answered, unless the server ends first:
\* a cancelled call's thread and a waiting drain never keep it out for good.
\* The drain ends without its bound: it never waits for a call that waits for
\* the drain.
NobodyWaitsForever ==
    /\ \A c \in Calls : (task[c] = "waiting") ~> (task[c] = "answered" \/ server = "ended")
    /\ (server = "draining") ~> (server # "draining")
=============================================================================
