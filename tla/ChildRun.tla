----------------------------- MODULE ChildRun ------------------------------
(***************************************************************************)
(* One child process under a deadline and output caps                      *)
(* (crates/io/src/runner.rs), and what a git call makes of its outcome     *)
(* (crates/git/src/run.rs).                                                *)
(*                                                                         *)
(* Each pipe has a reader thread, which sends one event when it is done.   *)
(* The runner collects the two events, then waits for the child; past the  *)
(* deadline, past the stdout cap or at an error it kills and reaps it.     *)
(* The child may leave behind an heir: a process of its own that inherits  *)
(* the pipes and is neither killed nor waited for.  Output is counted in   *)
(* bytes; what a reader keeps is always a prefix of what was written.      *)
(***************************************************************************)
EXTENDS Integers, Sequences

CONSTANTS
    stdout_cap, stderr_cap,     \* the most bytes kept of each stream
    PipeSize,                   \* the bytes that a pipe holds
    MaxWritten,                 \* the most bytes written to a stream
    MaxFaults                   \* how many system calls fail

Streams == {"stdout", "stderr"}
cap(s) == IF s = "stdout" THEN stdout_cap ELSE stderr_cap

VARIABLES
    child,          \* "none", "running", "ended" (not waited for) or "reaped"
    status,         \* the exit status of the child
    writers,        \* [Streams -> the processes that hold its write end]
    written,        \* [Streams -> the bytes written so far]
    pipe,           \* [Streams -> the bytes in the pipe]
    reader,         \* [Streams -> "none", "reading" or "ended"]
    kept, over,     \* [Streams -> what the reader kept; whether there was more]
    events,         \* the events sent and not received
    done,           \* the streams whose bytes the runner has
    step,           \* where the runner is
    outcome,        \* what it returns
    due,            \* the deadline has passed
    failures        \* the system calls that failed

family == <<child, status, writers>>
output == <<written, pipe>>
readers == <<reader, kept, over>>
runner == <<done, step, outcome>>
vars == <<family, output, readers, events, runner, due, failures>>

fails == failures < MaxFaults /\ failures' = failures + 1
works == UNCHANGED failures

Init ==
    /\ child = "none" /\ status = 0
    /\ writers = [s \in Streams |-> {}]
    /\ written = [s \in Streams |-> 0] /\ pipe = [s \in Streams |-> 0]
    /\ reader = [s \in Streams |-> "none"]
    /\ kept = [s \in Streams |-> 0] /\ over = [s \in Streams |-> FALSE]
    /\ events = <<>>
    /\ done = {} /\ step = "spawn" /\ outcome = "none"
    /\ due = FALSE /\ failures = 0

-----------------------------------------------------------------------------
(* The runner. *)

\* The program is looked up and started, or it is not: nothing to clean up.
spawn ==
    /\ step = "spawn"
    /\ \/ /\ works
          /\ child' = "running" /\ writers' = [s \in Streams |-> {"child"}]
          /\ step' = "stdout" /\ UNCHANGED outcome
       \/ /\ fails
          /\ step' = "returned" /\ outcome' \in {"not_found", "not_run"}
          /\ UNCHANGED <<child, writers>>
    /\ UNCHANGED <<status, output, readers, events, done, due>>

\* The two reader threads; one that does not start ends the run.
spawn_reader ==
    /\ step \in Streams
    /\ \/ /\ works
          /\ reader' = [reader EXCEPT ![step] = "reading"]
          /\ step' = IF step = "stdout" THEN "stderr" ELSE "collect"
          /\ UNCHANGED outcome
       \/ /\ fails
          /\ step' = "stop" /\ outcome' = "lost"
          /\ UNCHANGED reader
    /\ UNCHANGED <<family, output, kept, over, events, done, due>>

\* Variant: the runner is done when stdout is.
collected_stdout ==
    /\ step = "collect" /\ "stdout" \in done
    /\ step' = "reap"
    /\ UNCHANGED <<family, output, readers, events, done, outcome, due, failures>>

\* Both streams are complete.
collected ==
    /\ step = "collect" /\ done = Streams
    /\ step' = "reap"
    /\ UNCHANGED <<family, output, readers, events, done, outcome, due, failures>>

\* An event, also one that arrives as the deadline passes.
collect ==
    /\ step = "collect" /\ done # Streams /\ events # <<>>
    /\ events' = Tail(events)
    /\ LET event == Head(events)
           ends(how) == step' = "stop" /\ outcome' = how /\ UNCHANGED done
       IN  CASE event.failed -> ends("lost")
             [] ~event.failed /\ event.stream = "stdout" /\ over["stdout"] -> ends("truncated")
             [] OTHER -> done' = done \cup {event.stream} /\ UNCHANGED <<step, outcome>>
    /\ UNCHANGED <<family, output, readers, due, failures>>

collect_timed_out ==
    /\ step = "collect" /\ done # Streams /\ due
    /\ step' = "stop" /\ outcome' = "timed_out"
    /\ UNCHANGED <<family, output, readers, events, done, due, failures>>

\* The wait for the child, within the same deadline.
reap ==
    /\ step = "reap"
    /\ \/ /\ child = "ended" /\ works
          /\ child' = "reaped" /\ step' = "returned" /\ outcome' = "exited"
       \/ /\ child = "running" /\ due /\ works
          /\ step' = "stop" /\ outcome' = "timed_out" /\ UNCHANGED child
       \/ /\ fails
          /\ step' = "stop" /\ outcome' = "lost" /\ UNCHANGED child
    /\ UNCHANGED <<status, writers, output, readers, events, done, due>>

\* The kill and the reap; the outcome stands unless one of them fails.
stopped ==
    /\ step = "stop" /\ step' = "returned"
    /\ writers' = [s \in Streams |-> writers[s] \ {"child"}]
    /\ \/ works /\ child' = "reaped" /\ UNCHANGED outcome
       \/ fails /\ child' = "ended" /\ outcome' = "lost"
    /\ UNCHANGED <<status, output, readers, events, done, due>>

\* The kill itself fails: the child goes on.
kill_failed ==
    /\ step = "stop" /\ step' = "returned" /\ fails /\ outcome' = "lost"
    /\ UNCHANGED <<family, output, readers, events, done, due>>

-----------------------------------------------------------------------------
(* The reader threads.  An event that nobody waits for is dropped. *)

sends(s, failed) ==
    /\ reader' = [reader EXCEPT ![s] = "ended"]
    /\ events' = IF step = "returned" THEN events
                 ELSE Append(events, [stream |-> s, failed |-> failed])

\* One read, which empties the pipe; stdout stops at one byte over its cap.
read_capped(s) ==
    /\ reader[s] = "reading" /\ pipe[s] > 0 /\ works
    /\ LET room == cap(s) - kept[s]
           more == over[s] \/ pipe[s] > room
       IN  /\ kept' = [kept EXCEPT ![s] = @ + (IF pipe[s] < room THEN pipe[s] ELSE room)]
           /\ over' = [over EXCEPT ![s] = more]
           /\ IF more /\ s = "stdout" THEN sends(s, FALSE) ELSE UNCHANGED <<reader, events>>
    /\ pipe' = [pipe EXCEPT ![s] = 0]
    /\ UNCHANGED <<family, written, runner, due>>

\* The end of the file: every process that held the write end has closed it.
read_end(s) ==
    /\ reader[s] = "reading" /\ pipe[s] = 0 /\ writers[s] = {} /\ works
    /\ sends(s, FALSE)
    /\ UNCHANGED <<family, output, kept, over, runner, due>>

read_failed(s) ==
    /\ reader[s] = "reading" /\ fails
    /\ sends(s, TRUE)
    /\ UNCHANGED <<family, output, kept, over, runner, due>>

-----------------------------------------------------------------------------
(* The child, its heir and the clock. *)

Processes == {"child", "heir"}

\* A write waits while the pipe is full, and comes to nothing once the reader
\* has closed its end.
writes(p, s) ==
    /\ p \in writers[s] /\ written[s] < MaxWritten
    /\ reader[s] # "ended" /\ pipe[s] < PipeSize
    /\ written' = [written EXCEPT ![s] = @ + 1]
    /\ pipe' = [pipe EXCEPT ![s] = @ + 1]
    /\ UNCHANGED <<family, readers, events, runner, due, failures>>

closes(p, s) ==
    /\ p \in writers[s]
    /\ writers' = [writers EXCEPT ![s] = @ \ {p}]
    /\ UNCHANGED <<child, status, output, readers, events, runner, due, failures>>

forks ==
    /\ child = "running" /\ \A s \in Streams : "heir" \notin writers[s]
    /\ writers' = [s \in Streams |-> IF "child" \in writers[s] THEN Processes ELSE writers[s]]
    /\ UNCHANGED <<child, status, output, readers, events, runner, due, failures>>

exits ==
    /\ child = "running"
    /\ child' = "ended" /\ status' \in {0, 1}
    /\ writers' = [s \in Streams |-> writers[s] \ {"child"}]
    /\ UNCHANGED <<output, readers, events, runner, due, failures>>

tick ==
    /\ child # "none" /\ step # "returned" /\ ~due
    /\ due' = TRUE
    /\ UNCHANGED <<family, output, readers, events, runner, failures>>

-----------------------------------------------------------------------------
Run == \/ spawn \/ spawn_reader \/ collected \/ collect \/ collect_timed_out
       \/ reap \/ stopped \/ kill_failed
Reader(s) == read_capped(s) \/ read_end(s) \/ read_failed(s)
Process == \/ \E p \in Processes, s \in Streams : writes(p, s) \/ closes(p, s)
           \/ forks \/ exits

Next == Run \/ (\E s \in Streams : Reader(s)) \/ Process \/ tick

-----------------------------------------------------------------------------
\* What a git call returns: only a child that exited 0 has printed.
classify ==
    CASE outcome = "exited" /\ status = 0 -> "printed"
      [] outcome = "exited" /\ status # 0 -> "failed"
      [] outcome = "truncated" -> "capped"
      [] OTHER -> "unfinished"

\* A run that returns tells what really happened: an exit comes with all of
\* stdout, up to the last byte of the last process that held the pipe, and with
\* the first bytes of stderr; a truncation comes with the first cap bytes of an
\* output that was longer; git "printed" only what a call that exited 0 wrote;
\* and the child was waited for, unless that is what failed or it never ran.
OutputIsWhole ==
    step = "returned" =>
        /\ outcome = "exited" => /\ kept["stdout"] = written["stdout"] /\ ~over["stdout"]
                                 /\ kept["stderr"] = (IF over["stderr"] THEN stderr_cap
                                                      ELSE written["stderr"])
                                 /\ over["stderr"] <=> written["stderr"] > stderr_cap
        /\ outcome = "truncated" => /\ kept["stdout"] = stdout_cap
                                    /\ written["stdout"] > stdout_cap
        /\ classify = "printed" => status = 0 /\ writers = [s \in Streams |-> {}]
        /\ child = "reaped" \/ outcome \in {"lost", "not_found", "not_run"}

\* The run returns, though the child never exits, fills a pipe, closes its
\* pipes early or leaves an heir that holds them.
ChildRunEnds == <>(step = "returned")
=============================================================================
