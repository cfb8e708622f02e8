----------------------------- MODULE MCServer ------------------------------
(***************************************************************************)
(* The parts of the server that run concurrently, for TLC: the gate and    *)
(* the wind-down, a child process, the time limit of a call, the session   *)
(* on stdin and stdout, the restart on upgrade and the roots files.  They  *)
(* share no state, so `part` picks one and the variables of the others     *)
(* keep their first values.                                                *)
(***************************************************************************)
EXTENDS CallGate, TLC

CONSTANTS
    stdout_cap, stderr_cap, PipeSize, MaxWritten, MaxFaults,    \* ChildRun
    Workers, limit, grace, MaxTime,                             \* Deadline
    MaxLines,                                                   \* StdioSession
    MaxVersion, MINIMUM_UPTIME,                                 \* Upgrade
    Callers, Names, Resolve, Lists, Flags, Holding, MaxKey, None    \* Roots

VARIABLES
    part,
    child, status, writers, written, pipe, reader, kept, over, events, done, step, outcome,
    due, failures,
    now, credited, left, worker, parsed,
    sent, lines, client, deaf, receiving, answers, error, permit, input_ended, ended, after,
    installed, newest, image, serving, baseline, uptime, unseen,
    text, key, listed, mutex, asker, during

R == INSTANCE ChildRun
D == INSTANCE Deadline WITH cancelled <- left
I == INSTANCE StdioSession
U == INSTANCE Upgrade WITH watched <- TRUE
F == INSTANCE Roots

Parts == {"gate", "child", "limit", "stdio", "upgrade", "roots"}

childs == <<child, status, writers, written, pipe, reader, kept, over, events, done, step,
            outcome, due, failures>>
limits == <<now, credited, left, worker, parsed>>
stdios == <<sent, lines, client, deaf, receiving, answers, error, permit, input_ended, ended,
            after>>
upgrades == <<installed, newest, image, serving, baseline, uptime, unseen>>
rootses == <<text, key, listed, mutex, asker, during>>
everything == <<part, vars, childs, limits, stdios, upgrades, rootses>>

MCInit ==
    /\ part \in Parts
    /\ Init /\ R!Init /\ D!Init /\ I!Init /\ U!Init /\ F!Init
    /\ part # "roots" => text = CHOOSE t \in F!Listings : TRUE

Gate(A) == part = "gate" /\ A /\ UNCHANGED <<part, childs, limits, stdios, upgrades, rootses>>
Child(A) == part = "child" /\ A /\ UNCHANGED <<part, vars, limits, stdios, upgrades, rootses>>
Limit(A) == part = "limit" /\ A /\ UNCHANGED <<part, vars, childs, stdios, upgrades, rootses>>
Stdio(A) == part = "stdio" /\ A /\ UNCHANGED <<part, vars, childs, limits, upgrades, rootses>>
Upgraded(A) == part = "upgrade" /\ A /\ UNCHANGED <<part, vars, childs, limits, stdios, rootses>>
Rooted(A) == part = "roots" /\ A /\ UNCHANGED <<part, vars, childs, limits, stdios, upgrades>>

MCNext ==
    \/ \E c \in Calls :
          \/ Gate(refused(c)) \/ Gate(arrived(c)) \/ Gate(cancel(c))
          \/ server # "ended" /\
                \/ Gate(started(c)) \/ Gate(cancelled_waiting(c)) \/ Gate(cancelled_running(c))
                \/ Gate(answered(c)) \/ Gate(permit_dropped(c)) \/ Gate(received(c))
    \/ Gate(stopped) \/ Gate(drained) \/ Gate(cut) \/ Gate(closed)
    \/ Child(R!spawn) \/ Child(R!spawn_reader) \/ Child(R!collected) \/ Child(R!collect)
    \/ Child(R!collect_timed_out) \/ Child(R!reap) \/ Child(R!stopped) \/ Child(R!kill_failed)
    \/ \E s \in R!Streams :
          \/ Child(R!read_capped(s)) \/ Child(R!read_end(s)) \/ Child(R!read_failed(s))
          \/ \E p \in R!Processes : Child(R!writes(p, s)) \/ Child(R!closes(p, s))
    \/ Child(R!forks) \/ Child(R!exits) \/ Child(R!tick)
    \/ \E t \in Workers :
          \/ Limit(D!check(t)) \/ Limit(D!check_spent(t)) \/ Limit(D!work(t))
          \/ Limit(D!recaching(t)) \/ Limit(D!credit(t))
    \/ Limit(D!cancel) \/ Limit(D!tick)
    \/ Stdio(I!receive) \/ Stdio(I!received_line) \/ Stdio(I!not_initialized)
    \/ Stdio(I!end_input) \/ Stdio(I!failed) \/ Stdio(I!send)
    \/ Stdio(I!client_sends) \/ Stdio(I!client_leaves)
    \/ Upgraded(U!watch) \/ Upgraded(U!step) \/ Upgraded(U!relaunch) \/ Upgraded(U!signalled)
    \/ Upgraded(U!install) \/ Upgraded(U!uninstall)
    \/ \E k \in Callers :
          \/ Rooted(F!begin(k)) \/ Rooted(F!lock(k)) \/ Rooted(F!current(k))
          \/ Rooted(F!listed_again(k)) \/ Rooted(F!select(k))
    \/ Rooted(F!write)

\* Tasks and threads are scheduled and time passes.  Nothing is assumed of
\* clients, signals, installers or child processes, nor that a system call
\* works.
MCSpec ==
    /\ MCInit /\ [][MCNext]_everything
    /\ \A c \in Calls : WF_everything(Gate(server # "ended" /\ CallStep(c)))
    /\ WF_everything(Gate(drained))
    /\ WF_everything(Child(R!Run)) /\ WF_everything(Child(R!tick))
    /\ WF_everything(Stdio(I!Session))
    /\ WF_everything(Upgraded(U!Server))

MCResolve == "a" :> "A" @@ "b" :> "B"
MCLists == {{"a"}, {"a", "b"}}

-----------------------------------------------------------------------------
\* A run that returns tells what really happened (ChildRun.tla).
OutputIsWhole == R!OutputIsWhole

\* A call's limit is fair: no thread's credit is lost, and a thread stops only
\* when the allowance was spent (Deadline.tla).
LimitIsFair == D!CreditsAddUp /\ D!StopsWhenSpent

\* At most one line is taken after the first failed write (StdioSession.tla).
OneLineAfterBreak == I!OneLineAfterBreak

\* A call reads only a root that is listed during the call (Roots.tla).
ServesListedRoots == F!ServesListedRoots

=============================================================================
