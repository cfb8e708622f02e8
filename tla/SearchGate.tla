----------------------------- MODULE SearchGate -----------------------------
(***************************************************************************)
(* The search gate (crates/hook/src/search): gate-check decides one search *)
(* call and denies a tree search until the session has a marker;           *)
(* gate-mark writes the marker after a localizing call.  Every failure     *)
(* allows the search.  A payload is abstracted to what the steps tell      *)
(* apart:                                                                  *)
(*   unread   stdin or its JSON does not read: suppressed, nothing logged  *)
(*   plain    decided before any marker is read: malformed, no session id, *)
(*            not a search; for gate-mark, a call that does not localize   *)
(*   narrow   a Grep of one existing file, a command that walks no tree    *)
(*   tree     a Glob, a broad Grep, a shell search of a tree               *)
(*   unstat   its path fails the file test with an error                   *)
(*   opens    for gate-mark, a localizing call                             *)
(***************************************************************************)
EXTENDS MarkerDir

VARIABLE unlocked   \* [Procs -> the session had its marker when the call began]

search == <<vars, unlocked>>

CheckCalls == [hook : {"check"}, session : Sessions,
               scope : {"unread", "plain", "narrow", "tree", "unstat"}]
MarkCalls == [hook : {"mark"}, session : Sessions, scope : {"unread", "plain", "opens"}]

Init == InitDir /\ unlocked = [p \in Procs |-> FALSE]

Begin(p, payload) ==
    /\ Begins(p, payload)
    /\ unlocked' = [unlocked EXCEPT ![p] = payload.session \in markers]

Is(p, hook) == call[p] # None /\ call[p].hook = hook

\* A panic or a suppressed error allows the call, with no log line.
Suppressed(p, from) == Exits(p, from, 0) /\ UNCHANGED <<directory, unlocked>>

----------------------------------------------------------------------------
(* gate-check.                                                             *)

\* The payload is decoded; some are decided at once.
Parse(p) ==
    /\ Is(p, "check") /\ Works
    /\ IF call[p].scope = "unread"
       THEN Suppressed(p, "parse")
       ELSE /\ Moves(p, "parse", IF call[p].scope = "plain" THEN "allow" ELSE "marker")
            /\ Stays /\ UNCHANGED unlocked

\* The session's marker allows the search. A directory that is not trusted
\* holds none; a stat that fails is suppressed.
Exists(p) ==
    /\ Is(p, "check")
    /\ \/ /\ Works
          /\ Moves(p, "marker", IF trusted /\ call[p].session \in markers
                                THEN "allow" ELSE "scope")
          /\ Stays /\ UNCHANGED unlocked
       \/ trusted /\ Fails /\ Suppressed(p, "marker")

\* The scope of the search: one file or no tree is allowed.
Scope(p) ==
    /\ Is(p, "check") /\ Works
    /\ IF call[p].scope = "unstat"
       THEN Suppressed(p, "scope")
       ELSE /\ Moves(p, "scope", IF call[p].scope = "tree" THEN "mkdir" ELSE "allow")
            /\ Stays /\ UNCHANGED unlocked

\* The storage is proved before its lack of a marker is enforced: the
\* directory is there, it is trusted, and a new file goes in and out of it.
Mkdir(p) == /\ Is(p, "check") /\ create_missing_owner_dir(p, "trust", "allow")
            /\ UNCHANGED unlocked

Trust(p) == /\ Is(p, "check") /\ is_private_directory(p, "probe", "allow")
            /\ UNCHANGED unlocked


WriteProbe(p) ==
    /\ Is(p, "check")
    /\ \/ /\ Works
          /\ IF trusted /\ ~full /\ p \notin probes
             THEN Moves(p, "probe", "unprobe") /\ probes' = probes \cup {p}
             ELSE Moves(p, "probe", "allow") /\ UNCHANGED probes
       \/ Fails /\ Moves(p, "probe", "allow") /\ UNCHANGED probes
    /\ UNCHANGED <<full, dir, markers, code, unlocked>>

RemoveProbe(p) ==
    /\ Is(p, "check")
    /\ \/ /\ Works
          /\ Moves(p, "unprobe", IF p \in probes THEN "deny" ELSE "allow")
          /\ probes' = probes \ {p}
       \/ Fails /\ Moves(p, "unprobe", "allow") /\ UNCHANGED probes
    /\ UNCHANGED <<full, dir, markers, code, unlocked>>

\* The verdict is logged; a log that refuses the line suppresses even a deny.
LogAllow(p) == Is(p, "check") /\ Works /\ Suppressed(p, "allow")

LogDeny(p) ==
    /\ Is(p, "check")
    /\ \/ Works /\ Moves(p, "deny", "message") /\ Stays /\ UNCHANGED unlocked
       \/ Fails /\ Suppressed(p, "deny")

\* A deny whose message cannot be written exits 120, which blocks nothing.
Deny(p) ==
    /\ Is(p, "check")
    /\ \/ Works /\ Exits(p, "message", 2)
       \/ Fails /\ Exits(p, "message", 120)
    /\ UNCHANGED <<directory, unlocked>>

----------------------------------------------------------------------------
(* gate-mark.  Its exit code is always 0.                                  *)

ParseMark(p) ==
    /\ Is(p, "mark") /\ Works
    /\ IF call[p].scope = "opens"
       THEN Moves(p, "parse", "mkdir") /\ Stays /\ UNCHANGED unlocked
       ELSE Suppressed(p, "parse")

MkdirMark(p) == /\ Is(p, "mark") /\ create_missing_owner_dir(p, "trust", "allow")
                /\ UNCHANGED unlocked

TrustMark(p) == /\ Is(p, "mark") /\ is_private_directory(p, "write", "allow")
                /\ UNCHANGED unlocked

\* The marker is a rename of a private temporary file, which also creates a
\* directory that went missing; then the log line, which may fail.
WriteMarker(p) ==
    /\ Is(p, "mark")
    /\ \/ /\ Works /\ dir # "foreign" /\ ~full
          /\ Moves(p, "write", "allow")
          /\ dir' = "private"
          /\ markers' = markers \cup {call[p].session}
       \/ /\ IF dir = "foreign" \/ full THEN Works ELSE Fails
          /\ Moves(p, "write", "allow") /\ UNCHANGED <<dir, markers>>
    /\ UNCHANGED <<full, probes, code, unlocked>>

LogMark(p) == Is(p, "mark") /\ Works /\ Suppressed(p, "allow")

Dies(p) == Crash(p) /\ UNCHANGED unlocked
Cleared == Clear /\ UNCHANGED unlocked
Occupied == Occupy /\ UNCHANGED unlocked

----------------------------------------------------------------------------
(* Properties.                                                             *)

\* The shared directory and the processes are well formed: what is missing or
\* another user's holds no entry of this user.
TypeOK ==
    /\ dir \in {"missing", "private", "foreign"}
    /\ markers \subseteq Sessions /\ probes \subseteq Procs
    /\ code \in [Procs -> {None, 0, 2, 120}]
    /\ call \in [Procs -> {None} \cup CheckCalls \cup MarkCalls]
    /\ calls \in 0 .. MaxCalls /\ faults \in 0 .. MaxFaults
    /\ dir # "private" => markers = {} /\ probes = {}

\* An unlocked session stays unlocked (search.rs "until the session makes a
\* localizing agentless call"): a search that begins when its session has a
\* marker is never denied, whatever other hooks do to the directory meanwhile,
\* unless the directory was cleared.
\* A deny can be undone (marker.rs "Proves that a marker can be written before
\* the gate enforces its absence"): after a deny, and until somebody clears the
\* directory, the directory is one in which gate-mark can write the marker.
DenyCanBeUndone ==
    \A p \in Procs : code[p] = 2 /\ stable[p] => ~unlocked[p] /\ dir = "private" /\ ~full
=============================================================================
