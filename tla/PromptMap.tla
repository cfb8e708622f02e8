----------------------------- MODULE PromptMap -----------------------------
(***************************************************************************)
(* The prompt map (crates/hook/src/prompt_map.rs): on the first prompt of  *)
(* a session that names something of the repository, one sentence of       *)
(* context.  The marker that the hook creates is the session's one try; it *)
(* is created before the map runs, so that a deadline or a crash uses it   *)
(* too, and creating it is what two hooks of one session race for.  A      *)
(* payload is "plain" when it gives no repository, no prompt or no seed,   *)
(* and "seeded" otherwise.                                                 *)
(***************************************************************************)
EXTENDS MarkerDir

VARIABLES
    emitted,        \* [Sessions -> sentences written since the last clear]
    log             \* [Procs -> what the log line of its last call says]

prompt == <<vars, emitted, log>>

Prompts == [hook : {"prompt"}, session : Sessions, scope : {"plain", "seeded"}]

Init == /\ InitDir
        /\ emitted = [s \in Sessions |-> 0] /\ log = [p \in Procs |-> None]

Begin(p, payload) == Begins(p, payload) /\ UNCHANGED <<emitted, log>>

\* Every run ends with one log line and exit 0; an append that fails is dropped.
Ends(p, from, event) ==
    /\ Exits(p, from, 0)
    /\ log' = [log EXCEPT ![p] = event]
    /\ UNCHANGED directory

Silent(p, from) == Ends(p, from, "silent") /\ UNCHANGED emitted

\* The payload, the repository and the seeds. No seed, no marker.
Decide(p) ==
    /\ at[p] = "parse" /\ Works
    /\ IF call[p].scope = "plain" THEN Silent(p, "parse")
       ELSE Moves(p, "parse", "mkdir") /\ Stays /\ UNCHANGED <<emitted, log>>

ClaimMkdir(p) == create_missing_owner_dir(p, "trust", "silent") /\ UNCHANGED <<emitted, log>>
ClaimTrust(p) == is_private_directory(p, "claim", "silent") /\ UNCHANGED <<emitted, log>>

\* A new file, or nothing: an existing marker means the session had its try.
Claim(p) ==
    /\ at[p] = "claim"
    /\ \/ /\ Works
          /\ IF trusted /\ ~full /\ call[p].session \notin markers
             THEN Moves(p, "claim", "map") /\ markers' = markers \cup {call[p].session}
             ELSE Moves(p, "claim", "silent") /\ UNCHANGED markers
       \/ Fails /\ Moves(p, "claim", "silent") /\ UNCHANGED markers
    /\ UNCHANGED <<full, dir, probes, code, emitted, log>>

\* The map runs on its own thread; it may fail, pass its deadline, or resolve
\* none of the seeds.
Mapped(p) ==
    /\ Works
    /\ \E to \in {"write", "silent"} : Moves(p, "map", to)
    /\ Stays /\ UNCHANGED <<emitted, log>>

StaysSilent(p) == Works /\ Silent(p, "silent")

\* The sentence is written and flushed; then the log line.
Emit(p) ==
    \/ /\ Ends(p, "write", "emitted") /\ Works
       /\ emitted' = [emitted EXCEPT ![call[p].session] = @ + (IF stable[p] THEN 1 ELSE 0)]
    \/ Fails /\ Silent(p, "write")

Dies(p) == Crash(p) /\ UNCHANGED <<emitted, log>>
Cleared == Clear /\ emitted' = [s \in Sessions |-> 0] /\ UNCHANGED log
Occupied == Occupy /\ UNCHANGED <<emitted, log>>

----------------------------------------------------------------------------
(* Properties.                                                             *)

\* A session gets the sentence at most once while its marker lasts, however
\* many hooks of the session run at the same time (prompt_map.rs claim).
EmitsOnce == \A s \in Sessions : emitted[s] <= 1
=============================================================================
