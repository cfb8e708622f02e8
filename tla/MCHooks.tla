------------------------------ MODULE MCHooks ------------------------------
(***************************************************************************)
(* The three hooks of crates/hook, for TLC: a behaviour is the life of one *)
(* erosion gate call, or of several search gate processes, or of several   *)
(* prompt map processes.  They share no state, so `hook` picks one and the *)
(* variables of the others keep their first values.                        *)
(***************************************************************************)
EXTENDS ErosionGate
CONSTANTS Procs, Sessions, MaxCalls, MaxFaults

VARIABLES hook, full, dir, markers, probes, proc, call, code, stable, calls, faults,
          unlocked, emitted, plog

S == INSTANCE SearchGate WITH at <- proc
P == INSTANCE PromptMap WITH at <- proc, log <- plog

EVars == vars
MVars == <<full, dir, markers, probes, proc, call, code, stable, calls, faults>>
everything == <<hook, EVars, MVars, unlocked, emitted, plog>>

MCConfigs == {[c \in Checks |-> "off"]} \cup [Checks -> {"unset", "block"}]
MCReports == {{}} \cup {{r} : r \in Rows} \cup {[check : Checks, says : {"finding"}]}

MCInit ==
    /\ hook \in {"erosion", "search", "prompt"}
    /\ IF hook = "erosion" THEN Init
       ELSE Init /\ env_gate = "off" /\ logging = FALSE /\ config = [c \in Checks |-> "off"]
    /\ S!Init /\ P!Init
    /\ hook = "erosion" => ~full /\ dir = "missing"

Erosion(A) == hook = "erosion" /\ A /\ UNCHANGED <<hook, MVars, unlocked, emitted, plog>>
Search(A) == hook = "search" /\ A /\ UNCHANGED <<hook, EVars, emitted, plog>>
Prompt(A) == hook = "prompt" /\ A /\ UNCHANGED <<hook, EVars, unlocked>>

MCNext ==
    \/ Erosion(Start) \/ Erosion(Watch) \/ Erosion(Read) \/ Erosion(Payload)
    \/ Erosion(Locate) \/ Erosion(GitAnswers) \/ Erosion(GitStopped) \/ Erosion(Root)
    \/ Erosion(Configure) \/ Erosion(Propose) \/ Erosion(Lint)
    \/ \E place \in DOMAIN Halts, outcome \in {"skipped", "degraded"} :
          Erosion(HaltAt(place, outcome))
    \/ Erosion(Linted) \/ Erosion(LintFails) \/ Erosion(Classify) \/ Erosion(Settle)
    \/ Erosion(AppendRecord) \/ Erosion(Stop) \/ Erosion(Answer)
    \/ Erosion(WorkerEnds) \/ Erosion(Terminate) \/ Erosion(TerminateExits)
    \/ Erosion(Killed) \/ Erosion(Sigterm) \/ Erosion(Tick)
    \/ Search(S!Cleared) \/ Search(S!Occupied)
    \/ Prompt(P!Cleared) \/ Prompt(P!Occupied)
    \/ \E p \in Procs :
         \/ \E c \in S!CheckCalls \cup S!MarkCalls : Search(S!Begin(p, c))
         \/ Search(S!Parse(p)) \/ Search(S!Exists(p)) \/ Search(S!Scope(p))
         \/ Search(S!Mkdir(p)) \/ Search(S!Trust(p)) \/ Search(S!WriteProbe(p))
         \/ Search(S!RemoveProbe(p)) \/ Search(S!LogAllow(p)) \/ Search(S!LogDeny(p))
         \/ Search(S!Deny(p)) \/ Search(S!ParseMark(p)) \/ Search(S!MkdirMark(p))
         \/ Search(S!TrustMark(p)) \/ Search(S!WriteMarker(p)) \/ Search(S!LogMark(p))
         \/ Search(S!Dies(p))
         \/ \E c \in P!Prompts : Prompt(P!Begin(p, c))
         \/ Prompt(P!Decide(p)) \/ Prompt(P!ClaimMkdir(p)) \/ Prompt(P!ClaimTrust(p))
         \/ Prompt(P!Claim(p)) \/ Prompt(P!Mapped(p)) \/ Prompt(P!StaysSilent(p))
         \/ Prompt(P!Emit(p)) \/ Prompt(P!Dies(p))

\* Every thread of the gate runs on: its stdin ends, the watcher is scheduled
\* and time passes. Nothing is assumed of the lint worker or of a signal.
MCSpec ==
    /\ MCInit /\ [][MCNext]_everything
    /\ WF_everything(Erosion(Main)) /\ WF_everything(Erosion(Watcher))
    /\ WF_everything(Erosion(Tick))


\* The gate call ends: a lint that never returns, a git that hangs and a SIGTERM
\* at any moment all lead to an exit of the process.
GateEnds == <>(hook = "erosion" => exit # None)
=============================================================================
