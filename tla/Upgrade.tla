------------------------------ MODULE Upgrade ------------------------------
(***************************************************************************)
(* The restart on upgrade of the HTTP server (crates/mcp/src/restart.rs,   *)
(* with the stop and the wind-down of http.rs and the start of serve.rs):  *)
(* the fingerprint of the installed binary is read at the start and at     *)
(* each tick; a change stops the server and, unless a signal comes first,  *)
(* runs the installed binary in this process.                              *)
(*                                                                         *)
(* A version stands for the fingerprint of a binary.  An installer either  *)
(* renames a new binary into place or removes the old one first.  The      *)
(* calls that the wind-down waits for are those of CallGate.               *)
(***************************************************************************)
EXTENDS Integers

CONSTANTS
    MaxVersion,         \* the last version that is installed
    MINIMUM_UPTIME,     \* in ticks
    watched             \* FALSE when an option or the environment opts out

Absent == 0

VARIABLES
    installed,      \* the version at the binary's path, or Absent
    newest,         \* the last version that was installed
    image,          \* the version that this process runs
    serving,        \* "starting", "watching", "unwatched", "winding" or "ended"
    baseline,       \* the fingerprint that ticks compare with, or Absent
    uptime,         \* ticks since the start, counted up to MINIMUM_UPTIME
    unseen          \* the binary changed before the first fingerprint was read

vars == <<installed, newest, image, serving, baseline, uptime, unseen>>

Init ==
    /\ installed = 1 /\ newest = 1 /\ image = 1
    /\ serving = "starting" /\ baseline = Absent /\ uptime = 0 /\ unseen = FALSE

\* The monitor starts with the fingerprint of now, which is none while an
\* upgrade is in progress.
watch ==
    /\ serving = "starting"
    /\ serving' = IF watched THEN "watching" ELSE "unwatched"
    /\ baseline' = installed
    /\ unseen' = (installed # image)
    /\ UNCHANGED <<installed, newest, image, uptime>>


\* One tick.  Absence never restarts; the first fingerprint read becomes the
\* baseline; a change under the minimum uptime is held.
step ==
    /\ serving = "watching"
    /\ \/ installed = Absent /\ UNCHANGED <<serving, baseline>>
       \/ /\ installed # Absent /\ baseline = Absent
          /\ baseline' = installed /\ UNCHANGED serving
       \/ /\ installed # Absent /\ baseline # Absent
          /\ serving' = IF installed = baseline \/ uptime < MINIMUM_UPTIME THEN serving
                        ELSE "winding"
          /\ UNCHANGED baseline
    /\ uptime' = IF uptime < MINIMUM_UPTIME THEN uptime + 1 ELSE uptime
    /\ UNCHANGED <<installed, newest, image, unseen>>

\* The calls are drained and the connections closed; then the exec, which ends
\* the process when there is no binary at the path.
relaunch ==
    /\ serving = "winding"
    /\ IF installed = Absent
       THEN serving' = "ended" /\ UNCHANGED <<image, baseline, uptime, unseen>>
       ELSE /\ serving' = "starting" /\ image' = installed
            /\ baseline' = Absent /\ uptime' = 0 /\ unseen' = FALSE
    /\ UNCHANGED <<installed, newest>>

\* A signal stops the server, also one that is winding down for a restart.
signalled ==
    /\ serving # "ended" /\ serving' = "ended"
    /\ UNCHANGED <<installed, newest, image, baseline, uptime, unseen>>

install ==
    /\ newest < MaxVersion
    /\ newest' = newest + 1 /\ installed' = newest + 1
    /\ UNCHANGED <<image, serving, baseline, uptime, unseen>>

uninstall ==
    /\ installed # Absent /\ newest < MaxVersion /\ installed' = Absent
    /\ UNCHANGED <<newest, image, serving, baseline, uptime, unseen>>

Server == watch \/ step \/ relaunch
Next == Server \/ signalled \/ install \/ uninstall

-----------------------------------------------------------------------------
\* A server that watches ends up running the binary that rests at its path, or
\* ends: however installs, removals, ticks and the minimum uptime interleave, no
\* change is forgotten, except one made before the first fingerprint was read.
UpgradeIsServed ==
    <>[](installed # Absent) =>
        <>[](serving \in {"ended", "unwatched"} \/ image = installed \/ unseen)
=============================================================================
