----------------------------- MODULE MCValidate -----------------------------
(* One validate call over three candidates, the first and the last of which *)
(* give the same files.                                                     *)
EXTENDS Validate

CONSTANTS k1, k2

MCThreads == {1, 2}
MCCandidates == 1 .. 3
MCRefusable == {1}
MCKey == <<k1, k2, k1>>

\* A parallel call with no budget, and a sequential one with every rung whose
\* budget ends in any of its commands.
MCRequests ==
    {[jobs |-> 2, repeats |-> 1, repro |-> FALSE, timeout |-> 1, budget |-> None],
     [jobs |-> 1, repeats |-> 2, repro |-> TRUE, timeout |-> 2, budget |-> 2]}
=============================================================================
