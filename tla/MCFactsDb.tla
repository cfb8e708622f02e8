----------------------------- MODULE MCFactsDb -----------------------------
(* A database with one index run and one reader of the same build.         *)
EXTENDS FactsDb

CONSTANTS i1, r1, p1, t1, bad

SameBuild == {[x \in {i1, r1} |-> [schema |-> 1, analysis |-> "a"]]}
=============================================================================
