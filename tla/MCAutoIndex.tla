---------------------------- MODULE MCAutoIndex ----------------------------
(* The settings of AutoIndex.                                              *)
EXTENDS AutoIndex

CONSTANTS c1, c2

\* One call at a time on an indexed repository.
Quiet == [callers |-> {c1}, last |-> 4, evictions |-> 0, found |-> 1, faults |-> FALSE]

\* One call at a time on a new repository, with faults and an eviction.
Faulty == [callers |-> {c1}, last |-> 3, evictions |-> 1, found |-> 0, faults |-> TRUE]

\* Two calls at a time on a new repository, with an eviction.
Busy == [callers |-> {c1, c2}, last |-> 2, evictions |-> 1, found |-> 0, faults |-> FALSE]

AllSettings == {Quiet, Faulty, Busy}

\* One call at a time on an indexed repository that is evicted once.
Evicted == {[Quiet EXCEPT !.last = 2, !.evictions = 1]}
=============================================================================
