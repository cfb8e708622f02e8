------------------------------- MODULE Vote -------------------------------
(***************************************************************************)
(* The filter ladder and the vote over equivalence clusters of validated   *)
(* candidates (crates/patch/src/vote.rs).  A candidate is a record: its    *)
(* id, its index in first-appearance order, whether it applied, its        *)
(* equivalence key (NoKey when it changed nothing), its regression result  *)
(* and whether it passed the reproduction.                                 *)
(***************************************************************************)
EXTENDS Integers, FiniteSets, SequencesExt

CONSTANT NoKey

Regressions == {"not_measured", "failed", "passed"}

\* exclusion() answers None.
eligible(candidate) ==
    candidate.applied /\ candidate.regression # "not_measured" /\ candidate.key # NoKey

keeps(tier, candidate) ==
    CASE tier = "reproduction" -> candidate.regression = "passed" /\ candidate.reproduced
      [] tier = "regression" -> candidate.regression = "passed"
      [] tier = "applied" -> TRUE

\* The first rung that keeps a candidate, and those that it keeps.
ladder(candidates, repro_valid) ==
    LET rungs == SelectSeq(<<"reproduction", "regression", "applied">>,
                           LAMBDA tier : repro_valid \/ tier # "reproduction")
        kept(tier) == SelectSeq(candidates, LAMBDA c : keeps(tier, c))
        hits == SelectSeq(rungs, LAMBDA tier : kept(tier) # <<>>)
    IN  IF hits = <<>> THEN [tier |-> "none", survivors |-> <<>>]
        ELSE [tier |-> hits[1], survivors |-> kept(hits[1])]

\* Variant: clusters of one size stay in the order of their keys.
clusters_by_size(survivors) ==
    LET keys == {survivors[i].key : i \in DOMAIN survivors}
        members(key) == SelectSeq(survivors, LAMBDA c : c.key = key)
        earlier(k, l) == Len(members(k)) >= Len(members(l))
        ranked == SetToSortSeq(keys, earlier)
    IN  [r \in DOMAIN ranked |-> [key |-> ranked[r],
            members |-> [i \in DOMAIN members(ranked[r]) |-> members(ranked[r])[i].id]]]

\* The survivors by key, the largest cluster first, ties to the earliest
\* first appearance; the members of a cluster in first-appearance order.
clusters(survivors) ==
    LET keys == {survivors[i].key : i \in DOMAIN survivors}
        members(key) == SelectSeq(survivors, LAMBDA c : c.key = key)
        earlier(k, l) == \/ Len(members(k)) > Len(members(l))
                         \/ /\ Len(members(k)) = Len(members(l))
                            /\ members(k)[1].index < members(l)[1].index
        ranked == SetToSortSeq(keys, earlier)
    IN  [r \in DOMAIN ranked |-> [key |-> ranked[r],
            members |-> [i \in DOMAIN members(ranked[r]) |-> members(ranked[r])[i].id]]]

rank(candidates, repro_valid) ==
    LET ordered_by_index == SortSeq(candidates, LAMBDA c, d : c.index < d.index)
        answered == ladder(SelectSeq(ordered_by_index, eligible), repro_valid)
    IN  [tier |-> answered.tier, survived |-> Len(answered.survivors),
         clusters |-> clusters(answered.survivors)]

\* The representative of the top cluster, or NoKey when nothing ranked.
winner(report) == IF report.clusters = <<>> THEN NoKey ELSE report.clusters[1].members[1]
=============================================================================
