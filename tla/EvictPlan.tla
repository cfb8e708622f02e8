----------------------------- MODULE EvictPlan -----------------------------
(***************************************************************************)
(* evict_plan of crates/store/src/sweep.rs: which databases of the cache   *)
(* root an index run deletes, as a function of what it weighed.  Sizes are *)
(* u64 with saturating sums; MaxSize stands for u64::MAX, so an instance   *)
(* reaches the saturation.                                                 *)
(***************************************************************************)
EXTENDS Integers, FiniteSets, SequencesExt

CONSTANTS
    MaxSize,            \* the largest size: u64::MAX
    PROTECTED_SECONDS   \* the window in which a use protects a database

ASSUME SizeAssumption == MaxSize \in Nat
ASSUME WindowAssumption == PROTECTED_SECONDS \in Nat

saturating_add(a, b) == IF a + b > MaxSize THEN MaxSize ELSE a + b

\* The stable sort, the most recent first.
ordered(entries) ==
    LET earlier(i, j) == \/ entries[i].used_at > entries[j].used_at
                         \/ entries[i].used_at = entries[j].used_at /\ i < j
        positions == SetToSortSeq(DOMAIN entries, earlier)
    IN  [p \in DOMAIN positions |-> entries[positions[p]]]

\* Whether the entry at position p of the sorted entries may not be planned.
protected(sorted, p, keep, now) ==
    \/ sorted[p].database = keep
    \/ p = 1
    \/ sorted[p].used_at >= now - PROTECTED_SECONDS

\* Variant: a colder entry that fits is kept behind one that does not.
evict_plan_best_fit(entries, limit, keep, now) ==
    LET sorted == ordered(entries)
        weigh(walk, p) ==
            LET over == saturating_add(walk.total, sorted[p].size) > limit
            IN  IF ~protected(sorted, p, keep, now) /\ over
                THEN [walk EXCEPT !.evict = <<sorted[p]>> \o @]
                ELSE [walk EXCEPT !.total = saturating_add(@, sorted[p].size)]
    IN  FoldLeft(weigh, [evict |-> <<>>, total |-> 0],
                 [p \in DOMAIN sorted |-> p]).evict

\* The plan, coldest first.
evict_plan(entries, limit, keep, now) ==
    LET sorted == ordered(entries)
        weigh(walk, p) ==
            LET over == saturating_add(walk.total, sorted[p].size) > limit
            IN  IF ~protected(sorted, p, keep, now) /\ (walk.evict # <<>> \/ over)
                THEN [walk EXCEPT !.evict = <<sorted[p]>> \o @]
                ELSE [walk EXCEPT !.total = saturating_add(@, sorted[p].size)]
    IN  FoldLeft(weigh, [evict |-> <<>>, total |-> 0],
                 [p \in DOMAIN sorted |-> p]).evict
=============================================================================
