---------------------------- MODULE CalleeOverlap ----------------------------
(***************************************************************************)
(* callee_overlap (crates/checks/src/callees.rs, crates/app/src/callees.rs):*)
(* each function that a change adds or rewrites and that calls most of the *)
(* functions an existing function calls.  The functions of the tree after  *)
(* the change are a sequence of [name, path, line, callees, spelled] in    *)
(* tree order; a checked unit is [function, old], where old is the set of  *)
(* the names that its old body spelled, in a sequence of at most one.      *)
(***************************************************************************)
EXTENDS Integers, Sequences, FiniteSets, SequencesExt

CONSTANTS
    MIN_CALLEES,            \* an existing function needs this many callees
    SHARE_PARTS, SHARE_WHOLE,   \* the share of them that the new one calls
    FAMILY_LIMIT,           \* this many others are a convention, not a copy
    MAX_ROWS_PER_UNIT

spells(function, name) == name \in function.spelled

\* The rule for f against g, where f calls `shared` of g's callees.
meets(functions, f, g, shared) ==
    /\ Cardinality(functions[g].callees) >= MIN_CALLEES
    /\ SHARE_WHOLE * shared >= SHARE_PARTS * Cardinality(functions[g].callees)
    /\ ~spells(functions[f], functions[g].name)

Shared(functions, f, g) == Cardinality(functions[f].callees \cap functions[g].callees)

\* The old body spelled enough of g's callees already; a callee is its name.
old_met(functions, old, g) ==
    SHARE_WHOLE * Cardinality(functions[g].callees \cap old) >=
    SHARE_PARTS * Cardinality(functions[g].callees)

\* Every function besides g that meets the rule for g.
members(functions, g) ==
    {h \in DOMAIN functions \ {g} : /\ Shared(functions, h, g) > 0
                                    /\ meets(functions, h, g, Shared(functions, h, g))}

\* How many functions besides f and g meet the rule for g.
family(functions, g, f) == Cardinality(members(functions, g) \ {f})

\* More shared callees first, then the larger set of g, then g's place.
ranks(functions, f, g, h) ==
    LET key(o) == <<-Shared(functions, f, o), -Cardinality(functions[o].callees), o>>
        k == SelectInSeq(<<1, 2, 3>>, LAMBDA i : key(g)[i] # key(h)[i])
    IN  k # 0 /\ key(g)[k] < key(h)[k]

\* The rows of one unit, best first.
unit_rows(functions, unit) ==
    LET f == unit.function
        copied(g) == /\ g # f /\ Shared(functions, f, g) > 0
                     /\ meets(functions, f, g, Shared(functions, f, g))
                     /\ \A old \in ToSet(unit.old) : ~old_met(functions, old, g)
                     /\ family(functions, g, f) < FAMILY_LIMIT
        found == SelectSeq([g \in DOMAIN functions |-> g], copied)
        best == SortSeq(found, LAMBDA g, h : ranks(functions, f, g, h))
    IN  [i \in 1 .. (IF Len(best) < MAX_ROWS_PER_UNIT THEN Len(best) ELSE MAX_ROWS_PER_UNIT) |->
            <<f, best[i]>>]

place_before(left, right) ==
    left.path < right.path \/ (left.path = right.path /\ left.line < right.line)

\* Variant: a row is dropped whenever the other unit reports the pair.
once_per_pair_neither(functions, rows) ==
    SelectSeq(rows, LAMBDA row : <<row[2], row[1]>> \notin ToSet(rows))
\* Two units that meet the rule both ways keep the row of the first by place.
once_per_pair(functions, rows) ==
    SelectSeq(rows, LAMBDA row : \/ <<row[2], row[1]>> \notin ToSet(rows)
                                 \/ place_before(functions[row[1]], functions[row[2]]))

callee_overlap(functions, checked) ==
    once_per_pair(functions,
                  FlattenSeq([i \in DOMAIN checked |-> unit_rows(functions, checked[i])]))
=============================================================================
