----------------------------- MODULE CloneDelta -----------------------------
(***************************************************************************)
(* clone_delta: the blocks that a change adds and that have a copy in the  *)
(* repository after it (crates/checks/src/copies.rs and clone.rs), and the *)
(* index of the other files (index.rs).                                    *)
(*                                                                         *)
(* A block is [side, path, line, end, key, exact, tokens, function]: key   *)
(* tells blocks apart up to their names, exact by their text.  A file of   *)
(* the run is [old, new, unchanged]: the blocks of its sides by place and  *)
(* the lines that the diff left in place, as a function from old lines to  *)
(* new lines.                                                              *)
(***************************************************************************)
EXTENDS Integers, FiniteSets, SequencesExt, TLC

CONSTANTS
    MIN_FINDING_TOKENS, MIN_INSTANCES

place(b) == <<b.path, b.line, b.end>>
Before3(p, q) == p[1] < q[1] \/ (p[1] = q[1] /\ (p[2] < q[2] \/ (p[2] = q[2] /\ p[3] < q[3])))
sort_by_place(blocks) == SortSeq(blocks, LAMBDA b, c : Before3(place(b), place(c)))

\* Each new block takes the first old one that waits under its key.  keys gives
\* the key of each block.
Rank(blocks, i, keys) == Cardinality({j \in 1..i : keys[blocks[j]] = keys[blocks[i]]})
Under(blocks, key, keys) == Cardinality({j \in DOMAIN blocks : keys[blocks[j]] = key})
Unpaired(mine, others, keys) ==
    LET left == {mine[i] : i \in {i \in DOMAIN mine :
                    Rank(mine, i, keys) > Under(others, keys[mine[i]], keys)}}
    IN  SelectSeq(mine, LAMBDA b : b \in left)
pair_by(sides, keys) ==
    [old |-> sort_by_place(Unpaired(sides.old, sides.new, keys)),
     new |-> Unpaired(sides.new, sides.old, keys)]

Blocks(sides) == ToSet(sides.old) \cup ToSet(sides.new)
exact(sides) == [b \in Blocks(sides) |-> b.exact]
type2(sides) == [b \in Blocks(sides) |-> b.key]
\* The new line of a block, or 0 for an old one whose line the diff changed.
in_place(sides, unchanged) ==
    [b \in Blocks(sides) |->
        <<IF b.side = "new" THEN b.line
          ELSE IF b.line \in DOMAIN unchanged THEN unchanged[b.line] ELSE 0, b.exact>>]

by_exact(sides) == pair_by(sides, exact(sides))
by_type2(sides) == pair_by(sides, type2(sides))
by_line(sides, unchanged) == pair_by(sides, in_place(sides, unchanged))

within_file(file) ==
    by_type2(by_exact(by_line([old |-> file.old, new |-> file.new], file.unchanged)))

across(left) ==
    by_type2(by_exact(
        [old |-> sort_by_place(FlattenSeq([i \in DOMAIN left |-> left[i].old])),
         new |-> sort_by_place(FlattenSeq([i \in DOMAIN left |-> left[i].new]))])).new
added(files) == across([i \in DOMAIN files |-> within_file(files[i])])

\* The instances of a block are those of the repository after the change: the
\* indexed blocks of the files that the run does not change, and the new sides.
instances(files, indexed, b) ==
    {c \in indexed \cup UNION {ToSet(files[i].new) : i \in DOMAIN files} : c.key = b.key}
reportable(files, indexed, b) ==
    b.tokens >= MIN_FINDING_TOKENS /\ Cardinality(instances(files, indexed, b)) >= MIN_INSTANCES

-----------------------------------------------------------------------------
\* A copy inside a copy folds into it, and so does one inside a function that
\* near_duplicates reported.
within(b, outer) == b.path = outer.path /\ outer.line <= b.line /\ b.end <= outer.end
near_duplicate(b, reported) == b.function /\ <<b.path, b.line>> \in reported

outer_first(copies) == SortSeq(copies, LAMBDA b, c : Before3(<<b.path, b.line, -b.end>>,
                                                              <<c.path, c.line, -c.end>>))
\* Variant: a function that near_duplicates reported is left out before the fold.
folded_unreported(state, b, reported) ==
    IF near_duplicate(b, reported) \/ \E c \in state.outer : within(b, c) THEN state
    ELSE [outer |-> {b}, kept |-> Append(state.kept, b)]
folded(state, b, reported) ==
    IF \E c \in state.outer : within(b, c) THEN state
    ELSE [outer |-> {b},
          kept |-> IF near_duplicate(b, reported) THEN state.kept ELSE Append(state.kept, b)]
outermost(copies, reported) ==
    FoldLeft(LAMBDA state, b : folded(state, b, reported), [outer |-> {}, kept |-> <<>>],
             outer_first(copies)).kept

\* clone_delta with a built index.
clone_delta(files, indexed, reported) ==
    outermost(SelectSeq(added(files), LAMBDA b : reportable(files, indexed, b)), reported)
=============================================================================
