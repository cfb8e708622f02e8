-------------------------------- MODULE Globs -------------------------------
(***************************************************************************)
(* The globs of the boundary modules (crates/checks/src/globs.rs).  A glob *)
(* is a sequence of elements, each the two-star element or a sequence of   *)
(* characters in which Star stands for any run of them; a path is a        *)
(* sequence of segments, each a sequence of characters.                    *)
(***************************************************************************)
EXTENDS Integers, SequencesExt

CONSTANT Star

GLOBSTAR == <<Star, Star>>

\* The pieces of a pattern between its stars.
pieces(pattern) ==
    FoldLeft(LAMBDA done, c : IF c = Star THEN Append(done, <<>>)
                              ELSE Append(Front(done), Append(Last(done), c)),
             <<(<<>>)>>, pattern)

\* Where piece starts in text at or after from and ends before or at end, leftmost; 0 for nowhere.
find(text, piece, from, end) ==
    LET places == {k \in from .. end - Len(piece) + 1 : SubSeq(text, k, k + Len(piece) - 1) = piece}
    IN  IF places = {} THEN 0 ELSE CHOOSE k \in places : \A j \in places : k <= j

\* position is the next character to read, or 0 after a piece that is nowhere.
Middle(text, middle, from, end) ==
    FoldLeft(LAMBDA position, piece :
                IF position = 0 \/ find(text, piece, position, end) = 0 THEN 0
                ELSE find(text, piece, position, end) + Len(piece),
             from, middle)
between(text, head, middle, tail, end) ==
    /\ end >= Len(head)
    /\ SubSeq(text, 1, Len(head)) = head
    /\ SubSeq(text, end + 1, Len(text)) = tail
    /\ Middle(text, middle, Len(head) + 1, end) # 0
whole(text, parts) ==
    between(text, Head(parts), SubSeq(parts, 2, Len(parts) - 1), Last(parts),
            Len(text) - Len(Last(parts)))
segment_matches(pattern, text) ==
    IF Len(pieces(pattern)) = 1 THEN pattern = text ELSE whole(text, pieces(pattern))

\* reached is the set of j such that the elements so far consume the first j segments.
step(reached, segments, element) ==
    {j + 1 : j \in {j \in reached : j < Len(segments) /\ segment_matches(element, segments[j + 1])}}
Spread(reached, segments) ==
    FoldLeft(LAMBDA spread, j : IF segments[j] # <<>> /\ j - 1 \in reached \cup spread
                                THEN spread \cup {j} ELSE spread,
             {}, [j \in DOMAIN segments |-> j])
\* Variant: two stars at the end of a glob match an empty rest.
globstar_empty(reached, segments, last) == Spread(reached, segments) \cup reached
globstar(reached, segments, last) ==
    Spread(reached, segments) \cup (IF last THEN {} ELSE reached)
glob_matches(elements, segments) ==
    Len(segments) \in
        FoldLeft(LAMBDA reached, i :
                    IF elements[i] = GLOBSTAR
                    THEN globstar(reached, segments, i = Len(elements))
                    ELSE step(reached, segments, elements[i]),
                 {0}, [i \in DOMAIN elements |-> i])
in_boundary(path, globs) == \E glob \in globs : glob_matches(glob, path)
=============================================================================
