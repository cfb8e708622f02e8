------------------------------ MODULE Blocks ------------------------------
(***************************************************************************)
(* Reading a text as SEARCH/REPLACE blocks (crates/patch/src/blocks.rs and *)
(* header.rs).  The text is a sequence of line tokens; a token is a        *)
(* record whose kind is                                                    *)
(*   open, divide, close   the three marker lines; cr when the line ends   *)
(*            with a carriage return; trail when text follows the opener   *)
(*   path     a line of the shape of a path, with the path                 *)
(*   prose    a sentence, a fence or an empty line                         *)
(*   odd      a line that shape() reads as neither                         *)
(*   dots     the elision line                                             *)
(* In a body, path, prose, odd and dots are content.                       *)
(***************************************************************************)
EXTENDS Integers, FiniteSets, SequencesExt

CONSTANT NoPath

\* The positions of the tokens of one kind in `from .. to`.
At(text, kind, from, to) == {i \in from .. to : text[i].kind = kind}

\* The last line of the header that is not prose: a path, or one that the
\* reader cannot read.
filename_in(text, from, to) ==
    LET told == At(text, "path", from, to) \cup At(text, "odd", from, to)
    IN  CASE told = {} -> [shape |-> "absent", path |-> NoPath]
          [] told # {} /\ text[Max(told)].kind = "path" ->
                [shape |-> "named", path |-> text[Max(told)].path]
          [] told # {} /\ text[Max(told)].kind = "odd" -> [shape |-> "unreadable", path |-> NoPath]

\* The two sides of the body in `from .. to`, opened by the marker at from - 1.
split_body(text, from, to) ==
    LET dividers == At(text, "divide", from, to)
        at == CHOOSE i \in dividers : TRUE
        dots(i, j) == i = j /\ text[i].kind = "dots"
        crlf == text[from - 1].cr \/ \E i \in dividers : text[i].cr
    IN  [ok |-> /\ ~crlf /\ ~text[from - 1].trail
                /\ Cardinality(dividers) = 1
                /\ ~(dots(from, at - 1) /\ dots(at + 1, to)),
         search |-> [first |-> from, last |-> at - 1],
         replace |-> [first |-> at + 1, last |-> to]]

\* One block: the path that the next one inherits, and its edit if it is one.
read_block(text, from, close, inherited) ==
    LET opens == At(text, "open", from, close - 1)
        header_end == IF opens = {} THEN close - 1 ELSE Min(opens) - 1
        named == filename_in(text, from, header_end)
        path == IF named.shape = "named" THEN named.path ELSE inherited
    IN  IF named.shape = "unreadable" \/ Cardinality(opens) # 1 \/ path = NoPath
        THEN [ok |-> FALSE, path |-> path]
        ELSE LET body == split_body(text, Min(opens) + 1, close - 1)
             IN  IF ~body.ok THEN [ok |-> FALSE, path |-> path]
                 ELSE [ok |-> TRUE, path |-> path, search |-> body.search, replace |-> body.replace]

\* The edits in order, and the number of refusals.
parse_blocks(text) ==
    LET closes == SetToSortSeq(At(text, "close", 1, Len(text)), <)
        start(n) == IF n = 1 THEN 1 ELSE closes[n - 1] + 1
        step(done, n) ==
            LET block == read_block(text, start(n), closes[n], done.path)
            IN  [path |-> block.path,
                 edits |-> IF block.ok THEN Append(done.edits, block) ELSE done.edits,
                 errors |-> IF block.ok THEN done.errors ELSE done.errors + 1]
        read == FoldLeft(step, [path |-> NoPath, edits |-> <<>>, errors |-> 0],
                         [n \in DOMAIN closes |-> n])
        unterminated == At(text, "open", start(Len(closes) + 1), Len(text)) # {}
        errors == read.errors + IF unterminated THEN 1 ELSE 0
    IN  [edits |-> read.edits,
         errors |-> IF read.edits = <<>> /\ errors = 0 THEN 1 ELSE errors]
=============================================================================
