---------------------------- MODULE ApplyEdits ----------------------------
(***************************************************************************)
(* Applying SEARCH/REPLACE edits to file texts in memory                   *)
(* (crates/patch/src/apply.rs and elision.rs).  A text is a sequence of    *)
(* characters, because the code matches whole lines by padding both texts  *)
(* with newlines and searching for a substring: that this is the same as   *)
(* matching lines is what the module is for.  Three characters matter: the *)
(* newline, white space and the elision mark, which stands for the three   *)
(* dots of "..." and only ever fills a line of its own.                    *)
(***************************************************************************)
EXTENDS Integers, FiniteSets, SequencesExt

CONSTANTS NL, Space, Dots

ELISION == <<Dots>>
ELISION_PREFIX == <<Dots, NL>>

pad(text) == <<NL>> \o text \o <<NL>>

\* Variant: the block is searched without the newline that ends it.
whole_line_starts_open(padded, block) ==
    {i \in 1 .. Len(padded) - Len(block) - 1 :
        SubSeq(padded, i, i + Len(block)) = <<NL>> \o block}

\* Every offset at which the padded block occurs, overlapping ones included.
whole_line_starts(padded, block) ==
    {i \in 1 .. Len(padded) - Len(block) - 1 :
        SubSeq(padded, i, i + Len(block) + 1) = pad(block)}

without_prefix(side) ==
    IF IsPrefix(ELISION_PREFIX, side) /\ side # ELISION_PREFIX
    THEN SubSeq(side, 3, Len(side)) ELSE side

\* The lines between newlines; a text of n newlines has n + 1 lines.
Lines(text) ==
    LET between(breaks) ==
            [k \in 1 .. Len(breaks) - 1 |-> SubSeq(text, breaks[k] + 1, breaks[k + 1] - 1)]
    IN  between(SetToSortSeq({0, Len(text) + 1} \cup {i \in DOMAIN text : text[i] = NL}, <))

\* The first unindented line that occurs once in the text, <<>> when none does.
find_anchor(text) ==
    LET good(lines) == {k \in DOMAIN lines :
                          /\ lines[k] # <<>> /\ lines[k][1] # Space
                          /\ \A j \in DOMAIN lines : lines[j] = lines[k] => j = k}
        first(lines, at) == IF at = {} THEN <<>> ELSE lines[CHOOSE k \in at : \A j \in at : k <= j]
        anchor(lines) == first(lines, good(lines))
    IN  anchor(Lines(text))

\* The two sides once the elisions are expanded, or that they cannot be.
resolve_elisions(search, rest, text) ==
    LET above(anchor) == [ok |-> rest # <<>> /\ rest[1] \notin {Space, NL} /\ anchor # <<>>,
                          search |-> anchor, replace |-> rest \o <<NL, NL>> \o anchor]
    IN  IF search = ELISION THEN above(find_anchor(text))
        ELSE [ok |-> TRUE, search |-> without_prefix(search), replace |-> rest]

\* The text with the lines at `at` replaced.
splice(padded, at, sides) ==
    LET inner(updated) == SubSeq(updated, 2, Len(updated) - 1)
    IN  inner(SubSeq(padded, 1, at - 1) \o pad(sides.replace)
                \o SubSeq(padded, at + Len(sides.search) + 2, Len(padded)))

\* One edit against the current text: its status and the text that it leaves.
placed(edit, content) ==
    LET refused(status) == [status |-> status, text |-> content]
        at(sides, starts) ==
            IF edit.search = <<>> \/ ~sides.ok THEN refused("no_anchor")
            ELSE IF starts = {} THEN refused("not_found")
            ELSE IF Cardinality(starts) > 1 THEN refused("ambiguous")
            ELSE [status |-> "applied",
                  text |-> splice(pad(content), CHOOSE i \in starts : TRUE, sides)]
        with(sides) == at(sides, whole_line_starts(pad(content), sides.search))
    IN  with(resolve_elisions(edit.search, without_prefix(edit.replace), content))

\* Each edit matches its file as the edits before it left it.
apply_edits(edits, contents) ==
    LET left(done, path, p) == [statuses |-> Append(done.statuses, p.status),
                                contents |-> [done.contents EXCEPT ![path] = p.text]]
        step(done, edit) ==
            IF edit.path \notin DOMAIN contents
            THEN [done EXCEPT !.statuses = Append(@, "no_such_file")]
            ELSE left(done, edit.path, placed(edit, done.contents[edit.path]))
    IN  FoldLeft(step, [statuses |-> <<>>, contents |-> contents], edits)

\* The files that the edits changed.
changed(before, after) == {f \in DOMAIN before : before[f] # after[f]}

\* Every edit applied.
ok(result) == \A i \in DOMAIN result.statuses : result.statuses[i] = "applied"
=============================================================================
