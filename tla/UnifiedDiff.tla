---------------------------- MODULE UnifiedDiff ----------------------------
(***************************************************************************)
(* Reading a unified diff as one edit per hunk, and telling whether a tree *)
(* is the diff's base (crates/patch/src/unidiff.rs with headers.rs and     *)
(* hunks.rs).  A line of the diff is a record:                             *)
(*   kind     what the line reads as outside a hunk's body: git, old, new  *)
(*            (the diff --git, --- and +++ headers), hunk (@@ -s,c +s,c    *)
(*            @@), mangled (other text after @@), binary, rename, ignored  *)
(*            (the extended headers), combined, nonl (no newline at end),  *)
(*            trailer (--), bare (an empty line), or plain                 *)
(*   marker   its first character, and " " for an empty line               *)
(*   content  the text after the marker                                    *)
(*   arg      a header's path without its a/ or b/ prefix, DevNull, Quoted *)
(*            (a C-quoted path, which the reader does not decode) or None; *)
(*            the numbers of a hunk header                                 *)
(*   cr       whether it ends with a carriage return                       *)
(* so a removed line that reads like the next file's header has the kind   *)
(* of that header and the marker and content of the removed line.  The     *)
(* index of an edit and the wording of a refusal are left out.             *)
(***************************************************************************)
EXTENDS ApplyEdits

CONSTANTS DevNull, Quoted, None

\* The lines of one side as a text.
Join(lines) ==
    IF lines = <<>> THEN <<>>
    ELSE FoldLeft(LAMBDA text, line : text \o <<NL>> \o line, Head(lines), Tail(lines))

opens_section(line) == line.kind \in {"git", "old"}
opens_hunk(lines, at) == at <= Len(lines) /\ lines[at].kind \in {"hunk", "mangled"}

\* Variant: the body ends at a line that reads like the next section.
hunk_body_to_header(lines, at, counts) ==
    LET open(t) == Len(t.old) < counts.old_count \/ Len(t.new) < counts.new_count
        step(t, line) ==
            IF ~t.ok \/ t.end \/ ~open(t) THEN t
            ELSE IF opens_section(line) THEN [t EXCEPT !.end = TRUE]
            ELSE IF line.kind = "nonl" THEN [t EXCEPT !.next = @ + 1]
            ELSE [t EXCEPT !.next = @ + 1,
                           !.old = IF line.marker \in {" ", "-"} THEN Append(@, line.content) ELSE @,
                           !.new = IF line.marker \in {" ", "+"} THEN Append(@, line.content) ELSE @]
    IN  FoldLeft(step, [ok |-> TRUE, end |-> FALSE, next |-> at, old |-> <<>>, new |-> <<>>],
                 SubSeq(lines, at, Len(lines)))

\* Consumes exactly the lines that the header declares, then the markers of a
\* missing newline.  Not ok: a line that is no body line, one that the counts
\* do not admit, or the end of the diff.
hunk_body(lines, at, counts) ==
    LET left(t, side) == IF side = "old" THEN Len(t.old) < counts.old_count
                                         ELSE Len(t.new) < counts.new_count
        open(t) == left(t, "old") \/ left(t, "new")
        sides(line) == CASE line.marker = " " -> {"old", "new"}
                         [] line.marker = "-" -> {"old"}
                         [] line.marker = "+" -> {"new"}
                         [] OTHER -> {}
        fits(t, line) == sides(line) # {} /\ \A s \in sides(line) : left(t, s)
        take(t, line) ==
            [t EXCEPT !.next = @ + 1,
                      !.old = IF "old" \in sides(line) THEN Append(@, line.content) ELSE @,
                      !.new = IF "new" \in sides(line) THEN Append(@, line.content) ELSE @]
        step(t, line) ==
            IF ~t.ok \/ ~open(t) THEN t
            ELSE IF line.kind = "nonl" THEN [t EXCEPT !.next = @ + 1]
            ELSE IF fits(t, line) THEN take(t, line)
            ELSE [t EXCEPT !.ok = FALSE]
        ended(tally) ==
            [tally EXCEPT !.ok = @ /\ ~open(tally),
                          !.next = CHOOSE n \in @ .. Len(lines) + 1 :
                                      /\ n > Len(lines) \/ lines[n].kind # "nonl"
                                      /\ \A k \in @ .. n - 1 : lines[k].kind = "nonl"]
    IN  ended(FoldLeft(step, [ok |-> TRUE, next |-> at, old |-> <<>>, new |-> <<>>],
                       SubSeq(lines, at, Len(lines))))

\* The line after the hunk at `at`, or None when it does not read.
end_of_hunk(lines, at) ==
    IF lines[at].kind # "hunk" THEN None
    ELSE LET after(body) == IF body.ok THEN body.next ELSE None
         IN  after(hunk_body(lines, at + 1, lines[at].arg))

\* Where the section that holds `at` ends: hunks are stepped over by their
\* counts, and a diff --git section runs to the next diff --git.
skip_to_next_section(lines, at, git_only) ==
    LET skip[i \in at .. Len(lines) + 1] ==
            IF i > Len(lines) THEN i
            ELSE IF lines[i].kind = "git" \/ (~git_only /\ opens_section(lines[i])) THEN i
            ELSE LET beyond(end) == skip[IF end = None THEN i + 1 ELSE end]
                 IN  beyond(IF opens_hunk(lines, i) THEN end_of_hunk(lines, i) ELSE None)
    IN  skip[at]

\* A body line that no header declared.
is_stray_body(line) ==
    /\ line.kind \notin {"bare", "trailer", "hunk", "mangled", "git", "old"}
    /\ line.marker \in {" ", "-", "+"}

\* Whether lines at .. end - 1 hold hunk content that the hunk loop left.
unread_content(lines, at, end) ==
    LET told(rest) == rest # <<>> /\ is_stray_body(rest[1])
    IN  \/ \E i \in at .. end - 1 : lines[i].kind = "hunk"
        \/ told(SelectSeq(SubSeq(lines, at, end - 1), LAMBDA l : l.kind \notin {"bare", "trailer"}))

\* Whether the header of a hunk reads and its numbers are those of a hunk that
\* may follow one that ended before line `floor` of the old file.
hunk_counts(line, new_file, floor) ==
    /\ ~line.cr
    /\ line.kind = "hunk"
    /\ line.arg.old_count # 0 \/ (line.arg.new_count # 0 /\ new_file)
    /\ line.arg.old_start >= floor

\* Every hunk of a section, up to the first refusal.
hunks(lines, at, path, new_file) ==
    LET hunk(s, header, body) ==
            IF /\ hunk_counts(header, new_file, s.floor)
               /\ body.ok
               /\ ~(body.next <= Len(lines) /\ is_stray_body(lines[body.next]))
            THEN [s EXCEPT !.edits = Append(@, [path |-> path, search |-> Join(body.old),
                                                replace |-> Join(body.new)]),
                           !.next = body.next,
                           !.floor = header.arg.old_start + header.arg.old_count]
            ELSE [s EXCEPT !.ok = FALSE]
        step(s, i) == IF s.ok /\ i = s.next /\ opens_hunk(lines, i)
                      THEN hunk(s, lines[i], hunk_body(lines, i + 1, lines[i].arg)) ELSE s
    IN  FoldLeft(step, [ok |-> TRUE, edits |-> <<>>, next |-> at, floor |-> 0],
                 [i \in 1 .. Len(lines) - at + 1 |-> at + i - 1])

\* The header lines of the section at `at`, up to its first hunk.  A carriage
\* return forgets the paths that were read.
headers(lines, at) ==
    LET opener == lines[at]
        git == opener.kind = "git"
        crlf(read) == [read EXCEPT !.old = None, !.new = None, !.renamed = FALSE, !.bad = TRUE,
                                   !.end = TRUE, !.next = @ + 1]
        step(read, line) ==
            CASE read.end -> read
              [] ~read.end /\ line.kind \in {"hunk", "mangled"} -> [read EXCEPT !.end = TRUE]
              [] ~read.end /\ line.kind = "old" /\ read.old = None ->
                    IF line.cr THEN crlf(read)
                    ELSE [read EXCEPT !.old = line.arg, !.next = @ + 1]
              [] ~read.end /\ line.kind = "new" /\ read.new = None ->
                    IF line.cr THEN crlf(read)
                    ELSE [read EXCEPT !.new = line.arg, !.next = @ + 1]
              [] ~read.end /\ line.kind = "binary" ->
                    [read EXCEPT !.binary = TRUE, !.end = TRUE, !.next = @ + 1]
              [] ~read.end /\ line.kind = "rename" -> [read EXCEPT !.renamed = TRUE, !.next = @ + 1]
              [] ~read.end /\ line.kind = "ignored" -> [read EXCEPT !.next = @ + 1]
              [] \/ ~read.end /\ line.kind \in {"bare", "git"}
                 \/ ~read.end /\ line.kind = "old" /\ read.old # None -> [read EXCEPT !.end = TRUE]
              [] OTHER -> [read EXCEPT !.bad = TRUE, !.end = TRUE, !.next = @ + 1]
        opening(next) ==
                   [named |-> IF git /\ ~opener.cr THEN opener.arg ELSE None,
                    old |-> None, new |-> None, renamed |-> FALSE, binary |-> FALSE,
                    bad |-> git /\ opener.cr, end |-> git /\ opener.cr,
                    next |-> next]
        from(next) == FoldLeft(step, opening(next), SubSeq(lines, next, Len(lines)))
    IN  from(IF git THEN at + 1 ELSE at)

\* A path of a section's two sides, None when they name none or disagree.
PathOf(old, new) ==
    CASE Quoted \in {old, new} \/ (old = DevNull /\ new = DevNull) -> None
      [] Quoted \notin {old, new} /\ old = DevNull /\ new # DevNull -> new
      [] Quoted \notin {old, new} /\ old # DevNull /\ new \in {old, DevNull} -> old
      [] OTHER -> None

\* One file's edits, whether something of it is refused, and its note.
file_section(lines, at) ==
    LET refused(resume) == [edits |-> <<>>, errors |-> 1, notes |-> 0, next |-> resume]
        note(resume) == [edits |-> <<>>, errors |-> 0, notes |-> 1, next |-> resume]
        edited(read, resume) ==
            IF ~read.ok \/ unread_content(lines, read.next, resume)
            THEN [refused(resume) EXCEPT !.edits = read.edits]
            ELSE [edits |-> read.edits, errors |-> 0, notes |-> 0, next |-> read.next]
        section(read, path, resume) ==
            IF read.bad THEN refused(resume)
            ELSE IF read.binary THEN note(resume)
            ELSE IF read.renamed THEN refused(resume)
            ELSE IF None \in {read.old, read.new}
            THEN IF read.old # read.new \/ opens_hunk(lines, read.next) \/ read.named = None
                 THEN refused(resume) ELSE note(resume)
            ELSE IF path = None \/ ~opens_hunk(lines, read.next) THEN refused(resume)
            ELSE edited(hunks(lines, read.next, path, read.old = DevNull), resume)
        below(read) == section(read, PathOf(read.old, read.new),
                               skip_to_next_section(lines, read.next, lines[at].kind = "git"))
    IN  below(headers(lines, at))

\* The edits of a diff in order, and how many refusals and notes it has.
parse_unified_diff(lines) ==
    LET refusal == [edits |-> <<>>, errors |-> 1, notes |-> 0, sections |-> 1]
        nothing == [edits |-> <<>>, errors |-> 0, notes |-> 0, sections |-> 0]
        join(section, rest) ==
            [edits |-> section.edits \o rest.edits, errors |-> section.errors + rest.errors,
             notes |-> section.notes + rest.notes, sections |-> rest.sections + 1]
        combined[at \in 1 .. Len(lines) + 1] ==
            at <= Len(lines) /\
               (lines[at].kind = "combined" \/
                IF opens_section(lines[at]) THEN combined[file_section(lines, at).next]
                ELSE combined[at + 1])
        parse[at \in 1 .. Len(lines) + 1] ==
            IF at > Len(lines) THEN nothing
            ELSE IF ~opens_section(lines[at]) THEN parse[at + 1]
            ELSE LET then(section) == join(section, parse[section.next])
                 IN  then(file_section(lines, at))
        read(parsed) == IF combined[1] \/ parsed.sections = 0 THEN refusal ELSE parsed
    IN  read(parse[1])

present(text, block) == whole_line_starts(pad(text), block) # {}

\* Whether the edit says that the text is not the base of its diff.
misoriented(edit, text) == edit.search = <<>> \/ ~present(text, edit.search)

\* The files of a diff that are refused because the tree is not its base.
orientation(edits, texts) ==
    {f \in DOMAIN texts : \E i \in DOMAIN edits : edits[i].path = f /\ misoriented(edits[i], texts[f])}

\* The text of one file after its edits (crates/app/src/lint/candidates/tree.rs):
\* a file that the change creates starts as its first edit's replace side.
candidate_pair(edits, path, old) ==
    IF old = None /\ edits # <<>> /\ edits[1].search = <<>>
    THEN apply_edits(Tail(edits), path :> edits[1].replace)
    ELSE apply_edits(edits, IF old = None THEN <<>> ELSE path :> old)
=============================================================================
