--------------------------- MODULE MCAlgorithms ---------------------------
(***************************************************************************)
(* The pure algorithms of the eviction plan, the patch crate and the graph *)
(* crate (MCGraph), each over every small input: Init picks a task and an  *)
(* input, one step computes the answer, and the invariants compare it with *)
(* a definition that is stated another way.                                *)
(***************************************************************************)
EXTENDS MCGraph, EvictPlan, UnifiedDiff, Blocks, Vote, DecimalNatural

CONSTANTS
    a, dash,            \* characters: a letter, and the text of a removed or
                        \* added line that reads like a header
    f, g,               \* two paths, and the keys of two changes
    Sizes, Times, Now,  \* the databases of an eviction plan
    MaxText,            \* the longest text that an edit is applied to
    MaxScript,          \* the lines of a well-formed diff
    MaxDamage,          \* the free lines of a damaged one
    MaxBlocks,          \* the blocks of a text
    Voters,             \* the candidates of a vote
    MaxNumber           \* the largest number

SeqUpTo(S, n) == UNION {[1 .. k -> S] : k \in 0 .. n}

-----------------------------------------------------------------------------
\* Eviction: three databases, named by their place in the listing; the run's
\* own is one of them, or is not listed.
EvictInputs ==
    {[entries |-> [i \in 1 .. 3 |-> [database |-> i, size |-> size[i], used_at |-> used[i]]],
      limit |-> limit, keep |-> keep] :
        size \in [1 .. 3 -> Sizes], used \in [1 .. 3 -> Times],
        limit \in 1 .. MaxSize, keep \in 1 .. 4}

Plan ==
    /\ task = "evict" /\ ~done
    /\ answer' = evict_plan(input.entries, input.limit, input.keep, Now)
    /\ done' = TRUE
    /\ UNCHANGED <<task, input>>

Sorted == ordered(input.entries)
Protected == {p \in DOMAIN Sorted : protected(Sorted, p, input.keep, Now)}
Weight(positions) == FoldSet(LAMBDA p, total : Sorted[p].size + total, 0, positions)
Saturated(weight) == IF weight > MaxSize THEN MaxSize ELSE weight
Planned == {p \in DOMAIN Sorted : Sorted[p] \in Range(answer)}

-----------------------------------------------------------------------------
\* Applying edits: the elision mark fills a line of its own.
Texts(n) ==
    {t \in SeqUpTo({a, NL, Space, Dots}, n) :
        \A i \in DOMAIN t : t[i] = Dots => /\ i = 1 \/ t[i - 1] = NL
                                           /\ i = Len(t) \/ t[i + 1] = NL}

Edits == [path : {f}, search : Texts(3), replace : {<<>>, <<a>>, <<Space>>, <<a, NL>>, <<Dots, NL, a>>}]
Follower == [path |-> f, search |-> <<a>>, replace |-> <<Space, NL, a>>]

ApplyInputs ==
    [content : Texts(MaxText), edits : {<<e>> : e \in Edits} \cup {<<e, Follower>> : e \in Edits}]

Apply ==
    /\ task = "apply" /\ ~done
    /\ answer' = apply_edits(input.edits, f :> input.content)
    /\ done' = TRUE
    /\ UNCHANGED <<task, input>>

\* What an edit means, line by line.
Occurrences(lines, block) ==
    {k \in 1 .. Len(lines) - Len(block) + 1 : SubSeq(lines, k, k + Len(block) - 1) = block}

Unindented(lines) == {k \in DOMAIN lines : lines[k] # <<>> /\ lines[k][1] # Space
                                           /\ Cardinality(Occurrences(lines, <<lines[k]>>)) = 1}

Dropped(lines) == IF lines[1] = ELISION /\ Len(lines) > 1 /\ lines # <<ELISION, <<>>>>
                  THEN Tail(lines) ELSE lines

ByLines(edit, lines) ==
    LET replace == Dropped(Lines(edit.replace))
        search == IF edit.search = ELISION THEN <<lines[Min(Unindented(lines))]>>
                  ELSE Dropped(Lines(edit.search))
        tail == IF edit.search = ELISION THEN <<(<<>>)>> \o search ELSE <<>>
        at == Min(Occurrences(lines, search))
        bare == edit.search = ELISION
        starts == replace[1] # <<>> /\ replace[1][1] # Space
    IN  CASE edit.search = <<>> \/ (bare /\ (~starts \/ Unindented(lines) = {})) ->
                [status |-> "no_anchor", lines |-> lines]
          [] OTHER ->
                IF Occurrences(lines, search) = {} THEN [status |-> "not_found", lines |-> lines]
                ELSE IF Cardinality(Occurrences(lines, search)) > 1
                THEN [status |-> "ambiguous", lines |-> lines]
                ELSE [status |-> "applied",
                      lines |-> SubSeq(lines, 1, at - 1) \o replace \o tail
                                  \o SubSeq(lines, at + Len(search), Len(lines))]

\* Every edit replaces exactly the lines that it names when the file, as the
\* edits before it left it, holds them once, and changes nothing otherwise
\* (placed and whole_line_starts, which search for a padded substring).
ReplacesWholeLines ==
    LET step(sofar, edit) ==
            LET one == ByLines(edit, sofar.lines)
            IN  [statuses |-> Append(sofar.statuses, one.status), lines |-> one.lines]
        expected == FoldLeft(step, [statuses |-> <<>>, lines |-> Lines(input.content)],
                             input.edits)
    IN  /\ answer.statuses = expected.statuses
        /\ answer.contents[f] = Join(expected.lines)

\* The plan is what the comment of evict_plan promises: walking from the most
\* recent, the first unprotected entry that does not fit in the ceiling with
\* everything before it is planned, and so is every colder unprotected one,
\* and nothing else.  The deletes run coldest first, so a sweep that stops
\* early has taken the databases that were used the longest ago.
PlansTheColdTail ==
    task = "evict" /\ done =>
        LET unfit == {p \in DOMAIN Sorted \ Protected : Saturated(Weight(1 .. p)) > input.limit}
        IN  /\ Planned = {p \in DOMAIN Sorted \ Protected : \E q \in unfit : q <= p}
            /\ \A i, j \in DOMAIN answer : i < j => answer[i].used_at <= answer[j].used_at

-----------------------------------------------------------------------------
\* Diffs of one file that a correct tool writes, linted against their base
\* and against the tree that already holds the change.  A script is the file's lines
\* with their markers; cut is where the second hunk starts, 0 for one hunk.
\* A removed or added line of the dash text reads like a file header.
Contents == {<<a>>, <<>>, <<dash>>}
Scripts == UNION {[1 .. n -> [marker : {" ", "-", "+"}, content : Contents]] : n \in 1 .. MaxScript}

Header(kind, arg) == [kind |-> kind, marker |-> "h", content |-> <<>>, arg |-> arg, cr |-> FALSE]
Body(line) ==
    [kind |-> CASE line.content = <<dash>> /\ line.marker = "-" -> "old"
                [] line.content = <<dash>> /\ line.marker = "+" -> "new"
                [] OTHER -> "plain",
     marker |-> line.marker, content |-> line.content, arg |-> g, cr |-> FALSE]

Side(script, markers) ==
    LET kept == SelectSeq(script, LAMBDA l : l.marker \in markers)
    IN  [i \in DOMAIN kept |-> kept[i].content]
Before(script) == Side(script, {" ", "-"})
After(script) == Side(script, {" ", "+"})

Hunk(script, from, to) ==
    LET body == SubSeq(script, from, to)
        above == Len(Before(SubSeq(script, 1, from - 1)))
    IN  <<Header("hunk", [old_start |-> above + 1, old_count |-> Len(Before(body)),
                          new_count |-> Len(After(body))])>> \o [i \in DOMAIN body |-> Body(body[i])]

Parts(script, cut) ==
    IF cut = 0 THEN <<<<1, Len(script)>>>> ELSE <<<<1, cut - 1>>, <<cut, Len(script)>>>>

Changes(script, part) == \E i \in part[1] .. part[2] : script[i].marker # " "

Diff(script, cut) ==
    LET parts == Parts(script, cut)
    IN  <<Header("git", f), Header("old", IF Before(script) = <<>> THEN DevNull ELSE f),
          Header("new", f)>>
        \o FoldLeft(LAMBDA text, part : text \o Hunk(script, part[1], part[2]), <<>>, parts)

\* Each hunk holds a change.
DiffInputs ==
    {i \in [script : Scripts, cut : 0 .. MaxScript] :
        /\ i.cut = 0 \/ i.cut \in 2 .. Len(i.script)
        /\ \A k \in DOMAIN Parts(i.script, i.cut) : Changes(i.script, Parts(i.script, i.cut)[k])}

TextOf(lines) == Join(lines) \o <<NL>>

ReadDiff ==
    /\ task = "diff" /\ ~done
    /\ LET tree(lines) == IF lines = <<>> THEN None ELSE TextOf(lines)
           lint(edits, text) == [refused |-> text # None /\ orientation(edits, f :> text) # {},
                                 pair |-> candidate_pair(edits, f, text)]
           linted(parsed) == [parsed |-> parsed,
                              base |-> lint(parsed.edits, tree(Before(input.script))),
                              applied |-> lint(parsed.edits, tree(After(input.script)))]
       IN  answer' = linted(parse_unified_diff(Diff(input.script, input.cut)))
    /\ done' = TRUE
    /\ UNCHANGED <<task, input>>

\* A diff that a correct tool wrote, linted against its base, reads whole
\* unless a hunk has no pre-image in an existing file, and is refused or
\* compares the base with the text that the diff makes of it (hunk_body by
\* counts, orientation, candidate_pair): never with another text.  Outside are
\* a hunk that leaves no line, in whose place the edit leaves an empty one,
\* the final line break of a created file, which the text does not have, and
\* (by Contents) lines of only three dots, which apply_edits takes for elisions.
MakesItsPostImage ==
    LET parts == Parts(input.script, input.cut)
        hunk(k) == SubSeq(input.script, parts[k][1], parts[k][2])
        creates == Before(input.script) = <<>>
        anchored == \A k \in DOMAIN parts : Before(hunk(k)) # <<>>
        leaves == \A k \in DOMAIN parts : After(hunk(k)) # <<>>
        made == Join(After(input.script)) \o IF creates THEN <<>> ELSE <<NL>>
    IN  /\ anchored \/ (creates /\ input.cut = 0) => answer.parsed.errors = 0
        /\ answer.parsed.errors = 0 => Len(answer.parsed.edits) = Len(parts)
        /\ leaves /\ answer.parsed.errors = 0 /\ ~answer.base.refused /\ ok(answer.base.pair) =>
              answer.base.pair.contents[f] = made

\* A tree that already holds the change of a diff that lints against its base
\* is not taken for that base: the file is reported as not checked, by
\* orientation or because its edits do not apply (the promise of the
\* repository's README on `lint --diff`).
AppliedDiffIsReported ==
    /\ task = "diff" /\ done /\ answer.parsed.errors = 0
    /\ ~answer.base.refused /\ ok(answer.base.pair)
    /\ After(input.script) \notin {<<>>, Before(input.script)}
    => answer.applied.refused \/ ~ok(answer.applied.pair)

-----------------------------------------------------------------------------
\* Damaged diffs: the headers of a file, then any lines.
Free ==
    {Header("hunk", [old_start |-> s, old_count |-> 1, new_count |-> n]) : s \in {1, 2}, n \in {0, 1}}
      \cup {Header(kind, f) : kind \in {"old", "new", "git", "binary", "rename", "ignored"}}
      \cup {Header("mangled", None), Header("plain", None), Header("nonl", None)}
      \cup {[Header("bare", None) EXCEPT !.marker = " "], [Header("trailer", None) EXCEPT !.marker = "-"]}
      \cup {Body([marker |-> m, content |-> <<a>>]) : m \in {" ", "-", "+"}}

Openings == {<<Header("old", f), Header("new", f)>>, <<Header("git", f), Header("old", f), Header("new", f)>>}

DamagedInputs ==
    {o \o <<Header("hunk", [old_start |-> 1, old_count |-> 1, new_count |-> 1])>> \o rest :
        o \in Openings, rest \in [1 .. MaxDamage -> Free]}

ReadDamaged ==
    /\ task = "damaged" /\ ~done
    /\ answer' = parse_unified_diff(input)
    /\ done' = TRUE
    /\ UNCHANGED <<task, input>>

\* No hunk is dropped without a word: a diff that is read with no refusal and
\* no note has one edit per hunk header (hunks, unread_content and
\* skip_to_next_section agree on where a section ends).
NoHunkUnread ==
    (answer.errors = 0 /\ answer.notes = 0 =>
        Len(answer.edits) = Cardinality({i \in DOMAIN input : input[i].kind = "hunk"}))

-----------------------------------------------------------------------------
\* Texts of blocks: each has header lines and a body, and the last may lack
\* its closing marker.
Token(kind) == [kind |-> kind, path |-> NoPath, cr |-> FALSE, trail |-> FALSE]
Named(path) == [Token("path") EXCEPT !.path = path]

Heads == {<<>>, <<Token("prose")>>, <<Named(f)>>, <<Named(g)>>, <<Named(f), Token("odd")>>,
          <<Token("odd"), Named(g)>>}
Bodies ==
    {<<Token("open"), Named(g), Token("divide")>>,
     <<Token("open"), Token("dots"), Token("divide"), Token("dots")>>,
     <<Token("open"), Token("divide"), Token("divide")>>,
     <<Token("open"), Named(g), Token("open"), Token("divide")>>,
     <<[Token("open") EXCEPT !.cr = TRUE], Token("divide")>>,
     <<Token("prose")>>}

BlockTexts == {head \o body : head \in Heads, body \in Bodies}

BlockInputs ==
    {FoldLeft(LAMBDA text, block : text \o block \o <<Token("close")>>, <<>>, closed) \o tail :
        closed \in SeqUpTo(BlockTexts, MaxBlocks - 1),
        tail \in {<<>>} \cup BlockTexts \cup {b \o <<Token("close")>> : b \in BlockTexts}}

ReadBlocks ==
    /\ task = "blocks" /\ ~done
    /\ answer' = parse_blocks(input)
    /\ done' = TRUE
    /\ UNCHANGED <<task, input>>

Closes == At(input, "close", 1, Len(input))
InHeader(i) == \A o \in At(input, "open", 1, i) : \E c \in Closes : o < c /\ c < i

\* Every block of the text is an edit or a refusal, the cut-off one at the end
\* included (parse_blocks and unterminated); and in a text that reads whole,
\* every edit goes to the file of the nearest path line above it that is not
\* inside a block, with no line in between that could name another
\* (filename_in, and the path that read_block hands on).
GoToTheFileAbove ==
    LET last == IF Closes = {} THEN 0 ELSE Max(Closes)
        open == At(input, "open", last + 1, Len(input)) # {}
        blocks == Cardinality(Closes) + IF open THEN 1 ELSE 0
        above(n) == {i \in 1 .. answer.edits[n].search.first - 2 :
                        InHeader(i) /\ input[i].kind \in {"path", "odd"}}
    IN  /\ Len(answer.edits) + answer.errors = IF blocks = 0 THEN 1 ELSE blocks
        /\ answer.errors = 0 =>
              \A n \in DOMAIN answer.edits :
                  above(n) # {} /\ input[Max(above(n))].path = answer.edits[n].path

-----------------------------------------------------------------------------
\* Votes: what validation can have recorded of a candidate.
Verdicts ==
    {[applied |-> FALSE, key |-> NoKey, regression |-> "not_measured", reproduced |-> FALSE],
     [applied |-> TRUE, key |-> NoKey, regression |-> "passed", reproduced |-> FALSE]}
    \cup [applied : {TRUE}, key : {f, g}, regression : Regressions, reproduced : {FALSE}]
    \cup [applied : {TRUE}, key : {f, g}, regression : {"passed"}, reproduced : {TRUE}]

VoteInputs ==
    [verdicts : [1 .. Voters -> Verdicts], valid : BOOLEAN, reversed : BOOLEAN]

\* The candidates in the order of the report.
Ballot(in) ==
    LET of(i) == [id |-> i, index |-> i, applied |-> in.verdicts[i].applied,
                  key |-> in.verdicts[i].key, regression |-> in.verdicts[i].regression,
                  reproduced |-> in.verdicts[i].reproduced]
    IN  [n \in 1 .. Voters |-> of(IF in.reversed THEN Voters - n + 1 ELSE n)]

RankVotes ==
    /\ task = "vote" /\ ~done
    /\ answer' = rank(Ballot(input), input.valid)
    /\ done' = TRUE
    /\ UNCHANGED <<task, input>>

\* The vote follows the evidence: the winner has the strongest evidence of all
\* candidates that may vote, its change is the one that most of those with
\* this evidence made, the earliest on a tie, and it is the first that made it
\* (ladder, clusters and cluster).
WinnerHasTheEvidence ==
    task = "vote" /\ done =>
        LET v == input.verdicts
            may == {i \in 1 .. Voters : v[i].applied /\ v[i].key # NoKey
                                        /\ v[i].regression # "not_measured"}
            grade(i) == CASE v[i].regression = "failed" -> 1
                          [] v[i].regression = "passed" /\ ~(v[i].reproduced /\ input.valid) -> 2
                          [] v[i].regression = "passed" /\ v[i].reproduced /\ input.valid -> 3
            best == {i \in may : \A j \in may : grade(j) <= grade(i)}
            alike(i) == {j \in best : v[j].key = v[i].key}
            top == {i \in best : \A j \in best : Cardinality(alike(j)) <= Cardinality(alike(i))}
        IN  winner(answer) = IF may = {} THEN NoKey ELSE Min(top)

-----------------------------------------------------------------------------
NumberInputs == [left : 0 .. MaxNumber, right : 0 .. MaxNumber]

Compute ==
    /\ task = "number" /\ ~done
    /\ LET left == from_usize(input.left)
           right == from_usize(input.right)
       IN  answer' = [sum |-> plus(left, right), less |-> less(left, right),
                      difference |-> IF input.right <= input.left
                                     THEN minus(left, input.right) ELSE <<>>,
                      size |-> to_usize(left)]
    /\ done' = TRUE
    /\ UNCHANGED <<task, input>>

\* The digits compute with the numbers that they spell: sums and differences,
\* the order by length and digits, and the size test at the largest usize.
DigitsAreExact ==
    /\ answer.sum = from_usize(input.left + input.right)
    /\ answer.less = (input.left < input.right)
    /\ input.right <= input.left => answer.difference = from_usize(input.left - input.right)
    /\ answer.size = IF input.left > UsizeMax THEN TooLarge ELSE input.left

-----------------------------------------------------------------------------
\* A diff is read whole and as its writer meant it: one that a correct tool
\* wrote makes its post-image of its base, or is refused; no hunk of a damaged
\* one is dropped without a word; and the numbers of the hunk headers, which
\* have any length, compute exactly (parse_unified_diff and Natural).
DiffsAreReadWhole ==
    done => CASE task = "diff" -> MakesItsPostImage
              [] task = "damaged" -> NoHunkUnread
              [] task = "number" -> DigitsAreExact
              [] OTHER -> TRUE

\* An edit changes what it names and nothing else: every block of a text is an
\* edit of the file named above it, or a refusal, and an edit replaces exactly
\* the whole lines that it names, where the file holds them once (parse_blocks
\* and apply_edits).
EditsChangeWhatTheyName ==
    done => CASE task = "blocks" -> GoToTheFileAbove
              [] task = "apply" -> ReplacesWholeLines
              [] OTHER -> TRUE

-----------------------------------------------------------------------------
Init ==
    /\ answer = None
    /\ done = FALSE
    /\ \/ task = "evict" /\ input \in EvictInputs
       \/ task = "apply" /\ input \in ApplyInputs
       \/ task = "diff" /\ input \in DiffInputs
       \/ task = "damaged" /\ input \in DamagedInputs
       \/ task = "blocks" /\ input \in BlockInputs
       \/ task = "vote" /\ input \in VoteInputs
       \/ task = "number" /\ input \in NumberInputs
       \/ GraphInit

Next == GraphNext \/ Plan \/ Apply \/ ReadDiff \/ ReadDamaged \/ ReadBlocks \/ RankVotes \/ Compute

Spec == Init /\ [][Next]_vars
=============================================================================
