------------------------------- MODULE MCLint -------------------------------
(***************************************************************************)
(* The checks of lint over every small change: a task and an input are     *)
(* picked, one step computes the answer, and the invariants compare it     *)
(* with a definition that is stated another way; and the runs of lint      *)
(* --since among the steps of an editor and of git (LintRevision).         *)
(***************************************************************************)
EXTENDS UnitMatch, CloneDelta, Globs, FiniteSetsExt

CONSTANTS
    MAX_FLOOD_VISITED,                                          \* of ImportGraph
    MIN_CALLEES, SHARE_PARTS, SHARE_WHOLE, FAMILY_LIMIT, MAX_ROWS_PER_UNIT,
    Paths, Texts, MaxEdits, None                                \* of LintRevision

VARIABLES task, input, answer, done

VARIABLES language, commit, index, work, pc, changes, specs, rows, pairs, edits, lasting, filed,
          missed

D == INSTANCE CycleDodge
O == INSTANCE CalleeOverlap
R == INSTANCE LintRevision

tasks == <<task, input, answer, done>>
since == <<language, commit, index, work, pc, changes, specs, rows, pairs, edits, lasting, filed,
           missed>>

UpTo(S, n) == UNION {[1 .. k -> S] : k \in 0 .. n}

-----------------------------------------------------------------------------
\* Changes of one file with up to three units on a side, and of two files.  The
\* body of a unit is its complexity.
UnitKinds == [name : {"x", "y"}, cc : {2, 3}]
Units(kinds, file) ==
    [i \in DOMAIN kinds |-> [file |-> file, index |-> i, name |-> kinds[i].name,
                             body |-> kinds[i].cc, cc |-> kinds[i].cc]]
FileOf(old, new, file) == [old |-> Units(old, file), new |-> Units(new, file)]

UnitInput ==
    \E threshold \in {1, 2} :
       \/ \E s, t \in UpTo(UnitKinds, 3) :
             input = [files |-> <<FileOf(s, t, 1)>>, threshold |-> threshold]
       \/ \E s, t \in UpTo(UnitKinds, 2), u, v \in UpTo(UnitKinds, 1) :
             input = [files |-> <<FileOf(s, t, 1), FileOf(u, v, 2)>>, threshold |-> threshold]

\* The hits of a unit are those of its body: the more complex one holds two.
Captures(u) == IF u.body = 2 THEN <<"p">> ELSE <<"p", "q">>
HitsOf(units) ==
    FlattenSeq([i \in DOMAIN units |->
        [j \in DOMAIN Captures(units[i]) |->
            [unit |-> {units[i]}, file |-> units[i].file, capture |-> Captures(units[i])[j]]]])

Judge(files, threshold, matches) ==
    [matches |-> matches,
     rose |-> complexity_delta(matches, threshold), changed |-> changed(matches),
     drift |-> LET news == HitsOf(AllOf(files, "new"))
               IN  {<<i, news[i].capture>> :
                       i \in new_hits(HitsOf(AllOf(files, "old")), news, matches)}]

MatchUnits ==
    /\ task = "units" /\ ~done
    /\ answer' = Judge(input.files, input.threshold, match_run(input.files))
    /\ done' = TRUE
    /\ UNCHANGED <<task, input>>

Count(units, P(_)) == Cardinality({i \in DOMAIN units : P(units[i])})
\* A change that only moves, renames or reorders units.
Rearranged(olds, news) ==
    \A b \in {2, 3} : Count(olds, LAMBDA u : u.body = b) = Count(news, LAMBDA u : u.body = b)


-----------------------------------------------------------------------------
\* Changes of a file with up to two blocks on a side and of another with one; a
\* block of the unchanged file "0" is indexed.  The texts 1 and 2 have one shape.
BlockOf(side, path, i, text) ==
    [side |-> side, path |-> path, line |-> i, end |-> i, key |-> IF text = 3 THEN 2 ELSE 1,
     exact |-> text, tokens |-> IF text = 2 THEN 39 ELSE 40, function |-> FALSE]
BlocksOf(side, path, texts) == [i \in DOMAIN texts |-> BlockOf(side, path, i, texts[i])]
\* The lines that a diff keeps: a part of one side in the order of the other.
KeptLines(olds, news) ==
    {m \in UNION {[S -> DOMAIN news] : S \in SUBSET DOMAIN olds} :
        \A i, j \in DOMAIN m : i < j => m[i] < m[j]}
BlockInput ==
    \E s, t \in UpTo(1 .. 3, 2), u, v \in UpTo(1 .. 3, 1) : \E kept \in KeptLines(s, t) :
        input = [files |-> <<[old |-> BlocksOf("old", 2, s), new |-> BlocksOf("new", 2, t),
                              unchanged |-> kept],
                             [old |-> BlocksOf("old", 1, u), new |-> BlocksOf("new", 1, v),
                              unchanged |-> <<>>]>>,
                 indexed |-> {BlockOf("new", 0, 1, 3)}]

FindCopies ==
    /\ task = "blocks" /\ ~done
    /\ answer' = [added |-> added(input.files),
                  shown |-> clone_delta(input.files, input.indexed, {})]
    /\ done' = TRUE
    /\ UNCHANGED <<task, input>>

\* Nested and overlapping copies of one file, some of them functions that
\* near_duplicates reported.
FoldInputs ==
    [copies : UpTo({[path |-> 1, line |-> l, end |-> e, function |-> n] :
                       l \in 1 .. 3, e \in {2, 4}, n \in BOOLEAN}, 3),
     reported : SUBSET {<<1, 1>>, <<1, 2>>}]

FoldCopies ==
    /\ task = "fold" /\ ~done
    /\ answer' = outermost(input.copies, input.reported)
    /\ done' = TRUE
    /\ UNCHANGED <<task, input>>

\* Of each shape as many blocks are added as the new sides hold more than the
\* old ones, wherever they stand, and a block on lines that the diff left alone
\* is never the added one; a finding is an added block that is large enough and
\* not alone (added and reportable).
CopiesAreCounted ==
    LET news(k) == {b \in UNION {ToSet(input.files[i].new) : i \in {1, 2}} : b.key = k}
        olds(k) == {b \in UNION {ToSet(input.files[i].old) : i \in {1, 2}} : b.key = k}
        kept == {b \in ToSet(input.files[1].new) :
                    \E c \in ToSet(input.files[1].old) :
                        /\ c.line \in DOMAIN input.files[1].unchanged
                        /\ input.files[1].unchanged[c.line] = b.line /\ c.exact = b.exact}
        copied(b) == Cardinality(news(b.key) \cup {c \in input.indexed : c.key = b.key}) >= 2
    IN  /\ \A k \in {1, 2} :
              Cardinality({b \in ToSet(answer.added) : b.key = k}) =
              Max({0, Cardinality(news(k)) - Cardinality(olds(k))})
        /\ ToSet(answer.added) \cap kept = {}
        /\ ToSet(answer.shown) = {b \in ToSet(answer.added) : b.tokens >= 40 /\ copied(b)}

\* Every copy is inside one that is reported, here or by near_duplicates, and
\* none is reported inside another (outermost, which looks only at the last
\* copy that was not inside the one before it).
CopiesFold ==
    LET kept == ToSet(answer)
        elsewhere == {b \in ToSet(input.copies) : near_duplicate(b, input.reported)}
    IN  /\ \A b \in ToSet(input.copies) : \E c \in kept \cup elsewhere : within(b, c)
        /\ \A b, c \in kept : within(b, c) => place(b) = place(c)
        /\ \A b \in kept : \A c \in elsewhere : within(b, c) => place(b) = place(c)

\* The findings of clone_delta are the blocks that the change added.
OnlyNewCopiesAreReported ==
    done => CASE task = "blocks" -> CopiesAreCounted
              [] task = "fold" -> CopiesFold
              [] OTHER -> TRUE

-----------------------------------------------------------------------------
\* A pattern against a segment, and globs of up to three elements against paths.
Patterns == UpTo({"a", "b", Star}, 4) \ {GLOBSTAR}
GlobInput ==
    \/ \E p \in Patterns, t \in UpTo({"a", "b"}, 4) \ {<<>>} :
          input = [globs |-> {<<p>>}, path |-> <<t>>]
    \/ \E e \in UpTo({GLOBSTAR, <<"a">>, <<"a", Star>>, <<Star>>, <<>>}, 3),
          s \in UpTo({<<"a">>, <<"a", "b">>}, 4) \ {<<>>} : input = [globs |-> {e}, path |-> s]

MatchGlob ==
    /\ task = "glob" /\ ~done
    /\ answer' = in_boundary(input.path, input.globs)
    /\ done' = TRUE
    /\ UNCHANGED <<task, input>>

RECURSIVE SegmentBy(_, _)
SegmentBy(pattern, text) ==
    IF pattern = <<>> THEN text = <<>>
    ELSE IF Head(pattern) = Star
    THEN \E k \in 0 .. Len(text) : SegmentBy(Tail(pattern), SubSeq(text, k + 1, Len(text)))
    ELSE text # <<>> /\ Head(text) = Head(pattern) /\ SegmentBy(Tail(pattern), Tail(text))

RECURSIVE PathBy(_, _)
PathBy(glob, path) ==
    IF glob = <<>> THEN path = <<>>
    ELSE IF Head(glob) = GLOBSTAR
    THEN \E k \in 0 .. Len(path) :
            (Len(glob) = 1 => k > 0) /\ PathBy(Tail(glob), SubSeq(path, k + 1, Len(path)))
    ELSE path # <<>> /\ SegmentBy(Head(glob), Head(path)) /\ PathBy(Tail(glob), Tail(path))

\* A boundary glob matches what its stars allow, by trying every way in which
\* they can be read: a star takes any run of characters of one segment, two
\* stars any run of segments, at the end at least one (glob_matches and
\* segment_matches, which never go back on a choice).
GlobsMatchByTheirStars ==
    task = "glob" /\ done => (answer <=> \E glob \in input.globs : PathBy(glob, input.path))

-----------------------------------------------------------------------------
\* Changes of the imports of files 1 and 2, where the change may create file 3.
\* File 1 imports 2 as a module, or the name of 3 from 2, in a function or at
\* load; files 2 and 3 import others at load.
ImportKinds == [runs : {"call", "load"}, names : {{}, {"n"}}]
Statement(kind, i, submodule) ==
    [line |-> i, runs |-> kind.runs, function |-> "f", module |-> "m", names |-> kind.names,
     rows |-> <<[module |-> "m", target |-> 2]>>
              \o IF kind.names # {} /\ submodule
                 THEN <<[module |-> "m.n", target |-> 3]>> ELSE <<>>]
Loading(files) ==
    [broken |-> FALSE,
     imports |-> [i \in 1 .. Cardinality(files) |->
        [line |-> i, runs |-> "load", function |-> "", module |-> "m", names |-> {},
         rows |-> <<[module |-> "m", target |-> D!InPathOrder(files)[i]]>>]]]
Importing(kinds, submodule) ==
    [broken |-> FALSE, imports |-> [i \in DOMAIN kinds |-> Statement(kinds[i], i, submodule)]]

DodgeInput ==
    \E olds, news \in UpTo(ImportKinds, 2), three \in BOOLEAN, created \in BOOLEAN,
       back, back2 \in SUBSET {1, 3}, on \in SUBSET {1}, budget \in {0, 1, 2, 9},
       broken \in SUBSET {D!Before, D!After} :
       /\ created => three
       /\ ~three => 3 \notin back
       /\ (~three \/ created) => 3 \notin back2
       /\ ~three => on = {}
       /\ broken # {} => budget = 9 /\ Len(olds) = 1 /\ Len(news) = 1
       /\ input = [scanned |->
                     [f \in {1, 2} \cup IF three THEN {3} ELSE {} |->
                        CASE f = 1 -> [Importing(news, three) EXCEPT !.broken = D!After \in broken]
                          [] f = 2 -> Loading(back)
                          [] f = 3 -> Loading(on)],
                   olds |-> [f \in {1, 2} \cup IF created THEN {3} ELSE {} |->
                        CASE f = 1 -> <<[Importing(olds, three /\ ~created)
                                            EXCEPT !.broken = D!Before \in broken]>>
                          [] f = 2 -> <<Loading(back2)>>
                          [] f = 3 -> <<>>],
                   budget |-> budget]

FindDodges ==
    /\ task = "dodges" /\ ~done
    /\ answer' = D!cycle_dodge(input.scanned, input.olds, input.budget)
    /\ done' = TRUE
    /\ UNCHANGED <<task, input>>

\* The files that a file loads, directly or through others.
Loads(tree, file) ==
    LET loads == D!load_pairs(tree)
        grow(files, i) == files \cup {p[2] : p \in {q \in loads : q[1] \in files}}
    IN  FoldLeft(grow, {p[2] : p \in {q \in loads : q[1] = file}}, D!InPathOrder(DOMAIN tree))
Closes(tree, s) == \E t \in ToSet(s.targets) : s.path \in Loads(tree, t.target)

\* cycle_dodge reports exactly the statements that close a load-time cycle now
\* where no statement of the same identity did before, though it skips the
\* statements whose graph and targets did not change and asks for each chain
\* once; a file with a broken side has a row instead, and a search that the
\* budget stops reports nothing.
DodgesAreTheChanges ==
    LET before == D!before_files(input.scanned, input.olds)
        broken == {f \in {1} : input.scanned[1].broken \/ before[1].broken}
        olds == ToSet(D!local_imports(before))
        new(s) == /\ s.path \notin broken
                  /\ Closes(input.scanned, s)
                  /\ \A held \in olds : D!identity(held) = D!identity(s) => ~Closes(before, held)
    IN  /\ input.budget = 9 => ~answer.stopped
        /\ answer.stopped => answer.rows = <<>>
        /\ ~answer.stopped =>
              /\ answer.unread = broken
              /\ {r.statement : r \in ToSet(answer.rows)} =
                    {s \in ToSet(D!local_imports(input.scanned)) : new(s)}
              /\ Len(answer.rows) = Cardinality(ToSet(answer.rows))
              /\ \A r \in ToSet(answer.rows) :
                    /\ Head(r.chain).source \in {t.target : t \in ToSet(r.statement.targets)}
                    /\ Last(r.chain).target = r.statement.path
                    /\ \A i \in DOMAIN r.chain :
                          /\ <<r.chain[i].source, r.chain[i].target>> \in
                                D!load_pairs(input.scanned)
                          /\ i > 1 => r.chain[i - 1].target = r.chain[i].source


-----------------------------------------------------------------------------
\* Four functions that call up to three others, the first two on one line or
\* on two; functions of one line spell each other, as each spells every name
\* of its lines.  Up to three of them are checked.
CalleeSets == {s \in SUBSET {"p", "q", "r"} : Cardinality(s) # 1}
Functions(callees, spelled, oneLine) ==
    [f \in 1 .. 4 |->
        [name |-> f, path |-> 1, line |-> IF oneLine /\ f = 2 THEN 1 ELSE f, callees |-> callees[f],
         spelled |-> {g \in 1 .. 4 : \/ <<f, g>> \in spelled
                                     \/ oneLine /\ f \in {1, 2} /\ g \in {1, 2}}]]
OverlapInput ==
    \E callees \in [1 .. 4 -> CalleeSets], spelled \in {{}, {<<1, 2>>}, {<<3, 1>>}},
       oneLine \in BOOLEAN, checked \in SUBSET (1 .. 3), old \in {<<>>, <<{"p", "q"}>>} :
       input = [functions |-> Functions(callees, spelled, oneLine),
                checked |-> LET units == SelectSeq(<<1, 2, 3>>, LAMBDA f : f \in checked)
                            IN  [i \in DOMAIN units |->
                                    [function |-> units[i],
                                     old |-> IF units[i] = 1 THEN old ELSE <<>>]]]

FindOverlaps ==
    /\ task = "overlap" /\ ~done
    /\ answer' = O!callee_overlap(input.functions, input.checked)
    /\ done' = TRUE
    /\ UNCHANGED <<task, input>>

\* Each pair of functions that overlap is reported once: a unit that calls
\* what an existing function calls has a row for it, or that one has the row,
\* or the unit's rows are full of better ones; and every row is of a checked
\* unit that meets the rule, of a family below the limit, and did not meet it
\* before.
OverlapsAreReportedOnce ==
    LET fs == input.functions
        found == ToSet(answer)
        share(f, g) == Cardinality(fs[f].callees \cap fs[g].callees)
        most(n, g) == SHARE_WHOLE * n >= SHARE_PARTS * Cardinality(fs[g].callees)
        rule(f, g) == /\ f # g /\ Cardinality(fs[g].callees) >= MIN_CALLEES
                      /\ most(share(f, g), g)
                      /\ g \notin fs[f].spelled
        others(f, g) == {h \in 1 .. 4 \ {f} : rule(h, g)}
        due(u, g) == /\ rule(u.function, g) /\ Cardinality(others(u.function, g)) < FAMILY_LIMIT
                     /\ \A old \in ToSet(u.old) : ~most(Cardinality(fs[g].callees \cap old), g)
        units == ToSet(input.checked)
        told(f) == {h \in 1 .. 4 : <<f, h>> \in found \/ <<h, f>> \in found}
        better(f, g) == {h \in told(f) : share(f, h) >= share(f, g)}
    IN  /\ Len(answer) = Cardinality(found)
        /\ \A row \in found : /\ <<row[2], row[1]>> \notin found
                             /\ \E u \in units : u.function = row[1] /\ due(u, row[2])
        /\ \A u \in units : \A g \in 1 .. 4 :
              due(u, g) => \/ g \in told(u.function)
                           \/ Cardinality(better(u.function, g)) >= MAX_ROWS_PER_UNIT


\* The checks that read the tree after the change report what the change did,
\* once: an import that dodges a cycle which it did not close before, and a
\* function that now calls what another one calls (cycle_dodge and
\* callee_overlap, with their shortcuts and bounds).
TreeChecksTellTheChange ==
    done => CASE task = "dodges" -> DodgesAreTheChanges
              [] task = "overlap" -> OverlapsAreReportedOnce
              [] OTHER -> TRUE

-----------------------------------------------------------------------------
\* A commit, an index and a work tree of two files of one language or of two.
RevisionInit ==
    /\ R!Init
    /\ language \in {<<"py", "py">>, <<"py", "ts">>}
    /\ commit[1] \in {R!Absent, "t"} /\ commit[2] # "u"
    /\ work[1] \in {R!Absent, "t", "u"}


-----------------------------------------------------------------------------
\* A behaviour computes one answer, or is one run of lint --since.
NoRevision ==
    /\ language = <<None, None>> /\ commit = <<>> /\ index = {} /\ work = <<>>
    /\ pc = "none" /\ changes = <<>> /\ specs = {} /\ rows = {} /\ pairs = {}
    /\ edits = 0 /\ lasting = {} /\ filed = {} /\ missed = {}

Init ==
    /\ answer = <<>>
    /\ done = FALSE
    /\ \/ /\ NoRevision
          /\ \/ task = "units" /\ UnitInput
             \/ task = "blocks" /\ BlockInput
             \/ task = "fold" /\ input \in FoldInputs
             \/ task = "glob" /\ GlobInput
             \/ task = "dodges" /\ DodgeInput
             \/ task = "overlap" /\ OverlapInput
       \/ task = "since" /\ input = <<>> /\ RevisionInit

Answer(A) == A /\ UNCHANGED since
Since(A) == task = "since" /\ A /\ UNCHANGED tasks

Next ==
    \/ Answer(MatchUnits) \/ Answer(FindCopies) \/ Answer(FoldCopies) \/ Answer(MatchGlob)
    \/ Answer(FindDodges) \/ Answer(FindOverlaps)
    \/ Since(R!verify) \/ Since(R!list_changes) \/ Since(R!list_untracked) \/ Since(R!make_specs)
    \/ Since(R!read_pair) \/ Since(R!report)
    \/ Since(R!save) \/ Since(R!git_add) \/ Since(R!git_rm_cached)

Spec == Init /\ [][Next]_<<tasks, since>>
=============================================================================
