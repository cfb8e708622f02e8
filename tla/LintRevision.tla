---------------------------- MODULE LintRevision ----------------------------
(***************************************************************************)
(* lint --since (crates/app/src/revision.rs, crates/git/src/changes.rs):   *)
(* the files changed since a commit, listed by two git calls, paired by    *)
(* path and read, while an editor and git go on changing the work tree and *)
(* the index.  Paths are numbers.  What a tree holds at a path is Absent,  *)
(* a text, "binary", "link" or "gitlink".                                  *)
(***************************************************************************)
EXTENDS Integers, Sequences, FiniteSets, SequencesExt

CONSTANTS
    Paths,          \* 1 .. n, in path order
    Texts,          \* the texts of a file
    MaxEdits,       \* the steps of the editor and of git add and git rm --cached
    None            \* no language, or no path

VARIABLES
    language,       \* [Paths -> language or None], as the names give it
    commit,         \* what the commit holds
    index,          \* the paths that git tracks
    work,           \* what the work tree holds
    pc,             \* the place of the run
    changes,        \* the changes listed so far
    specs,          \* the pairs to read
    rows,           \* the paths that coverage rows are about, None for the repository
    pairs,          \* the pairs read: [path, old_path, new_path, old, new]
    edits,          \* the steps of others so far
    lasting,        \* the paths whose change was there from the start on
    filed,          \* the paths with a file in the work tree from the start on
    missed          \* the paths added to the index between the two listings

vars == <<language, commit, index, work, pc, changes, specs, rows, pairs, edits, lasting, filed,
          missed>>
run == <<pc, changes, specs, rows, pairs>>
others == <<language, commit, index, work, edits, lasting, filed, missed>>

Absent == "absent"
IsFile(held) == held \in Texts \cup {"binary"}
SideOf(held) == IF IsFile(held) THEN "file" ELSE held

-----------------------------------------------------------------------------
\* What git diff --raw -M lists: each path that the commit or the index has and
\* that differs, a path outside the index counting as deleted; some deleted
\* files pair with created ones as renames.
Tracked(p) == IF p \in index THEN work[p] ELSE Absent
Differs == {p \in Paths : (commit[p] # Absent \/ p \in index) /\ Tracked(p) # commit[p]}
Deleted == {p \in Differs : IsFile(commit[p]) /\ Tracked(p) = Absent}
Created == {p \in Differs : commit[p] = Absent /\ IsFile(Tracked(p))}
Renames ==
    {m \in UNION {[S -> Deleted] : S \in SUBSET Created} :
        \A p, q \in DOMAIN m : m[p] = m[q] => p = q}

Change(status, path, old_path, old, new) ==
    [status |-> status, path |-> path, old_path |-> old_path, old |-> old, new |-> new]
Record(p, renames) ==
    IF p \in DOMAIN renames THEN Change("R", p, renames[p], "file", "file")
    ELSE Change("M", p, p, SideOf(commit[p]), SideOf(Tracked(p)))

InOrder(paths) == SelectSeq([p \in 1 .. Cardinality(Paths) |-> p], LAMBDA p : p \in paths)
parse_changes(renames) ==
    LET listed == InOrder(Differs \ {renames[p] : p \in DOMAIN renames})
    IN  [i \in DOMAIN listed |-> Record(listed[i], renames)]

\* git ls-files --others: a nested repository is listed by its directory.
Untracked == {p \in Paths \ index : work[p] # Absent}
untracked(p) == Change("?", p, p, Absent, IF work[p] = "gitlink" THEN "gitlink" ELSE "file")

-----------------------------------------------------------------------------
uncompared(change) == change.old = "gitlink" \/ change.new = "gitlink"

side_language(side, path) == IF side = "file" THEN language[path] ELSE None

Spec1(path, old_path, new_path) == [path |-> path, old_path |-> old_path, new_path |-> new_path]

\* One spec, or a deletion and an addition where the language changes.
change_specs(c) ==
    LET old == side_language(c.old, c.old_path)
        new == side_language(c.new, c.path)
    IN  IF old # None /\ old = new THEN <<Spec1(c.path, c.old_path, c.path)>>
        ELSE (IF old = None THEN <<>> ELSE <<Spec1(c.old_path, c.old_path, None)>>)
             \o (IF new = None THEN <<>> ELSE <<Spec1(c.path, None, c.path)>>)

joined(held, spec) ==
    Spec1(spec.path, IF held.old_path # None THEN held.old_path ELSE spec.old_path,
                     IF held.new_path # None THEN held.new_path ELSE spec.new_path)

insert_spec(found, spec) ==
    LET held == {s \in found : s.path = spec.path}
    IN  (found \ held) \cup IF held = {} THEN {spec} ELSE {joined(s, spec) : s \in held}

pair_specs(listed) ==
    FoldLeft(insert_spec, {},
             FlattenSeq([i \in DOMAIN listed |->
                            IF uncompared(listed[i]) THEN <<>> ELSE change_specs(listed[i])]))

-----------------------------------------------------------------------------
Init ==
    /\ language \in [Paths -> {"py", "ts", None}]
    /\ commit \in [Paths -> Texts \cup {Absent, "link", "gitlink"}]
    /\ work \in [Paths -> Texts \cup {Absent, "link", "gitlink", "binary"}]
    /\ index \in SUBSET Paths
    /\ pc = "verify"
    /\ changes = <<>> /\ specs = {} /\ rows = {} /\ pairs = {}
    /\ edits = 0 /\ missed = {}
    /\ lasting = {p \in Paths : work[p] # commit[p]}
    /\ filed = {p \in Paths : IsFile(work[p])}

\* A git call that printed nothing to use gives one row, and no pair.
Alone ==
    /\ pc' = "done"
    /\ rows' = {None}
    /\ UNCHANGED <<changes, specs, pairs>>

\* A revision that names no commit fails the run.
verify ==
    /\ pc = "verify"
    /\ \/ pc' = "diff" /\ UNCHANGED <<changes, specs, rows, pairs>>
       \/ pc' = "error" /\ UNCHANGED <<changes, specs, rows, pairs>>
       \/ Alone
    /\ UNCHANGED others

list_changes ==
    /\ pc = "diff"
    /\ \/ /\ \E renames \in Renames : changes' = parse_changes(renames)
          /\ pc' = "untracked"
          /\ UNCHANGED <<specs, rows, pairs>>
       \/ Alone
    /\ UNCHANGED others

\* Records that do not parse fail the run, after both listings.
list_untracked ==
    /\ pc = "untracked"
    /\ \/ /\ LET listed == InOrder(Untracked)
             IN  changes' = changes \o [i \in DOMAIN listed |-> untracked(listed[i])]
          /\ pc' = "specs"
          /\ UNCHANGED <<specs, rows, pairs>>
       \/ pc' = "error" /\ UNCHANGED <<changes, specs, rows, pairs>>
       \/ Alone
    /\ UNCHANGED others

\* An untracked link is found by its own look at the path (linked); the rows of
\* the changes that no pair compares, and the specs of the rest.
make_specs ==
    LET linked(c) == IF c.status = "?" /\ c.new = "file" /\ work[c.path] = "link"
                     THEN [c EXCEPT !.new = "link"] ELSE c
        found == [i \in DOMAIN changes |-> linked(changes[i])]
    IN  /\ pc = "specs"
        /\ IF changes = <<>> THEN Alone
           ELSE /\ specs' = pair_specs(found)
                /\ rows' = {c.path : c \in {d \in ToSet(found) : uncompared(d)}}
                /\ pc' = "read"
                /\ UNCHANGED <<changes, pairs>>
        /\ UNCHANGED others

\* One pair: the old side is a blob of the commit, the new one a bounded read
\* of the path as it resolves now.  A link that leads outside the repository, a
\* side that does not read and one that is binary give a row.
read_pair ==
    /\ pc = "read" /\ specs # {}
    /\ \E spec \in specs, blob, inside \in BOOLEAN :
          LET old == IF spec.old_path = None THEN Absent ELSE commit[spec.old_path]
              new == IF spec.new_path = None THEN Absent ELSE work[spec.new_path]
              unread == \/ spec.old_path # None /\ ~blob
                        \/ spec.new_path # None /\ ~(IsFile(new) \/ (new = "link" /\ inside))
              pair == [path |-> spec.path, old_path |-> spec.old_path,
                       new_path |-> spec.new_path, old |-> old, new |-> new]
          IN  /\ specs' = specs \ {spec}
              /\ IF unread \/ "binary" \in {old, new}
                 THEN rows' = rows \cup {spec.path} /\ UNCHANGED pairs
                 ELSE pairs' = pairs \cup {pair} /\ UNCHANGED rows
    /\ UNCHANGED <<pc, changes>>
    /\ UNCHANGED others

report ==
    /\ pc = "read" /\ specs = {}
    /\ pc' = "done"
    /\ UNCHANGED <<changes, specs, rows, pairs>>
    /\ UNCHANGED others

-----------------------------------------------------------------------------
\* Others at work: a save, a removal or a link at a path, git add and git rm
\* --cached.
Touched(held) ==
    /\ edits < MaxEdits /\ pc \notin {"done", "error"}
    /\ edits' = edits + 1
    /\ work' = held
    /\ lasting' = {p \in lasting : held[p] # commit[p]}
    /\ filed' = {p \in filed : IsFile(held[p])}

save ==
    /\ \E p \in Paths, held \in Texts \cup {Absent, "link"} :
          held # work[p] /\ Touched([work EXCEPT ![p] = held])
    /\ UNCHANGED <<run, language, commit, index, missed>>

git_add ==
    /\ \E p \in Paths \ index :
          /\ work[p] # Absent
          /\ index' = index \cup {p}
          /\ missed' = IF pc = "untracked" THEN missed \cup {p} ELSE missed
    /\ Touched(work)
    /\ UNCHANGED <<run, language, commit>>

git_rm_cached ==
    /\ \E p \in index : index' = index \ {p}
    /\ Touched(work)
    /\ UNCHANGED <<run, language, commit, missed>>

Next ==
    \/ verify \/ list_changes \/ list_untracked \/ make_specs \/ read_pair \/ report
    \/ save \/ git_add \/ git_rm_cached

Spec == Init /\ [][Next]_vars
=============================================================================
