----------------------------- MODULE CycleDodge -----------------------------
(***************************************************************************)
(* cycle_dodge (crates/checks/src/dodges.rs, crates/app/src/dodges.rs):    *)
(* the imports in function bodies that would close an import cycle at      *)
(* module level, when the change made it so.  A tree is a function from    *)
(* its files to [broken, imports]; an import is [line, runs, function,     *)
(* module, names, rows], where rows are the files that its module and its  *)
(* submodules resolve to, [module, target].  The searches for a chain run  *)
(* on a budget, and each is made once.                                     *)
(***************************************************************************)
EXTENDS ImportGraph

\* The two trees of a change, by name.
Before == "before"
After == "after"

\* The rows of the imports of a file, with the line of the statement.
import_edges(tree) ==
    UNION {UNION {{[source |-> f, target |-> r.target, line |-> import.line] :
                      r \in ToSet(import.rows)} :
                     import \in ToSet(tree[f].imports)} : f \in DOMAIN tree}

\* The lines of a tree with an import that does not run at load.
late(tree) ==
    UNION {{<<f, import.line>> : import \in {i \in ToSet(tree[f].imports) : i.runs # "load"}} :
              f \in DOMAIN tree}

at_load(tree) ==
    LET lines == late(tree)
    IN  [e \in import_edges(tree) |-> <<e.source, e.line>> \notin lines]

load_pairs(tree) ==
    {<<e.source, e.target>> : e \in {edge \in import_edges(tree) : at_load(tree)[edge]}}

\* The edges of a shortest load-time chain; <<>> when there is none.
search(tree, from, to) == import_chain(DOMAIN tree, import_edges(tree), from, to, at_load(tree))

\* `from pkg import mod` imports the submodule; the package counts only when a
\* name has no submodule, or when there is no name.
targets(import) ==
    LET submodules == {i \in DOMAIN import.rows : import.rows[i].module # import.module}
        members == import.names = {} \/ Cardinality(submodules) < Cardinality(import.names)
    IN  SelectSeq(import.rows, LAMBDA r : members \/ r.module # import.module)

\* The statements that run in a function body, in the order of the files.
local_imports(tree) ==
    LET statement(f, import) ==
            [path |-> f, line |-> import.line, function |-> import.function,
             module |-> import.module, names |-> import.names, targets |-> targets(import)]
        of(f) == LET called == SelectSeq(tree[f].imports, LAMBDA i : i.runs = "call")
                 IN  [k \in DOMAIN called |-> statement(f, called[k])]
    IN  FoldLeft(LAMBDA found, f : found \o of(f), <<>>, InPathOrder(DOMAIN tree))

loaded_modules(tree) ==
    UNION {{<<f, import.module>> : import \in {i \in ToSet(tree[f].imports) : i.runs = "load"}} :
              f \in DOMAIN tree}

\* The tree before the change: the scanned tree, with each pair's old side in
\* place of the file; an old side that is missing leaves no file.
before_files(scanned, olds) ==
    [f \in (DOMAIN scanned \ DOMAIN olds) \cup {g \in DOMAIN olds : olds[g] # <<>>} |->
        IF f \in DOMAIN olds THEN Head(olds[f]) ELSE scanned[f]]

\* The changed files with a side that holds an error span.
unparsed(trees, pairs) ==
    {f \in pairs : \E t \in {Before, After} : f \in DOMAIN trees[t] /\ trees[t][f].broken}

-----------------------------------------------------------------------------
identity(s) == <<s.path, s.function, s.module, s.names>>

\* One search of a run `s`: [found, left, spent, hit].  A search made before
\* costs nothing; a new one when the budget is spent stops the run.
chain(s, trees, tree, target, path) ==
    LET key == <<tree, target, path>>
        hops == search(trees[tree], target, path)
    IN  IF key \in s.found THEN [s EXCEPT !.hit = hops]
        ELSE IF s.left = 0 THEN [s EXCEPT !.spent = TRUE]
        ELSE [s EXCEPT !.found = @ \cup {key}, !.left = @ - 1, !.hit = hops]

\* The first target that imports the statement's file back at load.
first_chain(s, trees, tree, statement) ==
    LET try(run, target) == IF run.spent \/ run.hit # <<>> THEN run
                            ELSE chain(run, trees, tree, target.target, statement.path)
    IN  FoldLeft(try, [s EXCEPT !.hit = <<>>], statement.targets)

same_targets(old, statement) == \A held \in ToSet(old) : held.targets = statement.targets

\* Whether a held statement closed a cycle in the tree before the change.
held_before(s, trees, old) ==
    LET try(run, held) == IF run.spent \/ run.hit # <<>> THEN run
                          ELSE first_chain(run, trees, Before, held)
    IN  FoldLeft(try, [s EXCEPT !.hit = <<>>], old)

via(old, statement, loaded) ==
    IF old # <<>> THEN "return_path"
    ELSE IF <<statement.path, statement.module>> \in loaded THEN "moved" ELSE "new"

\* Variant: the shortcut trusts the targets of the statement alone.
unchanged_targets(loads_changed, old, statement) == old # <<>> /\ same_targets(old, statement)
\* An old statement whose targets and whose load-time graph did not change.
unchanged(loads_changed, old, statement) ==
    old # <<>> /\ ~loads_changed /\ same_targets(old, statement)

dodge(s, trees, facts, old, statement) ==
    LET row(hops, held) ==
            IF held.spent \/ held.hit # <<>> THEN held
            ELSE [held EXCEPT !.rows = Append(@, [statement |-> statement, chain |-> hops,
                                                  via |-> via(old, statement, facts.loaded)])]
        closes(after) ==
            IF after.spent \/ after.hit = <<>> THEN after
            ELSE row(after.hit, held_before(after, trees, old))
    IN  IF s.spent \/ unchanged(facts.loads_changed, old, statement) THEN s
        ELSE closes(first_chain(s, trees, After, statement))

\* Every statement after the change, but those of files with a broken side.
dodges(trees, pairs, budget) ==
    LET facts == [loaded |-> loaded_modules(trees[Before]),
                  loads_changed |-> load_pairs(trees[After]) # load_pairs(trees[Before])]
        compared == SelectSeq(local_imports(trees[After]),
                              LAMBDA s : s.path \notin unparsed(trees, pairs))
        olds == local_imports(trees[Before])
        next(run, s) == dodge(run, trees, facts,
                              SelectSeq(olds, LAMBDA held : identity(held) = identity(s)), s)
        start == [found |-> {}, left |-> budget, spent |-> FALSE, hit |-> <<>>, rows |-> <<>>]
    IN  FoldLeft(next, start, compared)

\* The findings, and the files that have a row in place of a comparison; a run
\* that the budget stopped has neither, and says so.
cycle_dodge(scanned, olds, budget) ==
    LET trees == [t \in {Before, After} |->
                     IF t = After THEN scanned ELSE before_files(scanned, olds)]
        run == dodges(trees, DOMAIN olds, budget)
    IN  IF run.spent THEN [stopped |-> TRUE, rows |-> <<>>, unread |-> {}]
        ELSE [stopped |-> FALSE, rows |-> run.rows, unread |-> unparsed(trees, DOMAIN olds)]
=============================================================================
