----------------------------- MODULE Resolver -----------------------------
(***************************************************************************)
(* How a name spelled in a file becomes an evidence tier and a set of      *)
(* definitions (crates/graph/src/resolver.rs), over the scopes that the    *)
(* file's import statements bind (scopes.rs).                              *)
(*                                                                         *)
(* A repository r has the language of each path, the definitions           *)
(* ([name, path, top], top for a definition with no parent) and each       *)
(* path's import statements in order.  A statement is given after the      *)
(* resolution of its module string (imports.rs, rust_paths.rs): target is  *)
(* the file that it names and submodule the file that its member names, 0  *)
(* for none; kind is "star", "member" or "object".                         *)
(***************************************************************************)
EXTENDS Integers, Sequences, FiniteSets, SequencesExt

CONSTANTS
    Names,              \* the spelled names
    Private,            \* those that start with an underscore
    MAX_IMPORT_HOPS     \* the hops that one alias chain may follow

\* The languages that share names.
family(language) ==
    CASE language \in {"tsx", "typescript"} -> "javascript"
      [] language = "cpp" -> "c"
      [] language \in {"kotlin", "scala"} -> "java"
      [] OTHER -> language

-----------------------------------------------------------------------------
\* What one statement of a file that is not Rust binds.  A file that imports
\* itself binds nothing; a member that names a module binds the module object.
bind_statement(scope, path, s) ==
    LET bound == {s.target} \ {0, path}
        submodule == {s.submodule} \ {0, path}
    IN  CASE s.kind = "star" -> [scope EXCEPT !.wholesale = @ \cup bound]
          [] s.kind = "object" -> [scope EXCEPT !.module_bindings[s.local] = @ \cup bound]
          [] s.kind = "member" /\ submodule # {} ->
                [scope EXCEPT !.named[s.local] = @ \cup submodule,
                              !.module_bindings[s.local] = @ \cup submodule]
          [] s.kind = "member" /\ submodule = {} ->
                [scope EXCEPT !.named[s.local] = @ \cup bound,
                              !.members[s.local] = @ \cup (bound \X {s.member})]

\* What a `use` binds: a glob a whole module, a path of modules the module, and
\* another path its last segment's item.  A file may name itself.
bind_rust_statement(scope, s) ==
    LET module == {s.submodule} \ {0}
        bound == {s.target} \ {0}
    IN  CASE s.kind = "star" -> [scope EXCEPT !.wholesale = @ \cup bound]
          [] s.kind = "object" -> [scope EXCEPT !.named[s.local] = @ \cup bound,
                                                !.module_bindings[s.local] = @ \cup bound]
          [] s.kind = "member" /\ module # {} ->
                [scope EXCEPT !.named[s.local] = @ \cup module,
                              !.module_bindings[s.local] = @ \cup module]
          [] s.kind = "member" /\ module = {} ->
                [scope EXCEPT !.named[s.local] = @ \cup bound,
                              !.members[s.local] = @ \cup (bound \X {s.member})]

bind_file(r, path) ==
    LET none == [n \in Names |-> {}]
        bind(scope, s) == IF r.language[path] = "rust" THEN bind_rust_statement(scope, s)
                          ELSE bind_statement(scope, path, s)
    IN  FoldLeft(bind, [wholesale |-> {}, named |-> none, module_bindings |-> none, members |-> none],
                 r.statements[path])

\* Only a wholesale import and an import of the name bring a file's name in.
binds(scope, name, path) == path \in scope.wholesale \cup scope.named[name]

-----------------------------------------------------------------------------
Tier(tier, candidates) == [tier |-> tier, candidates |-> candidates]
NoResolution == Tier("none", {})

\* A bare name reaches no class member of a module.
defined_at(r, name, path) == {d \in r.definitions : d.name = name /\ d.path = path /\ d.top}

\* A Rust bare name reaches no method at any tier.
bare_name_reaches(language, d) == language # "rust" \/ d.top


\* An explicit import of the name outranks a star import, and a star import
\* carries no private name.
re_exports(scope, member) ==
    IF scope.members[member] # {} THEN scope.members[member]
    ELSE IF member \in Private THEN {}
    ELSE scope.wholesale \X {member}

\* Breadth first over (file, member) hops, one depth at a time; a pair is
\* visited once, and one that is defined leads no further.
RECURSIVE follow(_, _, _, _)
follow(r, pending, visited, depth) ==
    LET from(fresh, defined) ==
            UNION {defined_at(r, p[2], p[1]) : p \in defined}
            \cup (IF depth >= MAX_IMPORT_HOPS THEN {}
                  ELSE follow(r, UNION {re_exports(bind_file(r, p[1]), p[2]) : p \in fresh \ defined},
                              visited \cup fresh, depth + 1))
        over(fresh) == from(fresh, {p \in fresh : defined_at(r, p[2], p[1]) # {}})
    IN  IF pending \subseteq visited THEN {} ELSE over(pending \ visited)

\* A Rust glob also brings in what the globbed module re-exports.
through_imports(r, name, path) ==
    LET first(scope) == IF scope.members[name] = {} /\ r.language[path] = "rust"
                        THEN scope.wholesale \X {name}
                        ELSE scope.members[name]
    IN  follow(r, first(bind_file(r, path)), {}, 1)

\* A local definition outranks an import.
bound_here(r, name, path) ==
    LET named(scope) == {d \in r.definitions : /\ d.name = name
                                               /\ binds(scope, name, d.path)
                                               /\ bare_name_reaches(r.language[path], d)}
        imported(ds) == IF ds # {} THEN Tier("imported", ds) ELSE NoResolution
        first(here) == IF here # {} THEN Tier("same_file", here)
                       ELSE imported(named(bind_file(r, path)))
    IN  first(defined_at(r, name, path))

\* An import outranks a name-only match, which stays in the family.
resolve(r, name, path) ==
    LET spelled == r.language[path]
        by_name(matched) == IF matched = {} THEN NoResolution
                            ELSE Tier(IF Cardinality(matched) = 1 THEN "unique" ELSE "ambiguous", matched)
        matches == {d \in r.definitions : /\ d.name = name
                                          /\ family(r.language[d.path]) = family(spelled)
                                          /\ bare_name_reaches(spelled, d)}
        after(followed) == IF followed # {} THEN Tier("imported", followed) ELSE by_name(matches)
        first(bound) == IF bound # NoResolution THEN bound ELSE after(through_imports(r, name, path))
    IN  first(bound_here(r, name, path))

\* `qualifier.name`, only through the modules that the qualifier binds here.
resolve_module_attribute(r, name, path, qualifier) ==
    LET direct(targets) == {d \in r.definitions : d.name = name /\ d.path \in targets}
        reached(targets) == IF direct(targets) # {} THEN direct(targets)
                            ELSE follow(r, targets \X {name}, {}, 1)
        tier(ds) == IF ds = {} THEN NoResolution ELSE Tier("imported", ds)
    IN  tier(reached(bind_file(r, path).module_bindings[qualifier]))
=============================================================================
