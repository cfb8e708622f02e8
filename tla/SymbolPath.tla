----------------------------- MODULE SymbolPath -----------------------------
(***************************************************************************)
(* The symbol graph's ambiguous references, kept once each and expanded on *)
(* demand (crates/graph/src/ambiguous.rs), and the fewest-hop search that  *)
(* walks every edge both ways (crates/graph/src/path.rs).                  *)
(*                                                                         *)
(* A graph g has the nodes 1 .. g.size in id order, the plain edges        *)
(* ([source, target, unique]), the ambiguous references ([source, name,    *)
(* line]) and the candidate nodes of each name.  A hop is the <<source,    *)
(* target>> pair of its edge: the sort key's other parts only choose       *)
(* between edges of the same two nodes.                                    *)
(***************************************************************************)
EXTENDS Integers, Sequences, FiniteSets, SequencesExt

-----------------------------------------------------------------------------
\* An edge needs two nodes: a reference to its own node stands for none.
ambiguous_edges(g, reference) == {reference.source} \X (g.candidates[reference.name] \ {reference.source})

references_from(g, node) == {r \in g.ambiguous : r.source = node}

ambiguous_into(g, node) ==
    UNION {ambiguous_edges(g, r) : r \in g.ambiguous} \cap ((1 .. g.size) \X {node})

\* The degrees are counted from the tallies of each name, without an edge.
leaving(g, node) ==
    MapThenSumSet(LAMBDA r : Cardinality(g.candidates[r.name])
                             - Cardinality(g.candidates[r.name] \cap {node}),
                  references_from(g, node))

arriving(g, node) ==
    LET spelled(name) == {r \in g.ambiguous : r.name = name}
        own(name) == {r \in references_from(g, node) : r.name = name}
    IN  MapThenSumSet(LAMBDA name : Cardinality(g.candidates[name] \cap {node})
                                    * (Cardinality(spelled(name)) - Cardinality(own(name))),
                      DOMAIN g.candidates)

-----------------------------------------------------------------------------
\* Each usable edge, forward from its source and backward from its target.
undirected(g, policy, node) ==
    {<<e.source, e.target>> : e \in {e \in g.edges : /\ e.unique => policy.include_unique
                                                     /\ node \in {e.source, e.target}}}

\* Variant: a name expanded in one direction counts as expanded in both.
ambiguous_hops_once(g, expanded, node) ==
    LET spelled == {e[2] : e \in expanded}
        coming == {n \in DOMAIN g.candidates : node \in g.candidates[n]} \ spelled
        fresh == {r \in references_from(g, node) : r.name \notin spelled}
    IN  [hops |-> (IF coming = {} THEN {} ELSE ambiguous_into(g, node))
                  \cup UNION {ambiguous_edges(g, r) : r \in fresh},
         expanded |-> expanded \cup {<<FALSE, n>> : n \in coming} \cup {<<TRUE, r.name>> : r \in fresh}]

\* Every arriving edge once some name is new here; and leaving, the first
\* reference of each name that is new.  A name expanded once has marked every
\* node it reaches seen, so it is not expanded again in that direction.
ambiguous_hops(g, expanded, node) ==
    LET coming == {n \in DOMAIN g.candidates : node \in g.candidates[n] /\ <<FALSE, n>> \notin expanded}
        fresh == {r \in references_from(g, node) :
                     /\ <<TRUE, r.name>> \notin expanded
                     /\ \A o \in references_from(g, node) : o.name = r.name => r.line <= o.line}
    IN  [hops |-> (IF coming = {} THEN {} ELSE ambiguous_into(g, node))
                  \cup UNION {ambiguous_edges(g, r) : r \in fresh},
         expanded |-> expanded \cup {<<FALSE, n>> : n \in coming} \cup {<<TRUE, r.name>> : r \in fresh}]

\* A node's hops in sort-key order, and the names that are expanded after it.
hops_at(g, policy, expanded, node) ==
    LET keys == [i \in 1 .. g.size * g.size |-> <<((i - 1) \div g.size) + 1, ((i - 1) % g.size) + 1>>]
        ordered(hops) == SelectSeq(keys, LAMBDA key : key \in hops)
        both(more) == [hops |-> ordered(undirected(g, policy, node) \cup more.hops),
                       expanded |-> more.expanded]
    IN  both(IF policy.include_ambiguous THEN ambiguous_hops(g, expanded, node)
             ELSE [hops |-> {}, expanded |-> expanded])

\* One node: each hop to an unseen node records where it came from, and the
\* search ends at the first one that arrives at the target.
expand(g, policy, target, search, node) ==
    LET arrive(s, to) == IF s.found \/ to \in s.seen THEN s
                         ELSE [s EXCEPT !.seen = @ \cup {to}, !.previous[to] = node,
                                        !.found = to = target, !.following = Append(@, to)]
        take(s, hop) == arrive(s, IF hop[1] = node THEN hop[2] ELSE hop[1])
        along(at) == FoldLeft(take, [search EXCEPT !.expanded = at.expanded], at.hops)
    IN  along(hops_at(g, policy, search.expanded, node))

\* One level: every node counts against the bound before it is expanded.
search_level(g, policy, target, max_visited, search) ==
    LET step(s, node) == IF s.found \/ s.exhausted THEN s
                         ELSE IF s.visited + 1 > max_visited
                         THEN [s EXCEPT !.visited = @ + 1, !.exhausted = TRUE]
                         ELSE expand(g, policy, target, [s EXCEPT !.visited = @ + 1], node)
    IN  FoldLeft(step, [search EXCEPT !.following = <<>>], search.following)

RECURSIVE search_run(_, _, _, _, _)
search_run(g, policy, target, max_visited, search) ==
    IF search.following = <<>> \/ search.found \/ search.exhausted THEN search
    ELSE search_run(g, policy, target, max_visited,
                    search_level(g, policy, target, max_visited, search))

RECURSIVE unwind(_, _, _)
unwind(previous, source, nodes) ==
    IF Head(nodes) = source THEN nodes ELSE unwind(previous, source, <<previous[Head(nodes)]>> \o nodes)

\* The nodes of the path, with why there are none.
shortest_path(g, source, target, policy, max_visited) ==
    LET start == [following |-> <<source>>, seen |-> {source}, found |-> FALSE, exhausted |-> FALSE,
                  visited |-> 0, expanded |-> {}, previous |-> [n \in 1 .. g.size |-> 0]]
        result(end) == [nodes |-> IF end.found THEN unwind(end.previous, source, <<target>>) ELSE <<>>,
                        found |-> end.found, visited |-> end.visited, exhausted |-> end.exhausted]
    IN  IF source = target
        THEN [nodes |-> <<source>>, found |-> TRUE, visited |-> 1, exhausted |-> FALSE]
        ELSE result(search_run(g, policy, target, max_visited, start))
=============================================================================
