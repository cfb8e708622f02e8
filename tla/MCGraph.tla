------------------------------ MODULE MCGraph ------------------------------
(***************************************************************************)
(* The graph algorithms over every small graph: a task and an input are    *)
(* picked, one step computes the answer, and the invariants compare it     *)
(* with a definition that is stated another way.  MCAlgorithms puts these  *)
(* tasks beside those of the other crates.                                 *)
(***************************************************************************)
EXTENDS ImportGraph, SymbolPath, Communities, Resolver

CONSTANTS
    MaxFiles,           \* the files of an import graph
    MaxWeight,          \* the largest weight of an edge between communities
    x, y                \* two names

VARIABLES task, input, answer, done

vars == <<task, input, answer, done>>

Files == 1 .. MaxFiles

\* The fewest edges of a walk of at least one edge, or 0 for none, by walks of growing length.
Distance(next, from, to) ==
    LET step(sets, i) == Append(sets, UNION {next[n] : n \in Last(sets)})
        sets == FoldLeft(step, <<{from}>>, [i \in 1 .. Cardinality(DOMAIN next) |-> i])
        hits == {i \in 2 .. Len(sets) : to \in sets[i]}
    IN  IF hits = {} THEN 0 ELSE Min(hits) - 1

-----------------------------------------------------------------------------
\* Import graphs: every set of edges between different files.
CycleInputs == {a \in [Files -> SUBSET Files] : \A n \in Files : n \notin a[n]}

FindCycles ==
    /\ task = "cycles" /\ ~done
    /\ answer' = import_cycles(input)
    /\ done' = TRUE
    /\ UNCHANGED <<task, input>>

\* The cycles are the sets of two or more files that import one another,
\* directly or through others, each once; and the chain of each is a shortest
\* closed walk through its first file, inside the set (Tarjan's components
\* with a work stack, and cycle_chain).
CyclesAreComponents ==
    LET near == [n \in Files |-> {m \in Files : Distance(input, n, m) > 0}]
        mutual(n) == {m \in Files : m = n \/ (m \in near[n] /\ n \in near[m])}
        chain(c) == c.files \o <<Head(c.files)>>
    IN  /\ {answer[i].members : i \in DOMAIN answer} =
              {s \in {mutual(n) : n \in Files} : Cardinality(s) > 1}
        /\ \A i, j \in DOMAIN answer : i < j => /\ answer[i].members # answer[j].members
                                                /\ Len(answer[i].files) <= Len(answer[j].files)
        /\ \A i \in DOMAIN answer :
              LET c == chain(answer[i])
              IN  /\ Head(c) = Min(answer[i].members)
                  /\ \A k \in 1 .. Len(c) - 1 : c[k + 1] \in input[c[k]] /\ c[k] \in answer[i].members
                  /\ Len(answer[i].files) = Distance(input, Head(c), Head(c))

-----------------------------------------------------------------------------
\* Chains between two files over the edges that are kept, and floods.
ImportEdges == {e \in [source : 1 .. 3, target : 1 .. 3, line : 1 .. 2] : e.source # e.target}
ChainInputs == [edges : SUBSET ImportEdges, to : {2, 3}, kept : {{1}, {1, 2}}]

FindChain ==
    /\ task = "chain" /\ ~done
    /\ answer' = import_chain(1 .. 3, input.edges, 1, input.to,
                               [e \in input.edges |-> e.line \in input.kept])
    /\ done' = TRUE
    /\ UNCHANGED <<task, input>>

FloodInputs == [adjacency : CycleInputs, seeds : {{1, MaxFiles + 1}, {1, 2}}, max_depth : {0, 2, 3}]

FloodFiles ==
    /\ task = "flood" /\ ~done
    /\ answer' = flood_backward(input.adjacency, input.seeds, input.max_depth)
    /\ done' = TRUE
    /\ UNCHANGED <<task, input>>

ChainIsShortest ==
    LET kept == {e \in input.edges : e.line \in input.kept}
        next == [n \in 1 .. 3 |-> {e.target : e \in {k \in kept : k.source = n}}]
    IN  /\ Len(answer) = Distance(next, 1, input.to)
        /\ \A i \in DOMAIN answer :
              /\ answer[i] \in kept
              /\ answer[i].source = IF i = 1 THEN 1 ELSE answer[i - 1].target
        /\ answer # <<>> => Last(answer).target = input.to

FloodIsExact ==
    LET seeds == input.seeds \cap Files
        told == {n \in Files : answer.depths[n] > 0}
        least(hops) == IF hops = {} THEN 0 ELSE Min(hops)
        away == [n \in Files \ seeds |->
                    least({Distance(input.adjacency, n, s) : s \in seeds} \ {0})]
        exact(hops) == LET reaches == {n \in DOMAIN hops : hops[n] \in 1 .. input.max_depth}
                       IN  /\ told \subseteq reaches
                           /\ ~answer.exhausted => told = reaches
                           /\ \A n \in told : answer.depths[n] = hops[n]
    IN  /\ exact(away)
        /\ answer.exhausted => Cardinality(seeds \cup told) > MAX_FLOOD_VISITED

-----------------------------------------------------------------------------
\* Symbol graphs of four nodes and two ambiguous names, searched from the
\* first node to the last; the first node may spell the first name twice.
Spelled == {s \in SUBSET (1 .. 4) : Cardinality(s) <= 2}
CandidateSets == {c \in SUBSET (1 .. 4) : Cardinality(c) = 2}
PlainEdges ==
    {{}, {[source |-> 1, target |-> 2, unique |-> FALSE], [source |-> 3, target |-> 4, unique |-> TRUE]},
     {[source |-> 3, target |-> 2, unique |-> TRUE], [source |-> 2, target |-> 4, unique |-> FALSE]}}

SymbolGraphs ==
    {[size |-> 4, edges |-> plain, candidates |-> candidates,
      ambiguous |-> UNION {{[source |-> s, name |-> n, line |-> n] : s \in spelled[n]} : n \in {1, 2}}
                    \cup {[source |-> s, name |-> 1, line |-> 3] : s \in spelled[1] \cap {1}}] :
        plain \in PlainEdges, candidates \in [1 .. 2 -> CandidateSets], spelled \in [1 .. 2 -> Spelled]}

PathInputs ==
    [graph : SymbolGraphs, policy : {[include_unique |-> u, include_ambiguous |-> TRUE] : u \in BOOLEAN},
     max_visited : {2, 9}]

FindPath ==
    /\ task = "path" /\ ~done
    /\ answer' = shortest_path(input.graph, 1, 4, input.policy, input.max_visited)
    /\ done' = TRUE
    /\ UNCHANGED <<task, input>>

\* Every edge of the graph, an ambiguous reference's edges included, both ways.
Touching(g, policy) ==
    LET pairs == {<<e.source, e.target>> : e \in {e \in g.edges : e.unique => policy.include_unique}}
                 \cup UNION {{r.source} \X g.candidates[r.name] : r \in g.ambiguous}
        both(ps) == [n \in 1 .. 4 |-> {m \in (1 .. 4) \ {n} : <<n, m>> \in ps \/ <<m, n>> \in ps}]
    IN  both(pairs)

PathIsShortest ==
    LET path == answer.nodes
        right(next, away) ==
            /\ answer.found => /\ Len(path) - 1 = away
                               /\ Head(path) = 1 /\ Last(path) = 4
                               /\ \A i \in 1 .. Len(path) - 1 : path[i + 1] \in next[path[i]]
            /\ ~answer.found /\ ~answer.exhausted => away = 0
        over(next) == right(next, Distance(next, 1, 4))
    IN  /\ over(Touching(input.graph, input.policy))
        /\ answer.exhausted => answer.visited = input.max_visited + 1

\* The degrees counted from tallies are the numbers of expanded edges.
DegreesCountEdges ==
    LET graph == input.graph
    IN  \A n \in 1 .. 4 :
            /\ leaving(graph, n) =
                  MapThenSumSet(LAMBDA r : Cardinality(graph.candidates[r.name] \ {n}),
                                {r \in graph.ambiguous : r.source = n})
            /\ arriving(graph, n) =
                  Cardinality({r \in graph.ambiguous :
                                  r.source # n /\ n \in graph.candidates[r.name]})

\* A chain of imports, the depth that a flood reports for a file and the path
\* between two symbols are the shortest there are, over exactly the edges that
\* the caller admits; and "none" is said only when there is none, with the
\* bound named when it stopped the walk (import_chain over the kept lines,
\* flood_backward's levels, and shortest_path, which expands an ambiguous name
\* once for each direction).  The degrees of a symbol, which are counted from
\* each name's tallies, are the numbers of those edges.
WalksAreShortest ==
    done => CASE task = "cycles" -> CyclesAreComponents
              [] task = "chain" -> ChainIsShortest
              [] task = "flood" -> FloodIsExact
              [] task = "path" -> PathIsShortest /\ DegreesCountEdges
              [] OTHER -> TRUE

-----------------------------------------------------------------------------
\* File graphs of four files, by the weights between them.
Quad == 1 .. 4
CommunityInputs ==
    {[p \in Quad \X Quad |-> IF p[1] < p[2] THEN weight[p] ELSE 0] :
        weight \in [{p \in Quad \X Quad : p[1] < p[2]} -> 0 .. MaxWeight]}

Detect ==
    /\ task = "communities" /\ ~done
    /\ answer' = detect_communities(Quad, input)
    /\ done' = TRUE
    /\ UNCHANGED <<task, input>>

\* The modularity of a division, as the sum over the pairs that it joins.
Modularity(blocks) ==
    LET w(p) == input[p] + input[<<p[2], p[1]>>]
        degree == [n \in Quad |-> MapThenSumSet(LAMBDA m : w(<<n, m>>), Quad)]
        all == MapThenSumSet(w, Quad \X Quad)
        joined == {p \in Quad \X Quad : \E b \in blocks : p[1] \in b /\ p[2] \in b}
        summed(deg, m) == MapThenSumSet(LAMBDA p : w(p) * m - deg[p[1]] * deg[p[2]], joined)
    IN  summed(degree, all)

\* The files are divided, the reported modularity is that of the division, and
\* the moving has really settled: no file gains by joining a neighbour's
\* community, though the totals that the moves were scored with were kept by
\* addition and subtraction (one_pass, which ends long before MAX_PASSES).
CommunitiesSettle ==
    LET near(blocks, n) == {b \in blocks : \E m \in b \ {n} : input[n, m] + input[m, n] > 0}
        joins(blocks, n, b) == {(c \ {n}) \cup (IF c = b THEN {n} ELSE {}) : c \in blocks} \ {{}}
        settled(blocks) ==
            /\ UNION blocks = Quad
            /\ \A b, c \in blocks : b = c \/ b \cap c = {}
            /\ answer.modularity = Modularity(blocks)
            /\ \A n \in Quad : \A b \in near(blocks, n) :
                  Modularity(joins(blocks, n, b)) <= answer.modularity
    IN  task = "communities" /\ done =>
            /\ answer.converged
            /\ settled({answer.communities[i].members : i \in DOMAIN answer.communities})
            /\ \A i, j \in DOMAIN answer.communities : i < j =>
                  Cardinality(answer.communities[i].members) >= Cardinality(answer.communities[j].members)

-----------------------------------------------------------------------------
\* Repositories of three files: the first spells x, and the others import from
\* each other and define x, y or both.
Paths == 1 .. 3
Star(target) == [kind |-> "star", target |-> target, member |-> x, local |-> x, submodule |-> 0]
Member(target, member, local) ==
    [kind |-> "member", target |-> target, member |-> member, local |-> local, submodule |-> 0]
Imports(targets) ==
    {Star(t) : t \in targets} \cup {Member(t, m, l) : t \in targets, m \in {x, y}, l \in {x, y}}

Object(target, local) ==
    [kind |-> "object", target |-> target, member |-> x, local |-> local, submodule |-> 0]

Spellers == {<<Member(2, x, x)>>, <<Member(2, y, x)>>, <<Star(2), Object(2, y)>>,
             <<Star(3), Member(2, x, x)>>}
Middles == {<<>>} \cup {<<s>> : s \in Imports({1, 2, 3})}
           \cup {<<Star(3), s>> : s \in Imports({1, 2})}
Ends == {<<>>} \cup {<<s>> : s \in Imports({2})}

Defined == [name : {x, y}, path : {2, 3}, top : {TRUE}] \cup [name : {x}, path : {2}, top : {FALSE}]

ResolveInputs ==
    {[language |-> [p \in Paths |-> language], definitions |-> definitions,
      statements |-> <<speller, middle, end>>] :
        language \in {"python", "rust"}, speller \in Spellers, middle \in Middles, end \in Ends,
        definitions \in {d \in SUBSET Defined : Cardinality(d) <= 2}}

Follow ==
    /\ task = "resolve" /\ ~done
    /\ answer' = [followed |-> through_imports(input, x, 1), resolved |-> resolve(input, x, 1),
                   attribute |-> resolve_module_attribute(input, x, 1, y)]
    /\ done' = TRUE
    /\ UNCHANGED <<task, input>>

\* The (file, member) pairs that a name of a file stands for, by its statements.
Statements(path) ==
    {s \in ToSet(input.statements[path]) : input.language[path] = "rust" \/ s.target # path}
Explicit(path, name) ==
    {<<s.target, s.member>> : s \in {s \in Statements(path) : s.kind = "member" /\ s.local = name}}
Globbed(path, name) == {<<s.target, name>> : s \in {s \in Statements(path) : s.kind = "star"}}

StandsFor(path, name, private) ==
    IF Explicit(path, name) # {} THEN Explicit(path, name)
    ELSE IF private THEN {} ELSE Globbed(path, name)

Reached(first) ==
    LET here(p) == {d \in input.definitions : d.path = p[1] /\ d.name = p[2] /\ d.top}
        onward(p) == IF here(p) # {} THEN {} ELSE StandsFor(p[1], p[2], p[2] \in Private)
        further(pairs, i) == pairs \cup UNION {onward(p) : p \in pairs}
    IN  UNION {here(p) : p \in FoldLeft(further, first, [i \in 1 .. 6 |-> i])}


GraphInit ==
    \/ task = "cycles" /\ input \in CycleInputs
    \/ task = "chain" /\ input \in ChainInputs
    \/ task = "flood" /\ input \in FloodInputs
    \/ task = "path" /\ input \in PathInputs
    \/ task = "communities" /\ input \in CommunityInputs
    \/ task = "resolve" /\ input \in ResolveInputs

GraphNext == FindCycles \/ FindChain \/ FloodFiles \/ FindPath \/ Detect \/ Follow
=============================================================================
