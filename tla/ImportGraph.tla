---------------------------- MODULE ImportGraph ----------------------------
(***************************************************************************)
(* The walks over the import edges of one scan (crates/graph/src/cycles.rs *)
(* and flood.rs): Tarjan's components, iterated with a work stack of       *)
(* (node, position) pairs; the shortest chain that closes each component;  *)
(* the shortest chain from one file to another; and the flood against the  *)
(* edges with its two bounds.  Files are numbers in path order, and an     *)
(* adjacency is a function from each file to the set of its targets, read  *)
(* in path order as the code's sorted vectors are.                         *)
(***************************************************************************)
EXTENDS Integers, Sequences, FiniteSets, SequencesExt

CONSTANT MAX_FLOOD_VISITED      \* the nodes that a flood expands before it stops

SMALLEST_CYCLE == 2
Unseen == -1                    \* no index yet

\* A set of files in path order.
InPathOrder(files) ==
    LET upto(last) == SelectSeq([n \in 1 .. last |-> n], LAMBDA n : n \in files)
    IN  IF files = {} THEN <<>> ELSE upto(Max(files))

-----------------------------------------------------------------------------
\* Tarjan's state: each node's index and low link, the stack, the components
\* found so far, and the counter.  on_stack always holds the stack's nodes.
open_node(t, node) ==
    [t EXCEPT !.index[node] = t.counter, !.low[node] = t.counter,
              !.counter = @ + 1, !.stack = Append(@, node)]

lower(t, node, value) == [t EXCEPT !.low[node] = IF value < @ THEN value ELSE @]

\* A node whose low link is its own index pops its component off the stack.
close_node(t, node) ==
    IF t.low[node] # t.index[node] THEN t
    ELSE LET from(at) == [t EXCEPT !.stack = SubSeq(t.stack, 1, at - 1),
                                   !.found = Append(@, ToSet(SubSeq(t.stack, at, Len(t.stack))))]
         IN  from(SelectInSeq(t.stack, LAMBDA held : held = node))

\* One edge: an unseen child is visited next; one still on the stack lowers
\* the node; one whose component is closed does nothing.
advance(t, node, child) ==
    IF t.index[child] # Unseen /\ child \in ToSet(t.stack) THEN lower(t, node, t.index[child])
    ELSE t

\* One turn of walk's loop: the pair on top of the work stack either takes its
\* next edge or closes and lowers its parent.
turn(adjacency, node, position, rest, t) ==
    LET next(child) == [work |-> Append(rest, <<node, position + 1>>)
                                 \o IF t.index[child] = Unseen THEN <<<<child, 0>>>> ELSE <<>>,
                        t |-> advance(t, node, child)]
        returned(closed) == [work |-> rest, t |-> IF rest = <<>> THEN closed
                                                  ELSE lower(closed, Last(rest)[1], closed.low[node])]
        along(neighbours) == IF position < Len(neighbours) THEN next(neighbours[position + 1])
                             ELSE returned(close_node(t, node))
    IN  along(InPathOrder(adjacency[node]))

RECURSIVE walk(_, _)
walk(adjacency, s) ==
    IF s.work = <<>> THEN s.t
    ELSE LET node == Last(s.work)[1]
             position == Last(s.work)[2]
         IN  walk(adjacency, turn(adjacency, node, position, Front(s.work),
                                  IF position = 0 THEN open_node(s.t, node) ELSE s.t))

components(nodes, adjacency) ==
    LET unseen == [n \in nodes |-> Unseen]
        start(t, node) == IF t.index[node] = Unseen THEN walk(adjacency, [work |-> <<<<node, 0>>>>, t |-> t])
                          ELSE t
    IN  FoldLeft(start, [index |-> unseen, low |-> unseen, stack |-> <<>>, found |-> <<>>,
                         counter |-> 0],
                 InPathOrder(nodes)).found

-----------------------------------------------------------------------------
\* Breadth first from `from` to the first node with an edge into `to`;
\* previous maps each node to the one that reached it first, 0 for none.
RECURSIVE breadth_first(_, _, _, _, _)
breadth_first(next, from, to, queue, previous) ==
    IF queue = <<>> \/ to \in next[Head(queue)]
    THEN [last |-> IF queue = <<>> THEN 0 ELSE Head(queue), previous |-> previous]
    ELSE LET on(fresh) ==
                breadth_first(next, from, to, Tail(queue) \o InPathOrder(fresh),
                              [n \in DOMAIN previous |->
                                  IF n \in fresh THEN Head(queue) ELSE previous[n]])
         IN  on({child \in next[Head(queue)] \ {from} : previous[child] = 0})

RECURSIVE chain_back(_, _, _)
chain_back(chain, start, previous) ==
    IF Head(chain) = start THEN chain
    ELSE chain_back(<<previous[Head(chain)]>> \o chain, start, previous)

\* The files from `from` to the last one before `to`; <<>> when none leads there.
shortest_chain(next, from, to) ==
    LET back(w) == IF w.last = 0 THEN <<>> ELSE chain_back(<<w.last>>, from, w.previous)
    IN  back(breadth_first(next, from, to, <<from>>, [n \in DOMAIN next |-> 0]))

\* The shortest cycle through the first member, over the edges inside the component.
cycle_chain(members, adjacency) ==
    LET start == Head(InPathOrder(members))
    IN  shortest_chain([n \in DOMAIN adjacency |-> adjacency[n] \cap members], start, start)

\* The cycles, by chain length and then by chain; two cycles of one length
\* start with different files.
import_cycles(adjacency) ==
    LET wanted(found) == {ms \in ToSet(found) : Cardinality(ms) >= SMALLEST_CYCLE}
        cycle(ms) == [files |-> cycle_chain(ms, adjacency), members |-> ms]
        before(l, r) == \/ Len(l.files) < Len(r.files)
                        \/ Len(l.files) = Len(r.files) /\ Head(l.files) < Head(r.files)
    IN  SetToSortSeq({c \in {cycle(ms) : ms \in wanted(components(DOMAIN adjacency, adjacency))} :
                         c.files # <<>>},
                     before)

\* The import edges of a shortest chain over the edges that `keeps` accepts,
\* each the first of its pair of files; an edge is [source, target, line].
import_chain(nodes, edges, from, to, keeps) ==
    LET between(kept, s, t) == {e \in kept : e.source = s /\ e.target = t}
        first(es) == CHOOSE e \in es : \A o \in es : e.line <= o.line
        over(kept, files) == [i \in DOMAIN files |->
                                first(between(kept, files[i], IF i = Len(files) THEN to ELSE files[i + 1]))]
        chain(kept) == over(kept, shortest_chain([n \in nodes |-> {t \in nodes : between(kept, n, t) # {}}],
                                                 from, to))
    IN  chain({e \in edges : keeps[e]})

-----------------------------------------------------------------------------
\* One level of a flood: each node of the frontier counts against the visit
\* bound before its referrers that are not seen yet get this depth.
level(w, frontier, incoming, depth) ==
    LET reach(state, fresh) ==
            [state EXCEPT !.visited = @ + 1, !.seen = @ \cup fresh, !.following = @ \o InPathOrder(fresh),
                          !.depths = [n \in DOMAIN @ |-> IF n \in fresh THEN depth ELSE @[n]]]
        step(state, node) ==
            IF state.exhausted THEN state
            ELSE IF state.visited + 1 > MAX_FLOOD_VISITED
            THEN [state EXCEPT !.visited = @ + 1, !.exhausted = TRUE]
            ELSE reach(state, incoming[node] \ state.seen)
    IN  FoldLeft(step, [w EXCEPT !.following = <<>>], frontier)

RECURSIVE flooded(_, _, _, _)
flooded(w, incoming, depth, max_depth) ==
    IF w.following = <<>> \/ depth >= max_depth \/ w.exhausted THEN w
    ELSE flooded(level(w, w.following, incoming, depth + 1), incoming, depth + 1, max_depth)

\* The depth of each file that reaches a seed, 0 for the others: the fewest
\* hops.  A seed outside the graph is dropped, and no seed is reported.
flood_backward(adjacency, seeds, max_depth) ==
    LET nodes == DOMAIN adjacency
        incoming == [n \in nodes |-> {s \in nodes : n \in adjacency[s]}]
        from(frontier) == [following |-> InPathOrder(frontier), seen |-> frontier,
                           depths |-> [n \in nodes |-> 0], visited |-> 0, exhausted |-> FALSE]
    IN  flooded(from(seeds \cap nodes), incoming, 0, max_depth)
=============================================================================
