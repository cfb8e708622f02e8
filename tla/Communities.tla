---------------------------- MODULE Communities ----------------------------
(***************************************************************************)
(* Modularity local moving over the symmetrised file graph                 *)
(* (crates/graph/src/communities.rs) at the default resolution, 1.  The    *)
(* weights are integers, and a score is scaled by two_m, so the exact      *)
(* comparison stands for the code's comparison of floats with a floor      *)
(* above their noise.  Nodes are 1 .. N in path order; membership maps a   *)
(* node to the community that is named by one of the nodes.                *)
(***************************************************************************)
EXTENDS Integers, Sequences, FiniteSets, SequencesExt

CONSTANT MAX_PASSES

\* The undirected view of the directed edges: [pairs -> weight].
symmetrise(nodes, weight) ==
    LET view(between) ==
            [nodes |-> nodes, between |-> between,
             degree |-> [n \in nodes |-> MapThenSumSet(LAMBDA o : between[n, o], nodes)],
             two_m |-> MapThenSumSet(LAMBDA p : between[p], nodes \X nodes)]
    IN  view([p \in nodes \X nodes |-> weight[p] + weight[<<p[2], p[1]>>]])

\* The weight from a node into one community.
neighbour_weights(w, membership, node, community) ==
    MapThenSumSet(LAMBDA o : w.between[node, o], {o \in w.nodes : membership[o] = community})

\* The communities of the node's neighbours, and its own.
joinable(w, membership, node) ==
    {membership[node]} \cup {membership[o] : o \in {o \in w.nodes : w.between[node, o] > 0}}

\* The best of the candidates: the node's own wins a tie, then the lowest.
best_of(w, membership, total, node) ==
    LET score == [c \in joinable(w, membership, node) |->
                     neighbour_weights(w, membership, node, c) * w.two_m - w.degree[node] * total[c]]
        top(scores) == {c \in DOMAIN scores : \A o \in DOMAIN scores : scores[o] <= scores[c]}
        chosen(ties) == IF membership[node] \in ties THEN membership[node] ELSE Min(ties)
    IN  chosen(top(score))

\* The node joins a community, given the totals without it.
join(w, state, node, total, best) ==
    [membership |-> [state.membership EXCEPT ![node] = best],
     total |-> [total EXCEPT ![best] = @ + w.degree[node]],
     moved |-> state.moved + (IF best # state.membership[node] THEN 1 ELSE 0)]

\* Variant: the total of the community that the node leaves is not lowered.
move_node_keeping(w, state, node) ==
    join(w, state, node, state.total, best_of(w, state.membership, state.total, node))

\* One node leaves its community before any is scored, and joins the best.
move_node(w, state, node) ==
    LET from(total) == join(w, state, node, total, best_of(w, state.membership, total, node))
    IN  from([state.total EXCEPT ![state.membership[node]] = @ - w.degree[node]])

one_pass(w, state) ==
    FoldLeft(LAMBDA s, node : move_node(w, s, node), [state EXCEPT !.moved = 0],
             [n \in 1 .. Cardinality(w.nodes) |-> n])

\* Passes until one moves nothing, or the bound.
RECURSIVE passes(_, _, _)
passes(w, state, left) ==
    LET settled(after) == IF after.moved = 0
                          THEN [membership |-> after.membership, converged |-> TRUE]
                          ELSE passes(w, after, left - 1)
    IN  IF left = 0 THEN [membership |-> state.membership, converged |-> FALSE]
        ELSE settled(one_pass(w, state))

\* The member with the most weight inside the community, the first on a tie.
hub_position(w, members) ==
    LET inside == [m \in members |-> MapThenSumSet(LAMBDA o : w.between[m, o], members)]
        most(weights) == {m \in members : \A o \in members : weights[o] <= weights[m]}
    IN  Min(most(inside))

\* The modularity, scaled by two_m squared.
modularity(w, groups) ==
    LET internal(ms) == MapThenSumSet(LAMBDA p : w.between[p], ms \X ms)
        outgoing(ms) == MapThenSumSet(LAMBDA m : w.degree[m], ms)
    IN  MapThenSumSet(LAMBDA ms : internal(ms) * w.two_m - outgoing(ms) * outgoing(ms), groups)

\* The communities, largest first and then by members.
partition(w, end) ==
    LET before(l, r) == \/ Cardinality(l) > Cardinality(r)
                        \/ Cardinality(l) = Cardinality(r) /\ Min(l) < Min(r)
        listed(ordered) == [i \in DOMAIN ordered |->
                               [members |-> ordered[i], hub |-> hub_position(w, ordered[i])]]
        of(groups) == [communities |-> listed(SetToSortSeq(groups, before)),
                       modularity |-> modularity(w, groups), converged |-> end.converged]
    IN  of({{n \in w.nodes : end.membership[n] = c} : c \in {end.membership[n] : n \in w.nodes}})

detect_communities(nodes, weight) ==
    LET alone == [n \in nodes |-> n]
        over(w) == partition(w, IF w.two_m = 0 THEN [membership |-> alone, converged |-> TRUE]
                                ELSE passes(w, [membership |-> alone, total |-> w.degree, moved |-> 0],
                                            MAX_PASSES))
    IN  over(symmetrise(nodes, weight))
=============================================================================
