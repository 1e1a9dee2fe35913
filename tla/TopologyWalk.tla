---------------------------- MODULE TopologyWalk ----------------------------
(***************************************************************************)
(* Bounded traversal (topology/traversal.rs): from each root, in each      *)
(* direction, a stack of simple paths is grown edge by edge; a path is     *)
(* given out where it ends: at a leaf, at an edge that closes a cycle, or  *)
(* at the depth limit.                                                     *)
(***************************************************************************)
EXTENDS TopologyGraph, SequencesExt

NoEdge == <<"none">>

From(edge, direction) == IF direction = "down" THEN edge.up ELSE edge.down
To(edge, direction) == IF direction = "down" THEN edge.down ELSE edge.up

Neighbours(edges, nodes, direction, node) ==
  {e \in DOMAIN edges : /\ {edges[e].up, edges[e].down} \subseteq DOMAIN nodes
                        /\ From(edges[e], direction) = node}

Begin(root, direction, nodes) ==
  [root |-> root, direction |-> direction, nodes |-> <<root>>, edges |-> <<>>,
   evidence |-> nodes[root].evidence, confidence |-> 10]

Extended(state, edge, nodes) ==
  LET to == To(edge, state.direction)
  IN [state EXCEPT !.nodes = Append(@, to), !.edges = Append(@, edge.id),
                   !.evidence = @ \cup edge.evidence \cup nodes[to].evidence,
                   !.confidence = Lesser(@, edge.confidence)]

PathOf(state, end) == With(With(state, "end", end), "cycle", NoEdge)
CyclePath(state, edge) ==
  LET closed == [state EXCEPT !.evidence = @ \cup edge.evidence,
                              !.confidence = Lesser(@, edge.confidence)]
  IN With(With(closed, "end", "cycle"), "cycle", edge.id)

\* Mutant: the limit is reached one edge too soon.
LimitTooSoon(state, nodes, edges, depth) ==
  LET next == Neighbours(edges, nodes, state.direction, Last(state.nodes))
      onward == {e \in next : To(edges[e], state.direction) \notin ToSet(state.nodes)}
  IN IF Len(state.edges) + 1 >= depth
     THEN [push |-> <<>>, paths |-> IF state.edges = <<>> THEN {} ELSE {PathOf(state, "limit")}]
     ELSE [push |-> SetToSeq({Extended(state, edges[e], nodes) : e \in onward}), paths |-> {}]

(* One turn of the loop: the state on top is taken, the paths that end     *)
(* with it are given out, those that go on are pushed.                     *)
Turn(state, nodes, edges, depth) ==
  LET next == Neighbours(edges, nodes, state.direction, Last(state.nodes))
      closing == {e \in next : To(edges[e], state.direction) \in ToSet(state.nodes)}
      cycles == {CyclePath(state, edges[e]) : e \in closing}
      onward == next \ closing
  IN CASE next = {} -> [push |-> <<>>, paths |-> IF state.edges = <<>> THEN {} ELSE {PathOf(state, "leaf")}]
       [] next # {} /\ Len(state.edges) >= depth ->
            [push |-> <<>>, paths |-> cycles \cup (IF onward = {} THEN {} ELSE {PathOf(state, "limit")})]
       [] OTHER -> [push |-> SetToSeq({Extended(state, edges[e], nodes) : e \in onward}), paths |-> cycles]

(* The walks of a traversal: the roots that are there, each direction.     *)
Directions(direction) == IF direction = "both" THEN {"up", "down"} ELSE {direction}
Starts(roots, direction, nodes) ==
  {Begin(r, d, nodes) : r \in roots \cap DOMAIN nodes, d \in Directions(direction)}

(***************************************************************************)
(* What a snapshot requires of its parts                                   *)
(***************************************************************************)
\* One observation of each source, and evidence.
ValidEdge(edge) ==
  /\ edge.up # edge.down
  /\ edge.evidence # {}
  /\ \A p, q \in edge.provenance : p.source = q.source => p = q

Along(path, edges) ==
  \A i \in DOMAIN path.edges :
    /\ From(edges[path.edges[i]], path.direction) = path.nodes[i]
    /\ To(edges[path.edges[i]], path.direction) = path.nodes[i + 1]

Crossed(path) == ToSet(path.edges) \cup ({path.cycle} \ {NoEdge})

ValidPath(path, nodes, edges) ==
  /\ Cardinality(ToSet(path.nodes)) = Len(path.nodes)
  /\ Len(path.nodes) = Len(path.edges) + 1
  /\ (path.end = "cycle") = (path.cycle # NoEdge)
  /\ ToSet(path.nodes) \subseteq DOMAIN nodes
  /\ Crossed(path) \subseteq DOMAIN edges
  /\ path.cycle \notin ToSet(path.edges)
  /\ path.confidence = Min({10} \cup {edges[e].confidence : e \in Crossed(path)})
  /\ Along(path, edges)
  /\ path.cycle # NoEdge => /\ From(edges[path.cycle], path.direction) = Last(path.nodes)
                            /\ To(edges[path.cycle], path.direction) \in ToSet(path.nodes)
  /\ path.evidence = UNION {nodes[n].evidence : n \in ToSet(path.nodes)}
                       \cup UNION {edges[e].evidence : e \in Crossed(path)}

ValidNode(node) ==
  /\ node.evidence # {}
  /\ (node.owner.team = "none") \/ node.owner.evidence # {}
=============================================================================
