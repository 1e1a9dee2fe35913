----------------------------- MODULE TopologyProofs -----------------------------
(***************************************************************************)
(* What is proved of one topology request, for any records, requests and   *)
(* workspace, any order of the records and any number of them: that a team *)
(* owns no node against an admissible rule, that the graph shows exactly   *)
(* what all records that describe it describe alike, and that a snapshot   *)
(* shows exactly the nodes the request selects.                            *)
(*                                                                         *)
(* The invariant of the derivation (TInv) says, after every single record, *)
(* that the nodes and edges of the graph and those refused for good are    *)
(* those on which the records taken so far agree and disagree (Settled).   *)
(* The invariant of the request (SInv) says of every way of at most so     *)
(* many edges from a root that a state on the stack still has it ahead, or *)
(* that a path has been given out that holds all its nodes (Covered): what *)
(* a walk has passed when its stack is empty is then all that is near.     *)
(***************************************************************************)
EXTENDS Topology, SequenceTheorems, FiniteSetTheorems, WellFoundedInduction, TLAPS

-----------------------------------------------------------------------------
(***************************************************************************)
(* The graph                                                               *)
(***************************************************************************)
GraphFields == DOMAIN EmptyGraph
NodeFields ==
  {"kind", "name", "env", "provider", "facet", "labels", "team", "owner", "metric", "evidence"}
EdgeFields ==
  {"id", "up", "down", "kind", "facet", "confidence", "provenance", "evidence"}

\* A graph that differs from another in no other than the fields named.
Changes(h, g, fields) ==
  DOMAIN h = GraphFields /\ \A f \in GraphFields \ fields : h[f] = g[f]

WebFields == {"edges", "badEdges", "status"}

\* The fields of a graph, by name.
LEMMA FieldsOfGraph ==
  GraphFields = {"nodes", "edges", "status", "evidence", "badNodes", "badEdges", "incidents",
                 "attempts", "bound", "resourceNodes", "badResources", "lookup", "k8s"}
BY DEF GraphFields, EmptyGraph

\* Two changes one after the other change what either does.
LEMMA ChangesAdd ==
  ASSUME NEW g, NEW h, NEW k, NEW F, NEW G, Changes(h, g, F), Changes(k, h, G)
  PROVE  Changes(k, g, F \cup G)
BY DEF Changes

\* Marking a source touches its status only.
LEMMA MarkChanges ==
  ASSUME NEW g, DOMAIN g = GraphFields, NEW s
  PROVE  Changes(Mark(g, s), g, {"status"})
BY FieldsOfGraph DEF Mark, Changes

\* So does loading one.
LEMMA LoadStatusChanges ==
  ASSUME NEW g, DOMAIN g = GraphFields, NEW s
  PROVE  Changes(LoadStatus(g, s), g, {"status"})
BY FieldsOfGraph DEF LoadStatus, Changes

\* Adding an edge touches the edges, kept and refused, only.
LEMMA AddEdgeChanges ==
  ASSUME NEW g, DOMAIN g = GraphFields, NEW edge
  PROVE  Changes(AddEdge(g, edge).g, g, {"edges", "badEdges"})
BY FieldsOfGraph DEF AddEdge, Changes

\* Connecting two nodes touches the edges and the statuses only.
LEMMA ConnectChanges ==
  ASSUME NEW g, DOMAIN g = GraphFields, NEW up, NEW down, NEW kind, NEW source, NEW relation,
         NEW confidence, NEW silent
  PROVE  Changes(Connect(g, up, down, kind, source, relation, confidence, silent), g, WebFields)
<1> DEFINE edge == MakeEdge(g, up, down, kind, source, relation, confidence)
           a == AddEdge(g, edge)
<1>1. Changes(a.g, g, {"edges", "badEdges"})
  BY AddEdgeChanges
<1>2. Changes(Mark(a.g, source), a.g, {"status"})
  BY <1>1, MarkChanges DEF Changes
<1>3. Changes(Mark(g, source), g, {"status"}) /\ Changes(g, g, {})
  BY MarkChanges DEF Changes
<1> HIDE DEF edge
<1>4. Changes(Mark(a.g, source), g, WebFields)
  BY <1>1, <1>2 DEF Changes, WebFields
<1>5. Changes(a.g, g, WebFields) /\ Changes(g, g, WebFields) /\ Changes(Mark(g, source), g, WebFields)
  BY <1>1, <1>3 DEF Changes, WebFields
<1> QED BY <1>4, <1>5 DEF Connect, edge

\* A link touches no more than what connecting two nodes does.
LEMMA DeriveLinkChanges ==
  ASSUME NEW g, DOMAIN g = GraphFields, NEW l
  PROVE  Changes(DeriveLink(g, l), g, WebFields)
<1>1. Changes(Mark(g, Cluster(l.env)), g, WebFields)
  BY MarkChanges DEF Changes, WebFields
<1> QED BY <1>1, ConnectChanges DEF DeriveLink

\* Neither does an edge of the fixtures.
LEMMA DeriveFixtureEdgeChanges ==
  ASSUME NEW g, DOMAIN g = GraphFields, NEW e
  PROVE  Changes(DeriveFixtureEdge(g, e), g, WebFields)
<1> DEFINE a == AddEdge(g, [k \in DOMAIN e \ {"sound", "order"} |-> e[k]])
<1>1. Changes(Mark(g, "fixtures"), g, WebFields)
  BY MarkChanges DEF Changes, WebFields
<1>2. Changes(a.g, g, {"edges", "badEdges"})
  BY AddEdgeChanges
<1>3. Changes(Mark(a.g, "fixtures"), a.g, {"status"})
  BY <1>2, MarkChanges DEF Changes
<1> HIDE DEF a
<1>4. Changes(Mark(a.g, "fixtures"), g, WebFields) /\ Changes(a.g, g, WebFields)
  BY <1>2, <1>3 DEF Changes, WebFields
<1> QED BY <1>1, <1>4 DEF DeriveFixtureEdge, a

\* Claiming a resource touches who claims what, and a status.
LEMMA ClaimResourceChanges ==
  ASSUME NEW g, DOMAIN g = GraphFields, NEW resource, NEW id, NEW source
  PROVE  Changes(ClaimResource(g, resource, id, source), g,
                 {"resourceNodes", "badResources", "status"})
<1> DEFINE h == [g EXCEPT !.resourceNodes = Without(@, {resource}), !.badResources = @ \cup {resource}]
           k == [g EXCEPT !.resourceNodes = With(@, resource, id)]
<1>1. Changes(h, g, {"resourceNodes", "badResources"}) /\ Changes(k, g, {"resourceNodes"})
  BY FieldsOfGraph DEF Changes
<1>2. Changes(Mark(h, source), h, {"status"})
  <2>1. DOMAIN h = GraphFields
    BY <1>1 DEF Changes
  <2> HIDE DEF h
  <2> QED BY <2>1, MarkChanges
<1>3. ClaimResource(g, resource, id, source) \in {g, k, Mark(h, source)}
  BY DEF ClaimResource
<1> HIDE DEF h, k
<1> QED BY <1>1, <1>2, <1>3 DEF Changes

-----------------------------------------------------------------------------
(***************************************************************************)
(* Nodes and edges of a graph under construction                           *)
(***************************************************************************)

\* The nodes are those all of D describe alike, the bad ones those that two
\* of D describe differently.
Agreeing(nodes, bad, D) ==
  /\ DOMAIN nodes \cap bad = {}
  /\ \A d \in D : d[1] \in DOMAIN nodes \cup bad
  /\ \A n \in DOMAIN nodes \cup bad : \E d \in D : d[1] = n
  /\ \A n \in DOMAIN nodes : DOMAIN nodes[n] = NodeFields
  /\ \A d \in D : DOMAIN d[2] = NodeFields
  /\ \A d \in D : d[1] \in DOMAIN nodes => SameNode(nodes[d[1]], d[2])
  /\ \A n \in bad : \E c, d \in D : c[1] = n /\ d[1] = n /\ ~SameNode(c[2], d[2])

\* Edges and names lead to nodes that are there, and what was refused is not.
Woven(g) ==
  /\ DOMAIN g = GraphFields
  /\ IsFiniteSet(DOMAIN g.nodes) /\ IsFiniteSet(DOMAIN g.edges)
  /\ DOMAIN g.edges \cap g.badEdges = {}
  /\ \A e \in DOMAIN g.edges :
       DOMAIN g.edges[e] = EdgeFields /\ {g.edges[e].up, g.edges[e].down} \subseteq DOMAIN g.nodes
  /\ \A l \in g.lookup : l.node \in DOMAIN g.nodes

\* Nodes with the same identity are alike in every respect compared.
LEMMA SameNodeIs ==
  ASSUME NEW x, NEW y, NEW z,
         DOMAIN x = NodeFields, DOMAIN y = NodeFields, DOMAIN z = NodeFields
  PROVE  /\ SameNode(x, x)
         /\ SameNode(x, y) => SameNode(y, x)
         /\ SameNode(x, y) /\ SameNode(y, z) => SameNode(x, z)
BY DEF SameNode, Same

\* A node that comes, goes or stays leaves every other where it was.
LEMMA AddNodeKeeps ==
  ASSUME NEW g, DOMAIN g = GraphFields, NEW id, NEW node, NEW a, a = AddNode(g, id, node)
  PROVE  /\ a.g.evidence = g.evidence
         /\ DOMAIN g.nodes \ {id} = DOMAIN a.g.nodes \ {id}
<1>1. CASE id \in g.badNodes
  BY <1>1 DEF AddNode
<1>2. CASE id \notin g.badNodes /\ id \notin DOMAIN g.nodes
  <2>1. a.g = [g EXCEPT !.nodes = With(@, id, node)]
    BY <1>2 DEF AddNode
  <2>2. a.g.evidence = g.evidence /\ a.g.nodes = With(g.nodes, id, node)
    BY <2>1, FieldsOfGraph
  <2> QED BY <2>2 DEF With
<1>3. CASE id \notin g.badNodes /\ id \in DOMAIN g.nodes /\ SameNode(g.nodes[id], node)
  <2>1. a.g = [g EXCEPT !.nodes[id].evidence = @ \cup node.evidence]
    BY <1>3 DEF AddNode
  <2>2. a.g.evidence = g.evidence /\ DOMAIN a.g.nodes = DOMAIN g.nodes
    BY <2>1, FieldsOfGraph
  <2> QED BY <2>2
<1>4. CASE id \notin g.badNodes /\ id \in DOMAIN g.nodes /\ ~SameNode(g.nodes[id], node)
  <2> DEFINE h == [g EXCEPT !.nodes = Without(@, {id}), !.badNodes = @ \cup {id}]
  <2>1. a.g = RemoveReferences(h, id)
    BY <1>4 DEF AddNode
  <2>2. /\ DOMAIN h = GraphFields /\ h.nodes = Without(g.nodes, {id}) /\ h.evidence = g.evidence
    BY FieldsOfGraph
  <2> HIDE DEF h
  <2>3. a.g.nodes = Without(g.nodes, {id}) /\ a.g.evidence = g.evidence
    BY <2>1, <2>2, FieldsOfGraph DEF RemoveReferences
  <2> QED BY <2>3 DEF Without, Restrict
<1> QED BY <1>1, <1>2, <1>3, <1>4

\* Whatever was described before, adding a node leaves the nodes and the
\* refused identifiers what those descriptions and this one agree on.
LEMMA AddNodeAgrees ==
  ASSUME NEW g, DOMAIN g = GraphFields, NEW D, Agreeing(g.nodes, g.badNodes, D),
         NEW id, NEW node, DOMAIN node = NodeFields, NEW a, a = AddNode(g, id, node)
  PROVE  Agreeing(a.g.nodes, a.g.badNodes, D \cup {<<id, node>>})
<1> DEFINE x == <<id, node>>
           E == D \cup {x}
           new == a.g.nodes
           bad == a.g.badNodes
<1>0. x[1] = id /\ x[2] = node
  OBVIOUS
<1> HIDE DEF x
<1> SUFFICES /\ DOMAIN new \cap bad = {}
             /\ DOMAIN new \cup bad = DOMAIN g.nodes \cup g.badNodes \cup {id}
             /\ \A n \in DOMAIN new : DOMAIN new[n] = NodeFields
             /\ \A d \in E : d[1] \in DOMAIN new => SameNode(new[d[1]], d[2])
             /\ \A n \in bad : \E c, d \in E : c[1] = n /\ d[1] = n /\ ~SameNode(c[2], d[2])
  <2>1. \A d \in E : d[1] \in DOMAIN g.nodes \cup g.badNodes \cup {id} /\ DOMAIN d[2] = NodeFields
    BY <1>0 DEF Agreeing
  <2>2. \A n \in DOMAIN g.nodes \cup g.badNodes \cup {id} : \E d \in E : d[1] = n
    BY <1>0 DEF Agreeing
  <2>3. Agreeing(new, bad, E)
    BY <2>1, <2>2 DEF Agreeing
  <2> QED BY <2>3 DEF x
<1>1. CASE id \in g.badNodes
  <2>1. a.g = g
    BY <1>1 DEF AddNode
  <2>2. id \notin DOMAIN g.nodes
    BY <1>1 DEF Agreeing
  <2> QED BY <1>0, <1>1, <2>1, <2>2 DEF Agreeing
<1>2. CASE id \notin g.badNodes /\ id \notin DOMAIN g.nodes
  <2>1. a.g = [g EXCEPT !.nodes = With(@, id, node)]
    BY <1>2 DEF AddNode
  <2>2. /\ DOMAIN a.g = GraphFields /\ a.g.badNodes = g.badNodes /\ a.g.evidence = g.evidence
        /\ a.g.nodes = With(g.nodes, id, node)
    BY <2>1, FieldsOfGraph
  <2>3. /\ DOMAIN new = DOMAIN g.nodes \cup {id}
        /\ new[id] = node
        /\ \A n \in DOMAIN g.nodes : new[n] = g.nodes[n]
    BY <1>2, <2>2 DEF With
  <2>4. \A d \in D : d[1] # id
    BY <1>2 DEF Agreeing
  <2>5. \A d \in E : d[1] \in DOMAIN new => SameNode(new[d[1]], d[2])
    BY <1>0, <2>3, <2>4, SameNodeIs DEF Agreeing
  <2>6. \A n \in bad : \E c, d \in E : c[1] = n /\ d[1] = n /\ ~SameNode(c[2], d[2])
    BY <2>2 DEF Agreeing
  <2>7. DOMAIN new \cap bad = {} /\ \A n \in DOMAIN new : DOMAIN new[n] = NodeFields
    BY <1>2, <2>2, <2>3 DEF Agreeing
  <2> QED BY <2>2, <2>3, <2>5, <2>6, <2>7
<1>3. CASE id \notin g.badNodes /\ id \in DOMAIN g.nodes /\ SameNode(g.nodes[id], node)
  <2>1. a.g = [g EXCEPT !.nodes[id].evidence = @ \cup node.evidence]
    BY <1>3 DEF AddNode
  <2>2. /\ DOMAIN a.g = GraphFields /\ a.g.badNodes = g.badNodes /\ a.g.evidence = g.evidence
        /\ new = [g.nodes EXCEPT ![id].evidence = @ \cup node.evidence]
    BY <2>1, FieldsOfGraph
  <2>3. DOMAIN g.nodes[id] = NodeFields
    BY <1>3 DEF Agreeing
  <2>4. /\ DOMAIN new = DOMAIN g.nodes
        /\ \A n \in DOMAIN g.nodes \ {id} : new[n] = g.nodes[n]
        /\ DOMAIN new[id] = NodeFields
        /\ \A f \in NodeFields \ {"evidence"} : new[id][f] = g.nodes[id][f]
    BY <1>3, <2>2, <2>3
  <2>5. \A z : SameNode(g.nodes[id], z) <=> SameNode(new[id], z)
    BY <2>3, <2>4 DEF SameNode, Same
  <2>6. \A d \in E : d[1] \in DOMAIN new => SameNode(new[d[1]], d[2])
    BY <1>0, <1>3, <2>4, <2>5 DEF Agreeing
  <2>7. \A n \in bad : \E c, d \in E : c[1] = n /\ d[1] = n /\ ~SameNode(c[2], d[2])
    BY <2>2 DEF Agreeing
  <2>8. DOMAIN new \cap bad = {} /\ \A n \in DOMAIN new : DOMAIN new[n] = NodeFields
    BY <2>2, <2>4 DEF Agreeing
  <2>9. DOMAIN new \cup bad = DOMAIN g.nodes \cup g.badNodes \cup {id}
    BY <1>3, <2>2, <2>4
  <2> HIDE DEF E
  <2> QED BY <2>2, <2>4, <2>6, <2>7, <2>8, <2>9
<1>4. CASE id \notin g.badNodes /\ id \in DOMAIN g.nodes /\ ~SameNode(g.nodes[id], node)
  <2> DEFINE h == [g EXCEPT !.nodes = Without(@, {id}), !.badNodes = @ \cup {id}]
  <2>1. a.g = RemoveReferences(h, id)
    BY <1>4 DEF AddNode
  <2>2. /\ DOMAIN h = GraphFields /\ h.nodes = Without(g.nodes, {id})
        /\ h.badNodes = g.badNodes \cup {id} /\ h.evidence = g.evidence
    BY FieldsOfGraph
  <2> HIDE DEF h
  <2>3. /\ DOMAIN a.g = GraphFields /\ new = Without(g.nodes, {id})
        /\ bad = g.badNodes \cup {id} /\ a.g.evidence = g.evidence
    BY <2>1, <2>2, FieldsOfGraph DEF RemoveReferences
  <2>4. /\ DOMAIN new = DOMAIN g.nodes \ {id}
        /\ \A n \in DOMAIN g.nodes \ {id} : new[n] = g.nodes[n]
    BY <2>3 DEF Without, Restrict
  <2>5. PICK d \in D : d[1] = id
    BY <1>4 DEF Agreeing
  <2>6. ~SameNode(d[2], node)
    BY <1>4, <2>5, SameNodeIs DEF Agreeing
  <2>7. \A e \in E : e[1] \in DOMAIN new => SameNode(new[e[1]], e[2])
    BY <1>0, <2>4 DEF Agreeing
  <2>8. \A n \in bad : \E c, e \in E : c[1] = n /\ e[1] = n /\ ~SameNode(c[2], e[2])
    <3>1. d \in E /\ x \in E /\ d[1] = id /\ x[1] = id /\ ~SameNode(d[2], x[2])
      BY <1>0, <2>5, <2>6
    <3>2. \A n \in g.badNodes : \E c, e \in E : c[1] = n /\ e[1] = n /\ ~SameNode(c[2], e[2])
      BY DEF Agreeing
    <3> HIDE DEF E
    <3> QED BY <2>3, <3>1, <3>2
  <2>9. DOMAIN new \cap bad = {} /\ \A n \in DOMAIN new : DOMAIN new[n] = NodeFields
    BY <2>3, <2>4 DEF Agreeing
  <2> QED BY <1>4, <2>3, <2>4, <2>7, <2>8, <2>9
<1> QED BY <1>1, <1>2, <1>3, <1>4

\* Adding a node leaves no edge or name without its nodes.
LEMMA AddNodeWoven ==
  ASSUME NEW g, Woven(g), NEW id, NEW node, NEW a, a = AddNode(g, id, node)
  PROVE  /\ Woven(a.g)
         /\ a.taken \in BOOLEAN /\ (a.taken => id \in DOMAIN a.g.nodes)
<1>1. CASE id \in g.badNodes
  BY <1>1 DEF AddNode
<1>2. CASE id \notin g.badNodes /\ id \notin DOMAIN g.nodes
  <2>1. a.g = [g EXCEPT !.nodes = With(@, id, node)] /\ a.taken
    BY <1>2 DEF AddNode
  <2>2. /\ DOMAIN a.g = GraphFields /\ a.g.edges = g.edges /\ a.g.badEdges = g.badEdges
        /\ a.g.lookup = g.lookup /\ DOMAIN a.g.nodes = DOMAIN g.nodes \cup {id}
    BY <2>1, FieldsOfGraph DEF With, Woven
  <2>3. IsFiniteSet(DOMAIN a.g.nodes)
    BY <2>2, FS_AddElement DEF Woven
  <2>4. a.taken \in BOOLEAN /\ id \in DOMAIN a.g.nodes
    BY <2>1, <2>2
  <2>5. \A e \in DOMAIN a.g.edges :
           /\ DOMAIN a.g.edges[e] = EdgeFields
           /\ {a.g.edges[e].up, a.g.edges[e].down} \subseteq DOMAIN a.g.nodes
    BY <2>2 DEF Woven
  <2>6. \A l \in a.g.lookup : l.node \in DOMAIN a.g.nodes
    BY <2>2 DEF Woven
  <2>7. IsFiniteSet(DOMAIN a.g.edges) /\ DOMAIN a.g.edges \cap a.g.badEdges = {}
    BY <2>2 DEF Woven
  <2>8. Woven(a.g)
    BY <2>2, <2>3, <2>5, <2>6, <2>7 DEF Woven
  <2> QED BY <2>4, <2>8
<1>3. CASE id \notin g.badNodes /\ id \in DOMAIN g.nodes /\ SameNode(g.nodes[id], node)
  <2>1. a.g = [g EXCEPT !.nodes[id].evidence = @ \cup node.evidence] /\ a.taken
    BY <1>3 DEF AddNode
  <2>2. /\ DOMAIN a.g = GraphFields /\ a.g.edges = g.edges /\ a.g.badEdges = g.badEdges
        /\ a.g.lookup = g.lookup /\ DOMAIN a.g.nodes = DOMAIN g.nodes
    BY <2>1, FieldsOfGraph DEF Woven
  <2> QED BY <1>3, <2>1, <2>2 DEF Woven, AddNode
<1>4. CASE id \notin g.badNodes /\ id \in DOMAIN g.nodes /\ ~SameNode(g.nodes[id], node)
  <2> DEFINE h == [g EXCEPT !.nodes = Without(@, {id}), !.badNodes = @ \cup {id}]
  <2>1. a.g = RemoveReferences(h, id) /\ ~a.taken /\ a.taken = FALSE
    BY <1>4 DEF AddNode
  <2>2. /\ DOMAIN h = GraphFields /\ h.nodes = Without(g.nodes, {id})
        /\ h.edges = g.edges /\ h.lookup = g.lookup /\ h.badEdges = g.badEdges
    BY FieldsOfGraph DEF Woven
  <2> HIDE DEF h
  <2>3. /\ DOMAIN a.g = GraphFields /\ a.g.nodes = Without(g.nodes, {id})
        /\ a.g.edges = Without(g.edges, EdgesOf(h, id))
        /\ a.g.lookup = {l \in g.lookup : l.node # id} /\ a.g.badEdges = g.badEdges
    BY <2>1, <2>2, FieldsOfGraph DEF RemoveReferences
  <2>4. DOMAIN a.g.nodes = DOMAIN g.nodes \ {id}
    BY <2>3 DEF Without, Restrict
  <2>5. /\ DOMAIN a.g.edges \subseteq DOMAIN g.edges
        /\ \A e \in DOMAIN a.g.edges : a.g.edges[e] = g.edges[e] /\ ~Touches(g.edges[e], id)
    BY <2>2, <2>3 DEF Without, Restrict, EdgesOf
  <2>6. IsFiniteSet(DOMAIN a.g.nodes) /\ IsFiniteSet(DOMAIN a.g.edges)
    BY <2>4, <2>5, FS_Subset DEF Woven
  <2>7. \A e \in DOMAIN a.g.edges :
          /\ DOMAIN a.g.edges[e] = EdgeFields
          /\ {a.g.edges[e].up, a.g.edges[e].down} \subseteq DOMAIN a.g.nodes
    BY <2>4, <2>5 DEF Woven, Touches
  <2> QED BY <2>1, <2>3, <2>4, <2>5, <2>6, <2>7 DEF Woven
<1> QED BY <1>1, <1>2, <1>3, <1>4

\* Edges of an identifier agree with all of Z that have it, or none is left.
Uncontested(edges, bad, Z) ==
  \A z \in Z : /\ DOMAIN z = EdgeFields /\ z.id \in DOMAIN edges \cup bad
               /\ z.id \in DOMAIN edges => SameEdge(edges[z.id], z)

\* Adding an edge leaves the edges what those added and this one agree on.
LEMMA AddEdgeCases ==
  ASSUME NEW g, Woven(g), NEW edge, DOMAIN edge = EdgeFields,
         {edge.up, edge.down} \subseteq DOMAIN g.nodes, NEW a, a = AddEdge(g, edge)
  PROVE  /\ Woven(a.g)
         /\ a.g.nodes = g.nodes /\ a.g.evidence = g.evidence
         /\ \A Z : Uncontested(g.edges, g.badEdges, Z) =>
              Uncontested(a.g.edges, a.g.badEdges, Z \cup {edge})
<1> DEFINE id == edge.id
<1>0. /\ DOMAIN a.g = GraphFields
      /\ \A f \in GraphFields \ {"edges", "badEdges"} : a.g[f] = g[f]
  BY AddEdgeChanges DEF Woven, Changes
<1>01. a.g.nodes = g.nodes /\ a.g.evidence = g.evidence /\ a.g.lookup = g.lookup
  BY <1>0, FieldsOfGraph
<1>02. SameEdge(edge, edge)
  BY DEF SameEdge, Same
<1>1. CASE id \in g.badEdges
  <2>1. a.g = g /\ id \notin DOMAIN g.edges
    BY <1>1 DEF AddEdge, Woven
  <2> QED BY <1>1, <2>1 DEF Uncontested
<1>2. CASE id \notin g.badEdges /\ id \notin DOMAIN g.edges
  <2>1. a.g = [g EXCEPT !.edges = With(@, id, edge)]
    BY <1>2 DEF AddEdge
  <2>2. a.g.edges = With(g.edges, id, edge) /\ a.g.badEdges = g.badEdges
    BY <2>1, FieldsOfGraph DEF Woven
  <2>3. /\ DOMAIN a.g.edges = DOMAIN g.edges \cup {id}
        /\ a.g.edges[id] = edge
        /\ \A e \in DOMAIN g.edges : a.g.edges[e] = g.edges[e]
    BY <1>2, <2>2 DEF With
  <2>4. IsFiniteSet(DOMAIN a.g.edges)
    BY <2>3, FS_AddElement DEF Woven
  <2>5. Woven(a.g)
    BY <1>0, <1>01, <1>2, <2>2, <2>3, <2>4 DEF Woven
  <2>6. ASSUME NEW Z, Uncontested(g.edges, g.badEdges, Z), NEW z \in Z \cup {edge}
        PROVE  /\ DOMAIN z = EdgeFields /\ z.id \in DOMAIN a.g.edges \cup a.g.badEdges
               /\ z.id \in DOMAIN a.g.edges => SameEdge(a.g.edges[z.id], z)
    <3>1. CASE z = edge
      BY <1>02, <2>3, <3>1
    <3>2. CASE z \in Z
      BY <1>2, <2>2, <2>3, <2>6, <3>2 DEF Uncontested
    <3> QED BY <2>6, <3>1, <3>2
  <2> QED BY <1>01, <2>5, <2>6 DEF Uncontested
<1>3. CASE id \notin g.badEdges /\ id \in DOMAIN g.edges /\ SameEdge(g.edges[id], edge)
  <2>1. a.g = [g EXCEPT !.edges[id].evidence = @ \cup edge.evidence,
                        !.edges[id].provenance = @ \cup edge.provenance,
                        !.edges[id].confidence = Lesser(@, edge.confidence)]
    BY <1>3 DEF AddEdge
  <2>2. /\ a.g.badEdges = g.badEdges
        /\ a.g.edges = [g.edges EXCEPT ![id].evidence = @ \cup edge.evidence,
                                       ![id].provenance = @ \cup edge.provenance,
                                       ![id].confidence = Lesser(@, edge.confidence)]
    BY <2>1, FieldsOfGraph DEF Woven
  <2>3. DOMAIN g.edges[id] = EdgeFields
    BY <1>3 DEF Woven
  <2>4. /\ DOMAIN a.g.edges = DOMAIN g.edges
        /\ \A e \in DOMAIN g.edges \ {id} : a.g.edges[e] = g.edges[e]
        /\ DOMAIN a.g.edges[id] = EdgeFields
        /\ \A f \in EdgeFields \ {"evidence", "provenance", "confidence"} :
             a.g.edges[id][f] = g.edges[id][f]
        /\ a.g.edges[id].provenance = g.edges[id].provenance \cup edge.provenance
    <3> DEFINE old == g.edges[id]
               new == [old EXCEPT !.evidence = @ \cup edge.evidence,
                                  !.provenance = @ \cup edge.provenance,
                                  !.confidence = Lesser(@, edge.confidence)]
    <3>1. a.g.edges = [g.edges EXCEPT ![id] = new]
      BY <1>3, <2>2
    <3>2. /\ DOMAIN new = EdgeFields /\ new.provenance = old.provenance \cup edge.provenance
          /\ \A f \in EdgeFields \ {"evidence", "provenance", "confidence"} : new[f] = old[f]
      BY <2>3 DEF EdgeFields
    <3> HIDE DEF new
    <3> QED BY <1>3, <3>1, <3>2
  <2>5. /\ a.g.edges[id].up = g.edges[id].up
        /\ a.g.edges[id].down = g.edges[id].down
    BY <2>4 DEF EdgeFields
  <2>6. Woven(a.g)
    <3>1. \A e \in DOMAIN a.g.edges :
            DOMAIN a.g.edges[e] = EdgeFields
              /\ {a.g.edges[e].up, a.g.edges[e].down} \subseteq DOMAIN a.g.nodes
      BY <1>01, <1>3, <2>4, <2>5 DEF Woven
    <3> QED BY <1>0, <1>01, <2>2, <2>4, <3>1 DEF Woven
  <2>7. Observers(a.g.edges[id].provenance) = Observers(g.edges[id].provenance)
    BY <1>3, <2>4 DEF SameEdge, Observers
  <2>8. \A z : DOMAIN z = EdgeFields /\ SameEdge(g.edges[id], z) => SameEdge(a.g.edges[id], z)
    <3>1. ASSUME NEW z, SameEdge(g.edges[id], z)
          PROVE  \A f \in EdgeFields \ {"evidence", "confidence", "provenance"} :
                   a.g.edges[id][f] = z[f]
      BY <2>3, <2>4, <3>1 DEF SameEdge, Same
    <3> QED BY <2>4, <2>7, <3>1 DEF SameEdge, Same
  <2>9. ASSUME NEW Z, Uncontested(g.edges, g.badEdges, Z), NEW z \in Z \cup {edge}
        PROVE  /\ DOMAIN z = EdgeFields /\ z.id \in DOMAIN a.g.edges \cup a.g.badEdges
               /\ z.id \in DOMAIN a.g.edges => SameEdge(a.g.edges[z.id], z)
    <3>1. CASE z = edge
      BY <1>3, <2>4, <2>8, <3>1
    <3>2. CASE z \in Z
      BY <1>3, <2>2, <2>4, <2>8, <2>9, <3>2 DEF Uncontested
    <3> QED BY <2>9, <3>1, <3>2
  <2> QED BY <1>01, <2>6, <2>9 DEF Uncontested
<1>4. CASE id \notin g.badEdges /\ id \in DOMAIN g.edges /\ ~SameEdge(g.edges[id], edge)
  <2>1. a.g = [g EXCEPT !.edges = Without(@, {id}), !.badEdges = @ \cup {id}]
    BY <1>4 DEF AddEdge
  <2>2. a.g.edges = Without(g.edges, {id}) /\ a.g.badEdges = g.badEdges \cup {id}
    BY <2>1, FieldsOfGraph DEF Woven
  <2>3. /\ DOMAIN a.g.edges = DOMAIN g.edges \ {id}
        /\ \A e \in DOMAIN g.edges \ {id} : a.g.edges[e] = g.edges[e]
    BY <2>2 DEF Without, Restrict
  <2>4. IsFiniteSet(DOMAIN a.g.edges)
    BY <2>3, FS_Subset DEF Woven
  <2>5. Woven(a.g)
    BY <1>0, <1>01, <1>4, <2>2, <2>3, <2>4 DEF Woven
  <2>6. ASSUME NEW Z, Uncontested(g.edges, g.badEdges, Z), NEW z \in Z \cup {edge}
        PROVE  /\ DOMAIN z = EdgeFields /\ z.id \in DOMAIN a.g.edges \cup a.g.badEdges
               /\ z.id \in DOMAIN a.g.edges => SameEdge(a.g.edges[z.id], z)
    <3>1. CASE z = edge
      BY <2>2, <2>3, <3>1
    <3>2. CASE z \in Z
      BY <2>2, <2>3, <2>6, <3>2 DEF Uncontested
    <3> QED BY <2>6, <3>1, <3>2
  <2> QED BY <1>01, <2>5, <2>6 DEF Uncontested
<1> QED BY <1>1, <1>2, <1>3, <1>4

\* What is connected stays woven: an edge leads from node to node.
LEMMA MarkWoven ==
  ASSUME NEW g, Woven(g), NEW s
  PROVE  Woven(Mark(g, s))
<1>1. Changes(Mark(g, s), g, {"status"})
  BY MarkChanges DEF Woven
<1> QED BY <1>1, FieldsOfGraph DEF Woven, Changes

\* Connecting two nodes that are there leaves the graph woven.
LEMMA ConnectWoven ==
  ASSUME NEW g, Woven(g), NEW up \in DOMAIN g.nodes, NEW down \in DOMAIN g.nodes,
         NEW kind, NEW source, NEW relation, NEW confidence, NEW silent
  PROVE  Woven(Connect(g, up, down, kind, source, relation, confidence, silent))
<1> DEFINE edge == MakeEdge(g, up, down, kind, source, relation, confidence)
           a == AddEdge(g, edge)
<1>1. DOMAIN edge = EdgeFields /\ {edge.up, edge.down} \subseteq DOMAIN g.nodes
  BY DEF MakeEdge, EdgeFields
<1> HIDE DEF edge
<1>2. Woven(a.g)
  BY <1>1, AddEdgeCases
<1>3. Woven(Mark(a.g, source)) /\ Woven(Mark(g, source))
  BY <1>2, MarkWoven
<1> QED BY <1>2, <1>3 DEF Connect, edge

-----------------------------------------------------------------------------
(***************************************************************************)
(* What the records describe                                               *)
(***************************************************************************)

\* What a record describes depends on the evidence of the graph alone.
Only(ids) == [evidence |-> ids]

OfEnvironment(g, e) == <<EnvironmentId(e.env), EnvironmentNode(g, e)>>
OfResource(g, r) == <<ResourceId(r), ResourceNode(r, ResourceEvidence(g, r))>>
OfCloud(g, r) == <<CloudId(r), CloudNode(g, r)>>

DescribedBy(g, A, R, C) ==
  {OfEnvironment(Only(g.evidence), e) : e \in {x \in A : Placed(Only(g.evidence), x)}}
    \cup {OfResource(Only(g.evidence), r) : r \in {x \in R : Derivable(Only(g.evidence), x)}}
    \cup {OfCloud(Only(g.evidence), r) : r \in {x \in C : Anchored(g, x)}}

\* Which evidence is preferred depends on the evidence of the graph alone,
LEMMA PreferredByEvidence ==
  ASSUME NEW g, NEW source, NEW hints
  PROVE  Preferred(g, source, hints) = Preferred(Only(g.evidence), source, hints)
BY DEF Preferred, Naming, Only

\* and so does what a record describes, whatever the graph holds by then.
LEMMA ByEvidence ==
  ASSUME NEW g, NEW r
  PROVE  /\ Placed(g, r) <=> Placed(Only(g.evidence), r)
         /\ OfEnvironment(g, r) = OfEnvironment(Only(g.evidence), r)
         /\ Derivable(g, r) <=> Derivable(Only(g.evidence), r)
         /\ OfResource(g, r) = OfResource(Only(g.evidence), r)
         /\ OfCloud(g, r) = OfCloud(Only(g.evidence), r)
<1> DEFINE o == Only(g.evidence)
<1>0. \A s, hints : Preferred(g, s, hints) = Preferred(o, s, hints)
  BY PreferredByEvidence
<1>1. \A ids : Admitted(g, ids) <=> Admitted(o, ids)
  BY DEF Admitted, Only
<1> HIDE DEF o
<1>2. EnvironmentEvidence(g, r) = EnvironmentEvidence(o, r)
  BY <1>0 DEF EnvironmentEvidence
<1>3. Placed(g, r) <=> Placed(o, r)
  BY <1>1, <1>2 DEF Placed
<1>4. EnvironmentNode(g, r) = EnvironmentNode(o, r)
  BY <1>1, <1>2 DEF EnvironmentNode
<1>5. ResourceEvidence(g, r) = ResourceEvidence(o, r)
  BY <1>0 DEF ResourceEvidence
<1>6. Derivable(g, r) <=> Derivable(o, r)
  BY <1>5 DEF Derivable
<1>7. CloudNode(g, r) = CloudNode(o, r)
  BY <1>0 DEF CloudNode
<1> QED BY <1>3, <1>4, <1>5, <1>6, <1>7 DEF OfEnvironment, OfResource, OfCloud, o

\* Two graphs with the same evidence and the same environments.
Alike(h, g) ==
  h.evidence = g.evidence /\ \A env : HasEnvironment(h, env) <=> HasEnvironment(g, env)

\* What records describe is the same in graphs with the same evidence and
\* environments.
LEMMA DescribedAlike ==
  ASSUME NEW g, NEW h, NEW A, NEW R, NEW C, h.evidence = g.evidence, C = {} \/ Alike(h, g)
  PROVE  DescribedBy(h, A, R, C) = DescribedBy(g, A, R, C)
<1>1. {x \in C : Anchored(h, x)} = {x \in C : Anchored(g, x)}
  <2>1. CASE C = {}
    BY <2>1
  <2>2. CASE Alike(h, g)
    <3>1. \A x : Anchored(h, x) <=> Anchored(g, x)
      BY <2>2, PreferredByEvidence DEF Alike, Anchored
    <3> QED BY <3>1
  <2> QED BY <2>1, <2>2
<1> QED BY <1>1 DEF DescribedBy

\* One more environment describes one node more, or none;
LEMMA EnvironmentDescribed ==
  ASSUME NEW g, NEW A, NEW R, NEW C, NEW x
  PROVE  DescribedBy(g, A \cup {x}, R, C) = DescribedBy(g, A, R, C) \cup IF Placed(g, x) THEN {OfEnvironment(g, x)} ELSE {}
<1> DEFINE o == Only(g.evidence)
<1>1. (Placed(g, x) <=> Placed(o, x)) /\ OfEnvironment(g, x) = OfEnvironment(o, x)
  BY ByEvidence
<1> HIDE DEF o
<1>2. {OfEnvironment(o, e) : e \in {y \in A \cup {x} : Placed(o, y)}}
        = {OfEnvironment(o, e) : e \in {y \in A : Placed(o, y)}} \cup IF Placed(g, x) THEN {OfEnvironment(g, x)} ELSE {}
  BY <1>1
<1> QED BY <1>2 DEF DescribedBy, o

\* so does one more resource,
LEMMA ResourceDescribed ==
  ASSUME NEW g, NEW A, NEW R, NEW C, NEW x
  PROVE  DescribedBy(g, A, R \cup {x}, C) = DescribedBy(g, A, R, C) \cup IF Derivable(g, x) THEN {OfResource(g, x)} ELSE {}
<1> DEFINE o == Only(g.evidence)
<1>1. (Derivable(g, x) <=> Derivable(o, x)) /\ OfResource(g, x) = OfResource(o, x)
  BY ByEvidence
<1> HIDE DEF o
<1>2. {OfResource(o, e) : e \in {y \in R \cup {x} : Derivable(o, y)}}
        = {OfResource(o, e) : e \in {y \in R : Derivable(o, y)}} \cup IF Derivable(g, x) THEN {OfResource(g, x)} ELSE {}
  BY <1>1
<1> QED BY <1>2 DEF DescribedBy, o

\* and one more resource of a cloud.
LEMMA CloudDescribed ==
  ASSUME NEW g, NEW A, NEW R, NEW C, NEW x
  PROVE  DescribedBy(g, A, R, C \cup {x}) = DescribedBy(g, A, R, C) \cup IF Anchored(g, x) THEN {OfCloud(g, x)} ELSE {}
<1> DEFINE o == Only(g.evidence)
<1>1. (Anchored(g, x) <=> Anchored(g, x)) /\ OfCloud(g, x) = OfCloud(o, x)
  BY ByEvidence
<1> HIDE DEF o
<1>2. {OfCloud(o, e) : e \in {y \in C \cup {x} : Anchored(g, y)}}
        = {OfCloud(o, e) : e \in {y \in C : Anchored(g, y)}} \cup IF Anchored(g, x) THEN {OfCloud(g, x)} ELSE {}
  BY <1>1
<1> QED BY <1>2 DEF DescribedBy, o

\* What changes neither nodes nor edges nor names changes nothing of these.
Aside == {"status", "incidents", "attempts", "bound", "resourceNodes", "badResources", "k8s"}

\* A change aside from the nodes and edges leaves them what they are.
LEMMA AsideKeeps ==
  ASSUME NEW g, Woven(g), NEW h, NEW F, F \subseteq Aside, Changes(h, g, F)
  PROVE  /\ Woven(h) /\ Alike(h, g)
         /\ h.nodes = g.nodes /\ h.badNodes = g.badNodes /\ h.evidence = g.evidence
         /\ h.edges = g.edges /\ h.badEdges = g.badEdges
<1>1. /\ DOMAIN h = GraphFields
      /\ \A f \in {"nodes", "badNodes", "evidence", "edges", "badEdges", "lookup"} : h[f] = g[f]
  BY FieldsOfGraph DEF Changes, Aside
<1>2. /\ h.nodes = g.nodes /\ h.badNodes = g.badNodes /\ h.evidence = g.evidence
      /\ h.edges = g.edges /\ h.badEdges = g.badEdges /\ h.lookup = g.lookup
  BY <1>1
<1> QED BY <1>1, <1>2 DEF Woven, Alike, HasEnvironment

\* Marking a source is such a change.
LEMMA MarkKeeps ==
  ASSUME NEW g, Woven(g), NEW s, NEW h, h = Mark(g, s)
  PROVE  /\ Woven(h) /\ Alike(h, g)
         /\ h.nodes = g.nodes /\ h.badNodes = g.badNodes /\ h.evidence = g.evidence
         /\ h.edges = g.edges /\ h.badEdges = g.badEdges
<1>1. Changes(h, g, {"status"}) /\ {"status"} \subseteq Aside
  BY MarkChanges DEF Woven, Aside
<1> QED BY <1>1, AsideKeeps

\* Names of nodes that are there may be added.
NamedIn(g, names) == [g EXCEPT !.lookup = @ \cup names]

\* Names of nodes that are there leave the graph woven.
LEMMA NamedWoven ==
  ASSUME NEW g, Woven(g), NEW names, \A l \in names : l.node \in DOMAIN g.nodes,
         NEW h, h = NamedIn(g, names)
  PROVE  /\ Woven(h) /\ h.nodes = g.nodes /\ h.badNodes = g.badNodes /\ h.evidence = g.evidence
         /\ h.edges = g.edges /\ h.badEdges = g.badEdges
<1>1. /\ DOMAIN h = GraphFields /\ h.nodes = g.nodes /\ h.badNodes = g.badNodes
      /\ h.evidence = g.evidence /\ h.edges = g.edges /\ h.badEdges = g.badEdges
      /\ h.lookup = g.lookup \cup names
  BY FieldsOfGraph DEF Woven, NamedIn
<1> QED BY <1>1 DEF Woven

\* What deriving an environment takes in is what the environment describes.
LEMMA DeriveEnvironmentTakes ==
  ASSUME NEW g, Woven(g), NEW D, Agreeing(g.nodes, g.badNodes, D), NEW e,
         NEW h, h = DeriveEnvironment(g, e)
  PROVE  /\ Woven(h) /\ h.evidence = g.evidence
         /\ Agreeing(h.nodes, h.badNodes,
              D \cup IF Placed(g, e) THEN {OfEnvironment(g, e)} ELSE {})
<1> DEFINE marked == IF Admitted(g, e.count) THEN g ELSE Mark(g, "cloud")
           id == EnvironmentId(e.env)
           node == EnvironmentNode(g, e)
           added == AddNode(marked, id, node)
           names == {Look(e.env, "environment", <<e.env>>, id)}
           named == NamedIn(added.g, names)
<1>1. /\ Woven(marked) /\ marked.nodes = g.nodes /\ marked.badNodes = g.badNodes
      /\ marked.evidence = g.evidence
  BY MarkKeeps
<1>2. DOMAIN node = NodeFields
  BY DEF EnvironmentNode, NodeFields
<1>3. \A l \in names : l.node = id
  BY DEF Look
<1>4. h = IF ~Placed(g, e) THEN Mark(g, "cloud")
          ELSE IF ~added.taken THEN Mark(added.g, "cloud") ELSE named
  BY DEF DeriveEnvironment, NamedIn
<1>5. OfEnvironment(g, e) = <<id, node>>
  BY DEF OfEnvironment
<1> HIDE DEF marked, id, node, names
<1>8. added = AddNode(marked, id, node)
  OBVIOUS
<1>9. DOMAIN marked = GraphFields /\ Agreeing(marked.nodes, marked.badNodes, D)
  BY <1>1 DEF Woven
<1> HIDE DEF added
<1>6. CASE ~Placed(g, e)
  <2>1. /\ Woven(h) /\ h.nodes = g.nodes /\ h.badNodes = g.badNodes /\ h.evidence = g.evidence
    BY <1>4, <1>6, MarkKeeps
  <2>2. D \cup {} = D
    OBVIOUS
  <2> QED BY <1>6, <2>1, <2>2
<1>7. CASE Placed(g, e)
  <2>0. Agreeing(added.g.nodes, added.g.badNodes, D \cup {<<id, node>>})
    BY <1>2, <1>8, <1>9, AddNodeAgrees
  <2>01. added.g.evidence = marked.evidence
    BY <1>8, <1>9, AddNodeKeeps
  <2>1. /\ Agreeing(added.g.nodes, added.g.badNodes, D \cup {<<id, node>>})
        /\ added.g.evidence = g.evidence
    BY <1>1, <2>0, <2>01
  <2>2. Woven(added.g) /\ (added.taken => id \in DOMAIN added.g.nodes)
    BY <1>1, <1>8, AddNodeWoven
  <2>3. CASE ~added.taken
    <3>1. h = Mark(added.g, "cloud")
      BY <1>4, <1>7, <2>3
    <3> QED BY <1>5, <1>7, <2>1, <2>2, <3>1, MarkKeeps
  <2>4. CASE added.taken
    <3>1. h = named
      BY <1>4, <1>7, <2>4
    <3>2. \A l \in names : l.node \in DOMAIN added.g.nodes
      BY <1>3, <2>2, <2>4
    <3>3. Woven(h) /\ h.nodes = added.g.nodes /\ h.badNodes = added.g.badNodes /\ h.evidence = added.g.evidence
      BY <2>2, <3>1, <3>2, NamedWoven
    <3> QED BY <1>5, <1>7, <2>1, <3>3
  <2> QED BY <2>3, <2>4
<1> QED BY <1>6, <1>7

\* Environments have identifiers of their own.
LEMMA IdsApart ==
  ASSUME NEW r, NEW env
  PROVE  ResourceId(r) # EnvironmentId(env) /\ CloudId(r) # EnvironmentId(env)
BY DEF ResourceId, CloudId, EnvironmentId

\* The same of a resource, which then claims its names.
LEMMA DeriveResourceTakes ==
  ASSUME NEW g, Woven(g), NEW D, Agreeing(g.nodes, g.badNodes, D), NEW r,
         NEW h, h = DeriveResource(g, r)
  PROVE  /\ Woven(h) /\ Alike(h, g)
         /\ Agreeing(h.nodes, h.badNodes,
              D \cup IF Derivable(g, r) THEN {OfResource(g, r)} ELSE {})
<1> DEFINE source == Cluster(r.env)
           id == ResourceId(r)
           evidence == ResourceEvidence(g, r)
           counts == IF r.replicas = "invalid" THEN Mark(g, source) ELSE g
           node == ResourceNode(r, evidence)
           added == AddNode(counts, id, node)
           kind == KubernetesKinds[r.kind]
           found == {Look(r.env, kind, n, id) : n \in {FullName(r), <<r.name>>}}
           named == NamedIn(added.g, found)
           claimed == ClaimResource(named, r.resource, id, source)
<1>1. /\ Woven(counts) /\ counts.nodes = g.nodes /\ counts.badNodes = g.badNodes
      /\ counts.evidence = g.evidence
  BY MarkKeeps
<1>2. DOMAIN node = NodeFields
  BY DEF ResourceNode, NodeFields
<1>3. \A l \in found : l.node = id
  BY DEF Look
<1>4. h = IF ~Derivable(g, r) THEN Mark(g, source)
          ELSE IF ~added.taken THEN Mark(added.g, source)
          ELSE [claimed EXCEPT !.k8s = With(@, id, r)]
  BY DEF DeriveResource, NamedIn
<1>5. OfResource(g, r) = <<id, node>> /\ \A env : id # EnvironmentId(env)
  BY IdsApart DEF OfResource
<1> HIDE DEF counts, id, node, found, source
<1>8. added = AddNode(counts, id, node)
  OBVIOUS
<1>9. DOMAIN counts = GraphFields /\ Agreeing(counts.nodes, counts.badNodes, D)
  BY <1>1 DEF Woven
<1> HIDE DEF added
<1>6. CASE ~Derivable(g, r)
  <2>1. /\ Woven(h) /\ h.nodes = g.nodes /\ h.badNodes = g.badNodes /\ Alike(h, g)
    BY <1>4, <1>6, MarkKeeps
  <2>2. D \cup {} = D
    OBVIOUS
  <2> QED BY <1>6, <2>1, <2>2
<1>7. CASE Derivable(g, r)
  <2>0. Agreeing(added.g.nodes, added.g.badNodes, D \cup {<<id, node>>})
    BY <1>2, <1>8, <1>9, AddNodeAgrees
  <2>01. /\ added.g.evidence = counts.evidence
         /\ DOMAIN counts.nodes \ {id} = DOMAIN added.g.nodes \ {id}
    BY <1>8, <1>9, AddNodeKeeps
  <2>1. /\ Agreeing(added.g.nodes, added.g.badNodes, D \cup {<<id, node>>})
        /\ added.g.evidence = g.evidence
        /\ DOMAIN g.nodes \ {id} = DOMAIN added.g.nodes \ {id}
    BY <1>1, <2>0, <2>01
  <2>2. Woven(added.g) /\ (added.taken => id \in DOMAIN added.g.nodes)
    BY <1>1, <1>8, AddNodeWoven
  <2>3. Alike(added.g, g)
    BY <1>5, <2>1 DEF Alike, HasEnvironment
  <2>4. CASE ~added.taken
    <3>1. h = Mark(added.g, source)
      BY <1>4, <1>7, <2>4
    <3>2. /\ Woven(h) /\ Alike(h, added.g) /\ h.nodes = added.g.nodes /\ h.badNodes = added.g.badNodes
      BY <2>2, <3>1, MarkKeeps
    <3>3. Alike(h, g)
      BY <2>3, <3>2 DEF Alike
    <3> QED BY <1>5, <1>7, <2>1, <3>2, <3>3
  <2>5. CASE added.taken
    <3>1. h = [claimed EXCEPT !.k8s = With(@, id, r)]
      BY <1>4, <1>7, <2>5
    <3>0. \A l \in found : l.node \in DOMAIN added.g.nodes
      BY <1>3, <2>2, <2>5
    <3>01. named = NamedIn(added.g, found)
      OBVIOUS
    <3> HIDE DEF named
    <3>2. /\ Woven(named) /\ named.nodes = added.g.nodes /\ named.badNodes = added.g.badNodes
          /\ named.evidence = added.g.evidence
      BY <2>2, <3>0, <3>01, NamedWoven
    <3>3. Changes(claimed, named, {"resourceNodes", "badResources", "status"})
      BY <3>2, ClaimResourceChanges DEF Woven
    <3> HIDE DEF claimed
    <3>4. Changes(h, claimed, {"k8s"})
      BY <3>1, <3>3, FieldsOfGraph DEF Changes
    <3>5. Changes(h, named, Aside)
      BY <3>3, <3>4 DEF Changes, Aside
    <3>6. /\ Woven(h) /\ h.nodes = named.nodes /\ h.badNodes = named.badNodes /\ h.evidence = named.evidence
      BY <3>2, <3>5, AsideKeeps
    <3>7. Alike(h, g)
      BY <2>3, <3>2, <3>6 DEF Alike, HasEnvironment
    <3> QED BY <1>5, <1>7, <2>1, <3>2, <3>6, <3>7
  <2> QED BY <2>4, <2>5
<1> QED BY <1>6, <1>7

\* What connects two nodes changes no node.
LEMMA WebKeeps ==
  ASSUME NEW g, NEW h, Changes(h, g, WebFields)
  PROVE  h.nodes = g.nodes /\ h.badNodes = g.badNodes /\ h.evidence = g.evidence /\ Alike(h, g)
<1>1. \A f \in {"nodes", "badNodes", "evidence"} : h[f] = g[f]
  BY FieldsOfGraph DEF Changes, WebFields
<1> QED BY <1>1 DEF Alike, HasEnvironment

\* The same of a resource of a cloud, which is then connected.
LEMMA DeriveCloudTakes ==
  ASSUME NEW g, Woven(g), NEW D, Agreeing(g.nodes, g.badNodes, D), NEW r,
         NEW h, h = DeriveCloud(g, r)
  PROVE  /\ Woven(h) /\ Alike(h, g)
         /\ Agreeing(h.nodes, h.badNodes,
              D \cup IF Anchored(g, r) THEN {OfCloud(g, r)} ELSE {})
<1> DEFINE id == CloudId(r)
           node == CloudNode(g, r)
           added == AddNode(g, id, node)
           found == {Look(r.env, r.kind, <<r.name>>, id)}
           named == NamedIn(added.g, found)
           env == EnvironmentId(r.env)
<1>2. DOMAIN node = NodeFields
  BY DEF CloudNode, NodeFields
<1>3. \A l \in found : l.node = id
  BY DEF Look
<1>4. h = IF ~Anchored(g, r) THEN Mark(g, "cloud")
          ELSE IF ~added.taken THEN Mark(added.g, "cloud")
          ELSE Connect(named, env, id, "contains", "cloud", "contains", 10, TRUE)
  BY DEF DeriveCloud, NamedIn
<1>5. OfCloud(g, r) = <<id, node>> /\ \A e : id # EnvironmentId(e)
  BY IdsApart DEF OfCloud
<1>55. Anchored(g, r) => env \in DOMAIN g.nodes
  BY DEF Anchored, HasEnvironment
<1> HIDE DEF id, node, found
<1>8. added = AddNode(g, id, node)
  OBVIOUS
<1>9. DOMAIN g = GraphFields
  BY DEF Woven
<1> HIDE DEF added
<1>6. CASE ~Anchored(g, r)
  <2>1. /\ Woven(h) /\ h.nodes = g.nodes /\ h.badNodes = g.badNodes /\ Alike(h, g)
    BY <1>4, <1>6, MarkKeeps
  <2>2. D \cup {} = D
    OBVIOUS
  <2> QED BY <1>6, <2>1, <2>2
<1>7. CASE Anchored(g, r)
  <2>0. Agreeing(added.g.nodes, added.g.badNodes, D \cup {<<id, node>>})
    BY <1>2, <1>8, <1>9, AddNodeAgrees
  <2>01. /\ added.g.evidence = g.evidence
         /\ DOMAIN g.nodes \ {id} = DOMAIN added.g.nodes \ {id}
    BY <1>8, <1>9, AddNodeKeeps
  <2>1. /\ Agreeing(added.g.nodes, added.g.badNodes, D \cup {<<id, node>>})
        /\ added.g.evidence = g.evidence
        /\ DOMAIN g.nodes \ {id} = DOMAIN added.g.nodes \ {id}
    BY <2>0, <2>01
  <2>2. Woven(added.g) /\ (added.taken => id \in DOMAIN added.g.nodes)
    BY <1>8, AddNodeWoven
  <2>3. Alike(added.g, g)
    BY <1>5, <2>1 DEF Alike, HasEnvironment
  <2>35. env \in DOMAIN added.g.nodes
    BY <1>5, <1>55, <1>7, <2>1
  <2>4. CASE ~added.taken
    <3>1. h = Mark(added.g, "cloud")
      BY <1>4, <1>7, <2>4
    <3>2. /\ Woven(h) /\ Alike(h, added.g) /\ h.nodes = added.g.nodes /\ h.badNodes = added.g.badNodes
      BY <2>2, <3>1, MarkKeeps
    <3>3. Alike(h, g)
      BY <2>3, <3>2 DEF Alike
    <3> QED BY <1>5, <1>7, <2>1, <3>2, <3>3
  <2>5. CASE added.taken
    <3>1. h = Connect(named, env, id, "contains", "cloud", "contains", 10, TRUE)
      BY <1>4, <1>7, <2>5
    <3> HIDE DEF env
    <3>0. \A l \in found : l.node \in DOMAIN added.g.nodes
      BY <1>3, <2>2, <2>5
    <3>01. named = NamedIn(added.g, found)
      OBVIOUS
    <3> HIDE DEF named
    <3>2. /\ Woven(named) /\ named.nodes = added.g.nodes /\ named.badNodes = added.g.badNodes
          /\ named.evidence = added.g.evidence
      BY <2>2, <3>0, <3>01, NamedWoven
    <3>3. Woven(h)
      BY <2>2, <2>35, <2>5, <3>1, <3>2, ConnectWoven
    <3>35. DOMAIN named = GraphFields
      BY <3>2 DEF Woven
    <3>4. Changes(h, named, WebFields)
      BY <3>1, <3>35, ConnectChanges
    <3>5. h.nodes = named.nodes /\ h.badNodes = named.badNodes /\ h.evidence = named.evidence
      BY <3>4, WebKeeps
    <3>6. Alike(h, g)
      BY <2>3, <3>2, <3>5 DEF Alike, HasEnvironment
    <3> QED BY <1>5, <1>7, <2>1, <3>2, <3>3, <3>5, <3>6
  <2> QED BY <2>4, <2>5
<1> QED BY <1>6, <1>7

-----------------------------------------------------------------------------
(***************************************************************************)
(* A graph into which some records have been taken                         *)
(***************************************************************************)
Core(f) == [k \in DOMAIN f \ {"sound", "order"} |-> f[k]]
Cores(g, F) == {Core(f) : f \in {x \in F : Joins(g, x)}}

\* The graph after the environments A, the resources R, the clouds C and the
\* fixture edges F, whatever their order.
Settled(g, A, R, C, F) ==
  /\ Woven(g)
  /\ Agreeing(g.nodes, g.badNodes, DescribedBy(g, A, R, C))
  /\ Uncontested(g.edges, g.badEdges, Cores(g, F))

\* The same nodes under the same identities, and the same edges.
Undisturbed(h, g) ==
  /\ Woven(h)
  /\ h.evidence = g.evidence
  /\ h.edges = g.edges /\ h.badEdges = g.badEdges /\ h.badNodes = g.badNodes
  /\ DOMAIN h.nodes = DOMAIN g.nodes
  /\ \A n \in DOMAIN g.nodes :
       DOMAIN g.nodes[n] = NodeFields =>
         /\ DOMAIN h.nodes[n] = NodeFields
         /\ \A f \in NodeFields \ {"evidence", "owner"} : h.nodes[n][f] = g.nodes[n][f]

\* What disturbs no node in what is compared leaves the graph settled.
LEMMA UndisturbedSettled ==
  ASSUME NEW g, NEW A, NEW R, NEW C, NEW F, Settled(g, A, R, C, F),
         NEW h, Undisturbed(h, g)
  PROVE  Settled(h, A, R, C, F) /\ Alike(h, g)
<1> DEFINE D == DescribedBy(g, A, R, C)
<1>1. Alike(h, g)
  BY DEF Alike, HasEnvironment, Undisturbed
<1>2. DescribedBy(h, A, R, C) = D
  BY <1>1, DescribedAlike DEF Undisturbed
<1>3. Cores(h, F) = Cores(g, F)
  <2>1. \A x : Joins(h, x) <=> Joins(g, x)
    BY DEF Joins, Admitted, Undisturbed
  <2> QED BY <2>1 DEF Cores
<1>4. Agreeing(g.nodes, g.badNodes, D)
  BY DEF Settled
<1> HIDE DEF D
<1>5. Agreeing(h.nodes, h.badNodes, D)
  <2>1. \A n \in DOMAIN g.nodes : DOMAIN g.nodes[n] = NodeFields /\ DOMAIN h.nodes[n] = NodeFields
    BY <1>4 DEF Agreeing, Undisturbed
  <2>2. \A n \in DOMAIN g.nodes : \A z : SameNode(g.nodes[n], z) => SameNode(h.nodes[n], z)
    BY <2>1 DEF Undisturbed, SameNode, Same
  <2>3. DOMAIN h.nodes = DOMAIN g.nodes /\ h.badNodes = g.badNodes
    BY DEF Undisturbed
  <2> QED BY <1>4, <2>1, <2>2, <2>3 DEF Agreeing
<1>6. Uncontested(h.edges, h.badEdges, Cores(g, F))
  BY DEF Undisturbed, Settled
<1> QED BY <1>1, <1>2, <1>3, <1>5, <1>6 DEF Settled, Undisturbed

\* A change aside from the nodes disturbs none.
LEMMA AsideUndisturbed ==
  ASSUME NEW g, Woven(g), NEW h, NEW F, F \subseteq Aside, Changes(h, g, F)
  PROVE  Undisturbed(h, g)
BY AsideKeeps DEF Undisturbed

\* Marking a source disturbs none.
LEMMA MarkUndisturbed ==
  ASSUME NEW g, Woven(g), NEW s
  PROVE  Undisturbed(Mark(g, s), g)
BY MarkKeeps DEF Undisturbed

\* No change disturbs none.
LEMMA SelfUndisturbed ==
  ASSUME NEW g, Woven(g)
  PROVE  Undisturbed(g, g)
BY DEF Undisturbed

\* Two steps that disturb none disturb none together.
LEMMA UndisturbedTwice ==
  ASSUME NEW g, NEW h, NEW k, Undisturbed(h, g), Undisturbed(k, h)
  PROVE  Undisturbed(k, g)
BY DEF Undisturbed

\* Loading a status disturbs none.
LEMMA LoadStatusUndisturbed ==
  ASSUME NEW g, Woven(g), NEW s
  PROVE  Undisturbed(LoadStatus(g, s), g)
<1>1. Changes(LoadStatus(g, s), g, {"status"}) /\ {"status"} \subseteq Aside
  BY LoadStatusChanges DEF Woven, Aside
<1> QED BY <1>1, AsideUndisturbed

\* Trying to bind incidents disturbs none.
LEMMA AttemptUndisturbed ==
  ASSUME NEW g, Woven(g), NEW key
  PROVE  Undisturbed(Attempt(g, key), g)
<1>1. Changes(Attempt(g, key), g, {"attempts"}) /\ {"attempts"} \subseteq Aside
  BY FieldsOfGraph DEF Woven, Aside, Attempt, Changes
<1> QED BY <1>1, AsideUndisturbed

\* An observation adds evidence to a node and names its incidents.
LEMMA AttachUndisturbed ==
  ASSUME NEW g, Woven(g), NEW o
  PROVE  Undisturbed(Attach(g, o), g)
<1> DEFINE nodes == IF o.named /\ Known(o.kind) THEN Observed(g, o) ELSE {}
           node == CHOOSE n \in nodes : TRUE
           evidence == Preferred(g, o.channel, o.hints)
           mine == {<<i.id, node>> : i \in {x \in g.incidents : x.source = o.id}}
           richer == [g EXCEPT !.nodes[node].evidence = @ \cup evidence]
           base == IF node \in DOMAIN g.nodes THEN richer ELSE Mark(g, "observability")
           bound == [base EXCEPT !.bound = @ \cup mine]
<1>1. Attach(g, o) \in {Mark(g, "observability"), bound}
  BY DEF Attach
<1>2. Undisturbed(Mark(g, "observability"), g)
  BY MarkUndisturbed
<1> HIDE DEF node, evidence, mine
<1>3. ASSUME node \in DOMAIN g.nodes
      PROVE  Undisturbed(richer, g)
  <2>1. /\ DOMAIN richer = GraphFields
        /\ \A f \in GraphFields \ {"nodes"} : richer[f] = g[f]
        /\ richer.nodes = [g.nodes EXCEPT ![node].evidence = @ \cup evidence]
    BY FieldsOfGraph DEF Woven
  <2> HIDE DEF richer
  <2>2. /\ richer.evidence = g.evidence /\ richer.edges = g.edges /\ richer.badEdges = g.badEdges
        /\ richer.badNodes = g.badNodes /\ richer.lookup = g.lookup
    BY <2>1, FieldsOfGraph
  <2>3. DOMAIN richer.nodes = DOMAIN g.nodes
    BY <2>1
  <2>4. Woven(richer)
    BY <2>1, <2>2, <2>3 DEF Woven
  <2>5. \A n \in DOMAIN g.nodes :
          DOMAIN g.nodes[n] = NodeFields =>
            /\ DOMAIN richer.nodes[n] = NodeFields
            /\ \A f \in NodeFields \ {"evidence", "owner"} : richer.nodes[n][f] = g.nodes[n][f]
    <3>1. \A n \in DOMAIN g.nodes \ {node} : richer.nodes[n] = g.nodes[n]
      BY <2>1
    <3>2. richer.nodes[node] = [g.nodes[node] EXCEPT !.evidence = @ \cup evidence]
      BY <1>3, <2>1
    <3>3. /\ DOMAIN richer.nodes[node] = DOMAIN g.nodes[node]
          /\ DOMAIN g.nodes[node] = NodeFields =>
               \A f \in NodeFields \ {"evidence"} : richer.nodes[node][f] = g.nodes[node][f]
      BY <3>2 DEF NodeFields
    <3> QED BY <3>1, <3>3
  <2> QED BY <2>2, <2>3, <2>4, <2>5 DEF Undisturbed
<1>4. Undisturbed(base, g)
  BY <1>2, <1>3
<1>5. Undisturbed(bound, base)
  <2>1. Woven(base)
    BY <1>4 DEF Undisturbed
  <2> HIDE DEF base
  <2>2. Changes(bound, base, {"bound"}) /\ {"bound"} \subseteq Aside
    BY <2>1, FieldsOfGraph DEF Woven, Aside, Changes
  <2> QED BY <2>1, <2>2, AsideUndisturbed
<1> HIDE DEF base, bound
<1>6. Undisturbed(bound, g)
  BY <1>4, <1>5, UndisturbedTwice
<1> QED BY <1>1, <1>2, <1>6

\* The owner of a node, given all the rules that may be used.
Undisputed(n, node, rules) ==
  LET On(kind) == {r \in rules : r.selector = kind /\ Selects(Selector(r), n, node)}
      highest == IF On("node") # {} THEN On("node") ELSE On("label")
  IN node.owner.team # "none" =>
       /\ \A r \in highest : r.team = node.owner.team
       /\ highest = {} => node.team \in {"none", node.owner.team}
       /\ highest = {} /\ node.team = "none" => \A r \in On("environment") : r.team = node.owner.team

Usable(g, all, team) == {r \in all : Admissible(r, {e.id : e \in g.evidence}, team)}
OwnerIn(g, all, team, n) ==
  Owner(n, g.nodes[n], Standing(Usable(g, all, team)), Rejected(Usable(g, all, team)))

\* A team that rules give consistently is the team of each of them.
LEMMA ConsistentIs ==
  ASSUME NEW rules, rules # {}, Consistent(rules) # Disputed, Consistent(rules).team # "none"
  PROVE  \A r \in rules : r.team = Consistent(rules).team
BY DEF Consistent, Agree, Nobody

\* A node's own team, where the rules do not dispute it, is its owner.
LEMMA OfScopeIs ==
  ASSUME NEW node, NEW rules, OfScope(node, rules) # Disputed, OfScope(node, rules).team # "none"
  PROVE  OfScope(node, rules).team = node.team
BY DEF OfScope, Nobody

\* What every admissible rule on a node stands, when none is rejected there.
LEMMA OwnerUndisputed ==
  ASSUME NEW n, NEW node, NEW adm, NEW o, o = Owner(n, node, Standing(adm), Rejected(adm)),
         o # Disputed, o.team # "none", NEW owned,
         owned.owner = o, owned.labels = node.labels, owned.env = node.env, owned.team = node.team
  PROVE  Undisputed(n, owned, adm)
<1> DEFINE On(kind) == {r \in adm : r.selector = kind /\ Selects(Selector(r), n, owned)}
           Matching(kind) == {r \in Standing(adm) : r.selector = kind /\ Selects(Selector(r), n, node)}
<1>1. \A s : Selects(s, n, owned) <=> Selects(s, n, node)
  BY DEF Selects
<1>2. \A s \in Rejected(adm) : ~Selects(s, n, node)
  BY DEF Owner
<1>3. \A kind : On(kind) = Matching(kind)
  BY <1>1, <1>2 DEF Standing
<1>4. o = IF Matching("node") # {} THEN Consistent(Matching("node"))
          ELSE IF Matching("label") # {} THEN Consistent(Matching("label"))
          ELSE IF node.team # "none" THEN OfScope(node, Standing(adm))
          ELSE IF Matching("environment") # {} THEN Consistent(Matching("environment"))
          ELSE Nobody
  BY <1>2 DEF Owner
<1>5. On("node") = Matching("node") /\ On("label") = Matching("label")
        /\ On("environment") = Matching("environment")
  BY <1>3
<1> DEFINE N == Matching("node")  L == Matching("label")  V == Matching("environment")
           highest == IF N # {} THEN N ELSE L
<1> HIDE DEF Matching
<1>6. /\ \A r \in highest : r.team = o.team
      /\ highest = {} => node.team \in {"none", o.team}
      /\ highest = {} /\ node.team = "none" => \A r \in V : r.team = o.team
  <2>1. CASE N # {}
    BY <1>4, <2>1, ConsistentIs
  <2>2. CASE N = {} /\ L # {}
    BY <1>4, <2>2, ConsistentIs
  <2>3. CASE N = {} /\ L = {} /\ node.team # "none"
    BY <1>4, <2>3, OfScopeIs
  <2>4. CASE N = {} /\ L = {} /\ node.team = "none"
    <3>1. V # {} => o = Consistent(V)
      BY <1>4, <2>4
    <3> QED BY <2>4, <3>1, ConsistentIs
  <2> QED BY <2>1, <2>2, <2>3, <2>4
<1> HIDE DEF N, L, V
<1>7. On("node") = N /\ On("label") = L /\ On("environment") = V
  BY <1>5 DEF N, L, V
<1> QED BY <1>6, <1>7 DEF Undisputed

\* Owning gives every node an owner and changes nothing else of it.
LEMMA OwnUndisturbed ==
  ASSUME NEW g, Woven(g), \A n \in DOMAIN g.nodes : DOMAIN g.nodes[n] = NodeFields,
         NEW all, NEW team, NEW h, h = ResolveOwnership(g, all, team)
  PROVE  /\ Undisturbed(h, g)
         /\ \A n \in DOMAIN h.nodes : Undisputed(n, h.nodes[n], Usable(h, all, team))
<1> DEFINE adm == Usable(g, all, team)
           owner == [n \in DOMAIN g.nodes |-> Owner(n, g.nodes[n], Standing(adm), Rejected(adm))]
           nodes == [n \in DOMAIN g.nodes |->
                       [g.nodes[n] EXCEPT !.owner = IF owner[n] = Disputed THEN Nobody ELSE owner[n]]]
           owned == [g EXCEPT !.nodes = nodes]
<1>1. h \in {owned, Mark(owned, "ownership")}
  BY DEF ResolveOwnership, Usable
<1> HIDE DEF owner
<1>2. /\ \A n \in DOMAIN g.nodes : owner[n] = Owner(n, g.nodes[n], Standing(adm), Rejected(adm))
  BY DEF owner
<1>3. DOMAIN nodes = DOMAIN g.nodes
  OBVIOUS
<1>4. ASSUME NEW n \in DOMAIN g.nodes
      PROVE  /\ DOMAIN nodes[n] = NodeFields
             /\ nodes[n].owner = IF owner[n] = Disputed THEN Nobody ELSE owner[n]
             /\ \A f \in NodeFields \ {"owner"} : nodes[n][f] = g.nodes[n][f]
  BY DEF NodeFields
<1> HIDE DEF nodes, adm
<1>5. /\ DOMAIN owned = GraphFields /\ owned.nodes = nodes
      /\ \A f \in GraphFields \ {"nodes"} : owned[f] = g[f]
  BY FieldsOfGraph DEF Woven
<1> HIDE DEF owned
<1>6. /\ owned.evidence = g.evidence /\ owned.edges = g.edges /\ owned.badEdges = g.badEdges
      /\ owned.badNodes = g.badNodes /\ owned.lookup = g.lookup
  BY <1>5, FieldsOfGraph
<1>7. Woven(owned)
  BY <1>3, <1>5, <1>6 DEF Woven
<1>8. Undisturbed(owned, g)
  BY <1>3, <1>4, <1>5, <1>6, <1>7 DEF Undisturbed
<1>9. h.nodes = nodes /\ h.evidence = g.evidence /\ Undisturbed(h, g)
  <2>1. CASE h = owned
    BY <1>5, <1>6, <1>8, <2>1
  <2>2. CASE h = Mark(owned, "ownership")
    <3>1. h.nodes = owned.nodes /\ h.evidence = owned.evidence /\ Undisturbed(h, owned)
      BY <1>7, <2>2, MarkKeeps, MarkUndisturbed
    <3> QED BY <1>5, <1>6, <1>8, <3>1, UndisturbedTwice
  <2> QED BY <1>1, <2>1, <2>2
<1>10. Usable(h, all, team) = adm
  BY <1>9 DEF Usable, adm
<1>11. ASSUME NEW n \in DOMAIN nodes
       PROVE  Undisputed(n, nodes[n], adm)
  <2>1. CASE owner[n] = Disputed \/ owner[n].team = "none"
    <3>1. nodes[n].owner.team = "none"
      BY <1>3, <1>4, <2>1 DEF Nobody
    <3> QED BY <3>1 DEF Undisputed
  <2>2. CASE owner[n] # Disputed /\ owner[n].team # "none"
    <3>1. nodes[n].owner = owner[n] /\ owner[n] = Owner(n, g.nodes[n], Standing(adm), Rejected(adm))
      BY <1>2, <1>3, <1>4, <2>2
    <3>2. /\ nodes[n].labels = g.nodes[n].labels /\ nodes[n].env = g.nodes[n].env
          /\ nodes[n].team = g.nodes[n].team
      BY <1>3, <1>4 DEF NodeFields
    <3> QED BY <2>2, <3>1, <3>2, OwnerUndisputed
  <2> QED BY <2>1, <2>2
<1> QED BY <1>9, <1>10, <1>11

\* What each record does to a graph into which others have been taken.
LEMMA SettledWoven ==
  ASSUME NEW g, NEW A, NEW R, NEW C, NEW F, Settled(g, A, R, C, F)
  PROVE  Woven(g) /\ DOMAIN g = GraphFields
BY DEF Settled, Woven

\* Before any record is taken the evidence may still change.
LEMMA SettledEvidence ==
  ASSUME NEW g, Settled(g, {}, {}, {}, {}), NEW h, Changes(h, g, {"evidence"})
  PROVE  Settled(h, {}, {}, {}, {})
<1>1. DescribedBy(g, {}, {}, {}) = {} /\ DescribedBy(h, {}, {}, {}) = {}
  BY DEF DescribedBy
<1>2. Cores(h, {}) = {} /\ Cores(g, {}) = {}
  BY DEF Cores
<1>3. /\ h.nodes = g.nodes /\ h.badNodes = g.badNodes /\ h.edges = g.edges
      /\ h.badEdges = g.badEdges /\ h.lookup = g.lookup /\ DOMAIN h = GraphFields
  BY FieldsOfGraph DEF Changes
<1>4. Woven(h)
  BY <1>3 DEF Settled, Woven
<1> QED BY <1>1, <1>2, <1>3, <1>4 DEF Settled

\* No fixture edges contest nothing.
LEMMA NoCores ==
  ASSUME NEW g
  PROVE  Cores(g, {}) = {} /\ Uncontested(g.edges, g.badEdges, Cores(g, {}))
BY DEF Cores, Uncontested

\* Deriving an environment settles the graph on one environment more.
LEMMA SettledEnvironment ==
  ASSUME NEW g, NEW A, Settled(g, A, {}, {}, {}), NEW e
  PROVE  Settled(DeriveEnvironment(g, e), A \cup {e}, {}, {}, {})
<1> DEFINE h == DeriveEnvironment(g, e)
           D == DescribedBy(g, A, {}, {})
           x == IF Placed(g, e) THEN {OfEnvironment(g, e)} ELSE {}
<1>1. h = DeriveEnvironment(g, e) /\ Woven(g) /\ Agreeing(g.nodes, g.badNodes, D)
  BY DEF Settled
<1> HIDE DEF h
<1>2. Woven(h) /\ h.evidence = g.evidence /\ Agreeing(h.nodes, h.badNodes, D \cup x)
  <2> HIDE DEF D
  <2> QED BY <1>1, DeriveEnvironmentTakes
<1>3. DescribedBy(g, A \cup {e}, {}, {}) = D \cup x
  BY EnvironmentDescribed
<1>4. DescribedBy(h, A \cup {e}, {}, {}) = DescribedBy(g, A \cup {e}, {}, {})
  BY <1>2, DescribedAlike
<1>5. Settled(h, A \cup {e}, {}, {}, {})
  BY <1>2, <1>3, <1>4, NoCores DEF Settled
<1> QED BY <1>5 DEF h

\* Deriving a resource settles it on one resource more, and neither adds
\* nor takes away an environment.
LEMMA SettledResource ==
  ASSUME NEW g, NEW A, NEW R, Settled(g, A, R, {}, {}), NEW r
  PROVE  /\ Settled(DeriveResource(g, r), A, R \cup {r}, {}, {})
         /\ Alike(DeriveResource(g, r), g)
<1> DEFINE h == DeriveResource(g, r)
           D == DescribedBy(g, A, R, {})
           x == IF Derivable(g, r) THEN {OfResource(g, r)} ELSE {}
<1>1. h = DeriveResource(g, r) /\ Woven(g) /\ Agreeing(g.nodes, g.badNodes, D)
  BY DEF Settled
<1> HIDE DEF h
<1>2. Woven(h) /\ Alike(h, g) /\ Agreeing(h.nodes, h.badNodes, D \cup x)
  <2> HIDE DEF D
  <2> QED BY <1>1, DeriveResourceTakes
<1>3. DescribedBy(g, A, R \cup {r}, {}) = D \cup x
  BY ResourceDescribed
<1>4. DescribedBy(h, A, R \cup {r}, {}) = DescribedBy(g, A, R \cup {r}, {})
  BY <1>2, DescribedAlike DEF Alike
<1>5. Settled(h, A, R \cup {r}, {}, {})
  BY <1>2, <1>3, <1>4, NoCores DEF Settled
<1> QED BY <1>2, <1>5 DEF h

\* So does deriving a resource of a cloud.
LEMMA SettledCloud ==
  ASSUME NEW g, NEW A, NEW R, NEW C, Settled(g, A, R, C, {}), NEW r
  PROVE  /\ Settled(DeriveCloud(g, r), A, R, C \cup {r}, {})
         /\ Alike(DeriveCloud(g, r), g)
<1> DEFINE h == DeriveCloud(g, r)
           D == DescribedBy(g, A, R, C)
           x == IF Anchored(g, r) THEN {OfCloud(g, r)} ELSE {}
<1>1. h = DeriveCloud(g, r) /\ Woven(g) /\ Agreeing(g.nodes, g.badNodes, D)
  BY DEF Settled
<1> HIDE DEF h
<1>2. Woven(h) /\ Alike(h, g) /\ Agreeing(h.nodes, h.badNodes, D \cup x)
  <2> HIDE DEF D
  <2> QED BY <1>1, DeriveCloudTakes
<1>3. DescribedBy(g, A, R, C \cup {r}) = D \cup x
  BY CloudDescribed
<1>4. DescribedBy(h, A, R, C \cup {r}) = DescribedBy(g, A, R, C \cup {r})
  BY <1>2, DescribedAlike DEF Alike
<1>5. Settled(h, A, R, C \cup {r}, {})
  BY <1>2, <1>3, <1>4, NoCores DEF Settled
<1> QED BY <1>2, <1>5 DEF h

\* Where only edges and statuses change, the nodes are settled as before.
LEMMA SettledWeb ==
  ASSUME NEW g, NEW A, NEW R, NEW C, NEW F, Settled(g, A, R, C, F),
         NEW h, Woven(h), Changes(h, g, WebFields)
  PROVE  /\ Agreeing(h.nodes, h.badNodes, DescribedBy(h, A, R, C))
         /\ Alike(h, g) /\ h.nodes = g.nodes
         /\ \A G : Cores(h, G) = Cores(g, G)
<1>1. h.nodes = g.nodes /\ h.badNodes = g.badNodes /\ h.evidence = g.evidence /\ Alike(h, g)
  BY WebKeeps
<1>2. DescribedBy(h, A, R, C) = DescribedBy(g, A, R, C)
  BY <1>1, DescribedAlike
<1>3. \A x : Joins(h, x) <=> Joins(g, x)
  BY <1>1 DEF Joins, Admitted
<1>4. \A G : Cores(h, G) = Cores(g, G)
  BY <1>3 DEF Cores
<1> QED BY <1>1, <1>2, <1>4 DEF Settled

\* What a link may name is there.
LEMMA CandidatesThere ==
  ASSUME NEW g, Woven(g), NEW env, NEW kind, NEW name
  PROVE  Candidates(g, env, kind, name) \subseteq DOMAIN g.nodes
BY DEF Candidates, Woven

\* A link leaves the nodes settled.
LEMMA SettledLink ==
  ASSUME NEW g, NEW A, NEW R, Settled(g, A, R, {}, {}), NEW l
  PROVE  /\ Settled(DeriveLink(g, l), A, R, {}, {}) /\ Alike(DeriveLink(g, l), g)
<1> DEFINE h == DeriveLink(g, l)
           Of(e) == IF Known(e.kind) THEN Candidates(g, l.env, e.kind, e.name) ELSE {}
           up == CHOOSE n \in Of(l.from) : TRUE
           down == CHOOSE n \in Of(l.to) : TRUE
           sure == l.relation = "owns" /\ OwnerMatches(g, up, down)
           confidence == IF sure THEN 10 ELSE 9
           bad == \/ l.relation \notin {"owns", "selects"}
                  \/ \E e \in {l.from, l.to} : Cardinality(Of(e)) # 1
<1>0. Woven(g) /\ DOMAIN g = GraphFields
  BY SettledWoven
<1>1. h = IF bad THEN Mark(g, Cluster(l.env))
          ELSE Connect(g, up, down, l.relation, Cluster(l.env), l.relation, confidence, FALSE)
  BY DEF DeriveLink
<1>2. Changes(h, g, WebFields)
  BY <1>0, DeriveLinkChanges
<1>3. Of(l.from) \subseteq DOMAIN g.nodes /\ Of(l.to) \subseteq DOMAIN g.nodes
  BY <1>0, CandidatesThere
<1>4. ASSUME ~bad
      PROVE  up \in DOMAIN g.nodes /\ down \in DOMAIN g.nodes
  <2>1. Cardinality(Of(l.from)) = 1 /\ Cardinality(Of(l.to)) = 1
    BY <1>4
  <2> HIDE DEF Of
  <2>2. Of(l.from) # {} /\ Of(l.to) # {}
    BY <2>1, FS_EmptySet
  <2> QED BY <1>3, <2>2
<1> HIDE DEF up, down, bad, confidence
<1>5. Woven(h)
  <2>1. CASE bad
    <3>1. h = Mark(g, Cluster(l.env))
      BY <1>1, <2>1
    <3> QED BY <1>0, <3>1, MarkWoven
  <2>2. CASE ~bad
    <3>1. h = Connect(g, up, down, l.relation, Cluster(l.env), l.relation, confidence, FALSE)
      BY <1>1, <2>2
    <3> QED BY <1>0, <1>4, <2>2, <3>1, ConnectWoven
  <2> QED BY <2>1, <2>2
<1> HIDE DEF h
<1>6. /\ Agreeing(h.nodes, h.badNodes, DescribedBy(h, A, R, {})) /\ Alike(h, g)
  BY <1>2, <1>5, SettledWeb
<1>7. Settled(h, A, R, {}, {}) /\ Alike(h, g)
  BY <1>5, <1>6, NoCores DEF Settled
<1> QED BY <1>7 DEF h

\* So does what contains a resource.
LEMMA SettledContain ==
  ASSUME NEW g, NEW A, NEW R, Settled(g, A, R, {}, {}), NEW x, {x.up, x.down} \subseteq DOMAIN g.nodes
  PROVE  /\ Settled(Contain(g, x), A, R, {}, {}) /\ Alike(Contain(g, x), g)
         /\ Contain(g, x).nodes = g.nodes
<1> DEFINE h == Contain(g, x)
<1>0. Woven(g) /\ DOMAIN g = GraphFields
  BY SettledWoven
<1>1. h = Connect(g, x.up, x.down, "contains", Cluster(x.env), "contains", 10, TRUE)
  BY DEF Contain
<1> HIDE DEF h
<1>2. Changes(h, g, WebFields)
  BY <1>0, <1>1, ConnectChanges
<1>3. Woven(h)
  BY <1>0, <1>1, ConnectWoven
<1>4. /\ Agreeing(h.nodes, h.badNodes, DescribedBy(h, A, R, {})) /\ Alike(h, g) /\ h.nodes = g.nodes
  BY <1>2, <1>3, SettledWeb
<1>5. Settled(h, A, R, {}, {}) /\ Alike(h, g) /\ h.nodes = g.nodes
  BY <1>3, <1>4, NoCores DEF Settled
<1> QED BY <1>5 DEF h

\* An edge of the fixtures settles the graph on one edge more.
LEMMA SettledFixture ==
  ASSUME NEW g, NEW A, NEW R, NEW C, NEW F, Settled(g, A, R, C, F),
         NEW f, DOMAIN Core(f) = EdgeFields
  PROVE  /\ Settled(DeriveFixtureEdge(g, f), A, R, C, F \cup {f})
         /\ Alike(DeriveFixtureEdge(g, f), g)
<1> DEFINE h == DeriveFixtureEdge(g, f)
           edge == Core(f)
           a == AddEdge(g, edge)
<1>0. Woven(g) /\ DOMAIN g = GraphFields
  BY SettledWoven
<1>1. h = IF ~Joins(g, f) THEN Mark(g, "fixtures") ELSE IF a.taken THEN a.g ELSE Mark(a.g, "fixtures")
  BY DEF DeriveFixtureEdge, Core
<1>2. Changes(h, g, WebFields)
  BY <1>0, DeriveFixtureEdgeChanges
<1>3. Joins(g, f) => {edge.up, edge.down} \subseteq DOMAIN g.nodes
  BY DEF Joins, Core, EdgeFields
<1>4. Uncontested(g.edges, g.badEdges, Cores(g, F))
  BY DEF Settled
<1>45. a = AddEdge(g, edge) /\ edge = Core(f)
  OBVIOUS
<1> HIDE DEF edge, a, h
<1>5. Woven(h) /\ Uncontested(h.edges, h.badEdges, Cores(g, F \cup {f}))
  <2>1. CASE ~Joins(g, f)
    <3>1. h = Mark(g, "fixtures") /\ Cores(g, F \cup {f}) = Cores(g, F)
      BY <1>1, <2>1 DEF Cores
    <3>2. h.edges = g.edges /\ h.badEdges = g.badEdges /\ Woven(h)
      BY <1>0, <3>1, MarkKeeps
    <3> QED BY <1>4, <3>1, <3>2
  <2>2. CASE Joins(g, f)
    <3>1. Cores(g, F \cup {f}) = Cores(g, F) \cup {edge}
      BY <1>45, <2>2 DEF Cores
    <3>2. /\ Woven(a.g)
          /\ \A Z : Uncontested(g.edges, g.badEdges, Z) => Uncontested(a.g.edges, a.g.badEdges, Z \cup {edge})
      BY <1>0, <1>3, <1>45, <2>2, AddEdgeCases
    <3>3. Uncontested(a.g.edges, a.g.badEdges, Cores(g, F \cup {f}))
      BY <1>4, <3>1, <3>2
    <3>4. h \in {a.g, Mark(a.g, "fixtures")}
      BY <1>1, <2>2
    <3>5. /\ Woven(Mark(a.g, "fixtures")) /\ Mark(a.g, "fixtures").edges = a.g.edges
          /\ Mark(a.g, "fixtures").badEdges = a.g.badEdges
      BY <3>2, MarkKeeps
    <3> QED BY <3>2, <3>3, <3>4, <3>5
  <2> QED BY <2>1, <2>2
<1>6. /\ Agreeing(h.nodes, h.badNodes, DescribedBy(h, A, R, C)) /\ Alike(h, g)
      /\ Cores(h, F \cup {f}) = Cores(g, F \cup {f})
  BY <1>2, <1>5, SettledWeb
<1>7. Settled(h, A, R, C, F \cup {f}) /\ Alike(h, g)
  BY <1>5, <1>6 DEF Settled
<1> QED BY <1>7 DEF h

-----------------------------------------------------------------------------
(***************************************************************************)
(* What has been taken so far, and the invariant                           *)
(***************************************************************************)
Early == {"evidence", "status", "incidents"}
Reading == {"resources", "contain", "links"}
Answering == {"request", "context", "select", "walk", "answered"}
Observing == {"alert", "attachAlerts", "metric", "attachMetrics"}
Late == Observing \cup Answering

SeenEnvironments ==
  IF pc \in Early THEN {}
  ELSE IF pc = "environments" THEN input.environments \ rest ELSE input.environments

OfClosed(g, all, open) == UNION {v.resources : v \in {x \in all \ open : HasEnvironment(g, x.env)}}
SeenResources ==
  CASE pc \in Early \cup {"environments"} -> {}
    [] pc = "resources" -> OfClosed(graph, input.inventories, inventories) \cup (Opened.resources \ rest)
    [] pc \in {"contain", "links"} -> OfClosed(graph, input.inventories, inventories) \cup Opened.resources
    [] OTHER -> OfClosed(graph, input.inventories, inventories)

SeenClouds ==
  IF pc = "cloud" THEN input.cloud \ rest
  ELSE IF pc \in {"fixtures"} \cup Late THEN input.cloud ELSE {}
SeenFixtures ==
  IF pc = "fixtures" THEN input.fixtures \ rest ELSE IF pc \in Late THEN input.fixtures ELSE {}

\* Which records are left where, and which inventory is open.
Underway ==
  /\ input \in Inputs
  /\ pc \in Early \cup {"environments", "kubernetes", "cloud", "fixtures"} \cup Reading \cup Late
  /\ inventories \subseteq input.inventories
  /\ pc \in Early \cup {"environments"} => inventories = input.inventories
  /\ pc \in {"cloud", "fixtures"} \cup Late => inventories = {}
  /\ pc \in Reading => Opened \in inventories /\ HasEnvironment(graph, Opened.env)
  /\ pc = "environments" => rest \subseteq input.environments
  /\ pc = "resources" => rest \subseteq Opened.resources
  /\ pc = "contain" => \A h \in rest : {h.up, h.down} \subseteq DOMAIN graph.nodes
  /\ pc = "cloud" => rest \subseteq input.cloud
  /\ pc = "fixtures" => rest \subseteq input.fixtures

DerivedFromAll ==
  Settled(graph, SeenEnvironments, SeenResources, SeenClouds, SeenFixtures)

OwnersUndisputed ==
  pc \in Answering =>
    \A n \in DOMAIN graph.nodes :
      Undisputed(n, graph.nodes[n], Usable(graph, input.rules, WorkspaceTeam))

TInv == Underway /\ DerivedFromAll /\ OwnersUndisputed

\* The open inventory is the first of those left.
LEMMA OpenedKept ==
  ASSUME inventories' = inventories
  PROVE  Opened' = Opened
BY DEF Opened

\* A step that disturbs no node and takes no record keeps what was derived.
LEMMA Moved ==
  ASSUME TInv, Undisturbed(graph', graph),
         SeenEnvironments' = SeenEnvironments, SeenResources' = SeenResources,
         SeenClouds' = SeenClouds, SeenFixtures' = SeenFixtures
  PROVE  DerivedFromAll'
BY UndisturbedSettled DEF TInv, DerivedFromAll

\* The resources of the closed inventories depend on the environments there.
LEMMA ClosedKept ==
  ASSUME NEW g, NEW h, Alike(h, g), NEW all, NEW open
  PROVE  OfClosed(h, all, open) = OfClosed(g, all, open)
BY DEF OfClosed, Alike

\* What disturbs no node leaves the environments.
LEMMA UndisturbedAlike ==
  ASSUME NEW g, NEW h, Undisturbed(h, g)
  PROVE  Alike(h, g)
BY DEF Undisturbed, Alike, HasEnvironment

\* What was said of each phase, in the phases where nothing is being taken.
LEMMA Quiet ==
  ASSUME TInv, input' = input, pc' = pc, inventories' = inventories, Undisturbed(graph', graph),
         pc \notin {"environments", "resources", "cloud", "fixtures"},
         pc = "contain" => rest' \subseteq rest,
         pc \in Answering => graph'.nodes = graph.nodes
  PROVE  TInv'
<1>1. Opened' = Opened
  BY OpenedKept
<1>2. Alike(graph', graph)
  BY UndisturbedAlike
<1>3. OfClosed(graph', input.inventories, inventories) = OfClosed(graph, input.inventories, inventories)
  BY <1>2, ClosedKept
<1>4. SeenEnvironments' = SeenEnvironments /\ SeenClouds' = SeenClouds /\ SeenFixtures' = SeenFixtures
  BY DEF SeenEnvironments, SeenClouds, SeenFixtures
<1>5. SeenResources' = SeenResources
  BY <1>1, <1>3 DEF SeenResources
<1>6. DerivedFromAll'
  BY <1>4, <1>5, Moved
<1>7. Underway'
  BY <1>1, <1>2 DEF TInv, Underway, Alike, Undisturbed
<1>8. OwnersUndisputed'
  BY DEF TInv, OwnersUndisputed, Undisturbed, Usable
<1> QED BY <1>6, <1>7, <1>8 DEF TInv

\* What the invariant says of the graph alone.
LEMMA TInvWoven ==
  ASSUME TInv
  PROVE  /\ Woven(graph) /\ DOMAIN graph = GraphFields
         /\ \A n \in DOMAIN graph.nodes : DOMAIN graph.nodes[n] = NodeFields
BY DEF TInv, DerivedFromAll, Settled, Woven, Agreeing

\* An empty graph is settled on no records.
LEMMA TInvInit ==
  ASSUME Init
  PROVE  TInv
<1>1. /\ pc = "evidence" /\ graph = EmptyGraph /\ inventories = input.inventories /\ input \in Inputs
  BY DEF Init
<1>2. /\ SeenEnvironments = {} /\ SeenResources = {} /\ SeenClouds = {} /\ SeenFixtures = {}
  BY <1>1 DEF SeenEnvironments, SeenResources, SeenClouds, SeenFixtures, Early, Late, Answering, Observing
<1>3. /\ DOMAIN graph = GraphFields
      /\ DOMAIN graph.nodes = {} /\ DOMAIN graph.edges = {} /\ graph.badNodes = {}
      /\ graph.badEdges = {} /\ graph.lookup = {}
  BY <1>1 DEF EmptyGraph, GraphFields
<1>4. Woven(graph)
  BY <1>3, FS_EmptySet DEF Woven
<1>5. DescribedBy(graph, {}, {}, {}) = {}
  BY DEF DescribedBy
<1>6. Agreeing(graph.nodes, graph.badNodes, {})
  BY <1>3 DEF Agreeing
<1>7. DerivedFromAll
  BY <1>2, <1>4, <1>5, <1>6, NoCores DEF DerivedFromAll, Settled
<1> QED BY <1>1, <1>7 DEF TInv, Underway, OwnersUndisputed, Early, Late, Answering, Observing, Reading

\* Sifting a record marks a source at most.
LEMMA SiftUndisturbed ==
  ASSUME NEW r, NEW valid, NEW source, Woven(graph), Sift(r, valid, source)
  PROVE  Undisturbed(graph', graph)
BY MarkUndisturbed, SelfUndisturbed DEF Sift

\* Evidence is sifted before anything is derived from it.
LEMMA AdmitEvidenceKeeps ==
  ASSUME TInv, AdmitEvidence
  PROVE  TInv'
<1>1. PICK e \in rest : Take("evidence", e) /\ Sift(e, e.sound, StatusKey(e.source))
  BY DEF AdmitEvidence
<1>2. Undisturbed(graph', graph)
  BY <1>1, SiftUndisturbed, TInvWoven
<1>3. pc = "evidence" /\ input' = input /\ pc' = pc /\ inventories' = inventories
  BY <1>1 DEF Take, Sift
<1> QED BY <1>2, <1>3, Quiet DEF Answering

\* Incidents are sifted too.
LEMMA LoadIncidentKeeps ==
  ASSUME TInv, LoadIncident
  PROVE  TInv'
<1>1. PICK i \in rest : Take("incidents", i) /\ Sift(i, Queued(i), "incidents")
  BY DEF LoadIncident
<1>2. Undisturbed(graph', graph)
  BY <1>1, SiftUndisturbed, TInvWoven
<1>3. pc = "incidents" /\ input' = input /\ pc' = pc /\ inventories' = inventories
  BY <1>1 DEF Take, Sift
<1> QED BY <1>2, <1>3, Quiet DEF Answering

\* Before the environments nothing has been taken.
LEMMA EarlyNone ==
  ASSUME pc \in Early
  PROVE  SeenEnvironments = {} /\ SeenResources = {} /\ SeenClouds = {} /\ SeenFixtures = {}
BY DEF SeenEnvironments, SeenResources, SeenClouds, SeenFixtures, Early, Late, Answering, Observing

\* The evidence is loaded while no record has been taken.
LEMMA LoadEvidenceKeeps ==
  ASSUME TInv, LoadEvidence
  PROVE  TInv'
<1>1. /\ pc = "evidence" /\ pc' = "status" /\ input' = input /\ inventories' = inventories
      /\ graph' = [graph EXCEPT !.evidence = pass.kept]
  BY DEF LoadEvidence, Exhausted, Enter
<1>2. Settled(graph, {}, {}, {}, {})
  BY <1>1, EarlyNone DEF TInv, DerivedFromAll, Early
<1>3. Changes(graph', graph, {"evidence"})
  BY <1>1, TInvWoven, FieldsOfGraph DEF Changes
<1>4. Settled(graph', {}, {}, {}, {})
  BY <1>2, <1>3, SettledEvidence
<1>5. (SeenEnvironments = {} /\ SeenResources = {} /\ SeenClouds = {} /\ SeenFixtures = {})'
  BY <1>1 DEF SeenEnvironments, SeenResources, SeenClouds, SeenFixtures, Early, Late, Answering, Observing
<1>6. DerivedFromAll'
  BY <1>4, <1>5 DEF DerivedFromAll
<1> QED BY <1>1, <1>6 DEF TInv, Underway, OwnersUndisputed, Early, Late, Answering, Observing, Reading

\* Statuses touch no node.
LEMMA LoadStatusesKeeps ==
  ASSUME TInv, LoadStatuses
  PROVE  TInv'
<1>1. CASE Derive("status", LoadStatus)
  <2>1. PICK s \in rest : Take("status", s) /\ graph' = LoadStatus(graph, s)
    BY <1>1 DEF Derive
  <2>2. Undisturbed(graph', graph)
    BY <2>1, LoadStatusUndisturbed, TInvWoven
  <2>3. pc = "status" /\ input' = input /\ pc' = pc /\ inventories' = inventories
    BY <1>1, <2>1 DEF Take, Derive
  <2> QED BY <2>2, <2>3, Quiet DEF Answering
<1>2. CASE Go("status", "incidents", input.incidents)
  <2>1. /\ pc = "status" /\ pc' = "incidents" /\ input' = input /\ inventories' = inventories
        /\ graph' = graph
    BY <1>2 DEF Go, Exhausted, Enter
  <2>2. (SeenEnvironments = {} /\ SeenResources = {} /\ SeenClouds = {} /\ SeenFixtures = {})'
    BY <2>1 DEF SeenEnvironments, SeenResources, SeenClouds, SeenFixtures, Early, Late, Answering, Observing
  <2>3. DerivedFromAll'
    BY <2>1, <2>2, EarlyNone DEF TInv, DerivedFromAll, Early
  <2> QED BY <2>1, <2>3 DEF TInv, Underway, OwnersUndisputed, Early, Late, Answering, Observing, Reading
<1> QED BY <1>1, <1>2 DEF LoadStatuses

\* Then the environments are the first records to take.
LEMMA LoadIncidentsKeeps ==
  ASSUME TInv, LoadIncidents
  PROVE  TInv'
<1>1. /\ pc = "incidents" /\ pc' = "environments" /\ input' = input /\ inventories' = inventories
      /\ graph' = [graph EXCEPT !.incidents = pass.kept] /\ rest' = input.environments
  BY DEF LoadIncidents, Exhausted, Enter
<1>2. Changes(graph', graph, {"incidents"}) /\ {"incidents"} \subseteq Aside
  BY <1>1, TInvWoven, FieldsOfGraph DEF Changes, Aside
<1>3. Undisturbed(graph', graph)
  BY <1>2, TInvWoven, AsideUndisturbed
<1>4. (SeenEnvironments = {} /\ SeenResources = {} /\ SeenClouds = {} /\ SeenFixtures = {})'
  BY <1>1 DEF SeenEnvironments, SeenResources, SeenClouds, SeenFixtures, Early, Late, Answering, Observing
<1>5. DerivedFromAll'
  BY <1>1, <1>3, <1>4, EarlyNone, Moved DEF Early
<1> QED BY <1>1, <1>5 DEF TInv, Underway, OwnersUndisputed, Early, Late, Answering, Observing, Reading

\* After the fixtures all records have been taken.
LEMMA LateAll ==
  ASSUME TInv, pc \in Late, pc' \in Late, input' = input, inventories' = inventories,
         Undisturbed(graph', graph), OwnersUndisputed'
  PROVE  TInv'
<1>1. inventories = {} /\ Alike(graph', graph)
  BY UndisturbedAlike DEF TInv, Underway
<1>2. OfClosed(graph', input.inventories, inventories) = OfClosed(graph, input.inventories, inventories)
  BY <1>1, ClosedKept
<1>3. /\ SeenEnvironments' = SeenEnvironments /\ SeenClouds' = SeenClouds
      /\ SeenFixtures' = SeenFixtures
  BY DEF SeenEnvironments, SeenClouds, SeenFixtures, Early, Late, Answering, Observing
<1>4. SeenResources' = SeenResources
  BY <1>2 DEF SeenResources, Early, Late, Answering, Observing
<1>5. DerivedFromAll'
  BY <1>3, <1>4, Moved
<1>6. Underway'
  BY DEF TInv, Underway, Early, Late, Answering, Observing, Reading
<1> QED BY <1>5, <1>6 DEF TInv

\* From pass to pass over the observations the graph stays what it is.
LEMMA GoLate ==
  ASSUME TInv, NEW now \in Observing, NEW next \in Observing, NEW records, Go(now, next, records)
  PROVE  TInv'
<1>1. /\ pc = now /\ pc' = next /\ input' = input /\ inventories' = inventories /\ graph' = graph
  BY DEF Go, Exhausted, Enter
<1>2. Undisturbed(graph', graph)
  BY <1>1, TInvWoven, SelfUndisturbed
<1>3. OwnersUndisputed'
  BY <1>1 DEF OwnersUndisputed, Observing, Answering
<1> QED BY <1>1, <1>2, <1>3, LateAll DEF Late

\* An observation tries to bind incidents and may mark its source.
LEMMA ObserveKeeps ==
  ASSUME TInv, Observe
  PROVE  TInv'
<1>1. PICK o \in rest :
        /\ input' = input /\ pc' = pc /\ inventories' = inventories
        /\ LET tried == Attempt(graph, o.id)
           IN graph' = IF ~o.sound \/ Disagrees(pass, o.id, o) THEN Mark(tried, "observability") ELSE tried
  BY DEF Observe, Take
<1> DEFINE tried == Attempt(graph, o.id)
<1>2. Undisturbed(tried, graph) /\ Woven(tried)
  BY TInvWoven, AttemptUndisturbed DEF Undisturbed
<1>3. graph' \in {tried, Mark(tried, "observability")}
  BY <1>1
<1> HIDE DEF tried
<1>4. Undisturbed(graph', graph)
  BY <1>2, <1>3, MarkUndisturbed, UndisturbedTwice
<1>5. pc \in {"alert", "metric"}
  BY DEF Observe
<1> QED BY <1>1, <1>4, <1>5, Quiet DEF Answering

\* Attaching it adds evidence to nodes, which nothing compares.
LEMMA AttachKeeps ==
  ASSUME TInv, NEW now \in {"attachAlerts", "attachMetrics"}, Derive(now, Attach)
  PROVE  TInv'
<1>1. PICK o \in rest : Take(now, o) /\ graph' = Attach(graph, o)
  BY DEF Derive
<1>2. Undisturbed(graph', graph)
  BY <1>1, AttachUndisturbed, TInvWoven
<1>3. pc = now /\ input' = input /\ pc' = pc /\ inventories' = inventories
  BY <1>1 DEF Take, Derive
<1> QED BY <1>2, <1>3, Quiet DEF Answering

\* The passes over the observations, all together.
LEMMA ObservationsKeeps ==
  ASSUME TInv, Observations
  PROVE  TInv'
<1>1. CASE Go("alert", "attachAlerts", pass.kept)
  BY <1>1, GoLate DEF Observing
<1>2. CASE Derive("attachAlerts", Attach)
  BY <1>2, AttachKeeps
<1>3. CASE Go("attachAlerts", "metric", input.metrics)
  BY <1>3, GoLate DEF Observing
<1>4. CASE Go("metric", "attachMetrics", pass.kept)
  BY <1>4, GoLate DEF Observing
<1>5. CASE Derive("attachMetrics", Attach)
  BY <1>5, AttachKeeps
<1> QED BY <1>1, <1>2, <1>3, <1>4, <1>5 DEF Observations

\* Owning is what makes the owners undisputed.
LEMMA OwnKeeps ==
  ASSUME TInv, Own
  PROVE  TInv'
<1>1. /\ pc = "attachMetrics" /\ pc' = "request" /\ input' = input /\ inventories' = inventories
      /\ graph' = ResolveOwnership(graph, input.rules, WorkspaceTeam)
  BY DEF Own, Exhausted, Enter
<1>2. /\ Undisturbed(graph', graph)
      /\ \A n \in DOMAIN graph'.nodes :
           Undisputed(n, graph'.nodes[n], Usable(graph', input.rules, WorkspaceTeam))
  BY <1>1, TInvWoven, OwnUndisturbed
<1>3. OwnersUndisputed'
  BY <1>1, <1>2 DEF OwnersUndisputed
<1> QED BY <1>1, <1>2, <1>3, LateAll DEF Late, Observing, Answering

\* A request leaves the nodes, their evidence and their owners as they are.
LEMMA AskKeeps ==
  ASSUME TInv, Ask
  PROVE  TInv'
<1>1. /\ pc = "request" /\ input' = input /\ inventories' = inventories
      /\ graph' \in {graph, Mark(graph, "incidents")}
  BY DEF Ask
<1>2. pc' \in Answering
  BY DEF Ask, Answering
<1>3. Undisturbed(graph', graph)
  BY <1>1, TInvWoven, MarkUndisturbed, SelfUndisturbed
<1>4. graph'.nodes = graph.nodes /\ graph'.evidence = graph.evidence
  BY <1>1, TInvWoven, MarkKeeps
<1>5. OwnersUndisputed'
  BY <1>1, <1>4 DEF TInv, OwnersUndisputed, Answering, Usable
<1> QED BY <1>1, <1>2, <1>3, <1>5, LateAll DEF Late, Answering

\* Answering changes no graph.
LEMMA AnsweringKeeps ==
  ASSUME TInv, pc \in Answering, pc' \in Answering, input' = input, inventories' = inventories,
         graph' = graph
  PROVE  TInv'
<1>1. Undisturbed(graph', graph)
  BY TInvWoven, SelfUndisturbed
<1>2. OwnersUndisputed'
  BY DEF TInv, OwnersUndisputed
<1> QED BY <1>1, <1>2, LateAll DEF Late

\* One environment moves from those left to those taken.
LEMMA DeriveEnvironmentsKeeps ==
  ASSUME TInv, DeriveEnvironments
  PROVE  TInv'
<1>1. CASE Derive("environments", DeriveEnvironment)
  <2>1. PICK e \in rest : Take("environments", e) /\ graph' = DeriveEnvironment(graph, e)
    BY <1>1 DEF Derive
  <2>2. /\ pc = "environments" /\ input' = input /\ pc' = pc /\ inventories' = inventories
        /\ rest' = rest \ {e}
    BY <1>1, <2>1 DEF Take, Derive
  <2>3. /\ SeenEnvironments = input.environments \ rest
        /\ SeenResources = {} /\ SeenClouds = {} /\ SeenFixtures = {}
    BY <2>2 DEF SeenEnvironments, SeenResources, SeenClouds, SeenFixtures, Early, Late, Answering, Observing
  <2>4. rest \subseteq input.environments
    BY <2>2 DEF TInv, Underway
  <2>5. (/\ SeenEnvironments = input.environments \ rest
         /\ SeenResources = {} /\ SeenClouds = {} /\ SeenFixtures = {})'
    BY <2>2 DEF SeenEnvironments, SeenResources, SeenClouds, SeenFixtures, Early, Late, Answering, Observing
  <2>6. SeenEnvironments' = SeenEnvironments \cup {e}
    BY <2>2, <2>3, <2>4, <2>5
  <2>7. Settled(graph, SeenEnvironments, {}, {}, {})
    BY <2>3 DEF TInv, DerivedFromAll
  <2>8. Settled(graph', SeenEnvironments \cup {e}, {}, {}, {})
    BY <2>1, <2>7, SettledEnvironment
  <2>9. DerivedFromAll'
    BY <2>5, <2>6, <2>8 DEF DerivedFromAll
  <2> QED BY <2>2, <2>9 DEF TInv, Underway, OwnersUndisputed, Early, Late, Answering, Observing, Reading
<1>2. CASE Go("environments", "kubernetes", {})
  <2>1. /\ pc = "environments" /\ pc' = "kubernetes" /\ input' = input /\ inventories' = inventories
        /\ graph' = graph /\ rest = {}
    BY <1>2 DEF Go, Exhausted, Enter
  <2>2. inventories = input.inventories
    BY <2>1 DEF TInv, Underway
  <2>3. OfClosed(graph, input.inventories, inventories) = {}
    BY <2>2 DEF OfClosed
  <2>4. SeenEnvironments' = SeenEnvironments /\ SeenClouds' = SeenClouds /\ SeenFixtures' = SeenFixtures
    BY <2>1 DEF SeenEnvironments, SeenClouds, SeenFixtures, Early, Late, Answering, Observing
  <2>5. SeenResources' = SeenResources
    BY <2>1, <2>3 DEF SeenResources, Early
  <2>6. DerivedFromAll'
    BY <2>1, <2>4, <2>5 DEF TInv, DerivedFromAll
  <2> QED BY <2>1, <2>6 DEF TInv, Underway, OwnersUndisputed, Early, Late, Answering, Observing, Reading
<1> QED BY <1>1, <1>2 DEF DeriveEnvironments

\* The orders of the inventories tell them apart: one of them comes first.
LEMMA OpenedIsFirst ==
  ASSUME TInv, NEW v \in inventories, \A w \in inventories : v.order <= w.order
  PROVE  Opened = v
<1>1. /\ Opened \in inventories /\ \A w \in inventories : Opened.order <= w.order
  BY DEF Opened
<1>2. inventories \subseteq input.inventories /\ input \in Inputs
  BY DEF TInv, Underway
<1>3. v.order \in Nat /\ Opened.order \in Nat /\ (v.order = Opened.order => v = Opened)
  BY <1>1, <1>2, InputsAssumption
<1>4. v.order <= Opened.order /\ Opened.order <= v.order
  BY <1>1
<1> QED BY <1>3, <1>4

\* An inventory is opened under an environment that is there, and is
\* passed over without one.
LEMMA OpenInventoryKeeps ==
  ASSUME TInv, OpenInventory
  PROVE  TInv'
<1>1. pc = "kubernetes" /\ input' = input
  BY DEF OpenInventory, derived
<1>2. PICK v \in inventories :
        /\ \A w \in inventories : v.order <= w.order
        /\ IF HasEnvironment(graph, v.env)
           THEN Enter("resources", v.resources) /\ UNCHANGED <<graph, inventories>>
           ELSE /\ inventories' = inventories \ {v}
                /\ graph' = Mark(graph, Cluster(v.env))
                /\ UNCHANGED <<pc, rest, pass>>
  BY DEF OpenInventory
<1>3. Opened = v
  BY <1>2, OpenedIsFirst
<1>4. SeenResources = OfClosed(graph, input.inventories, inventories)
  BY <1>1 DEF SeenResources, Early
<1>5. CASE HasEnvironment(graph, v.env)
  <2>1. /\ pc' = "resources" /\ rest' = v.resources /\ graph' = graph /\ inventories' = inventories
    BY <1>2, <1>5 DEF Enter
  <2>2. Opened' = Opened
    BY <2>1, OpenedKept
  <2>3. SeenResources' = SeenResources
    BY <1>1, <1>3, <1>4, <2>1, <2>2 DEF SeenResources, Early
  <2>4. SeenEnvironments' = SeenEnvironments /\ SeenClouds' = SeenClouds /\ SeenFixtures' = SeenFixtures
    BY <1>1, <2>1 DEF SeenEnvironments, SeenClouds, SeenFixtures, Early, Late, Answering, Observing
  <2>5. DerivedFromAll'
    BY <2>1, <2>3, <2>4 DEF TInv, DerivedFromAll
  <2> QED BY <1>1, <1>3, <1>5, <2>1, <2>2, <2>5
           DEF TInv, Underway, OwnersUndisputed, Early, Late, Answering, Observing, Reading
<1>6. CASE ~HasEnvironment(graph, v.env)
  <2>1. /\ pc' = pc /\ graph' = Mark(graph, Cluster(v.env)) /\ inventories' = inventories \ {v}
    BY <1>2, <1>6
  <2>2. Undisturbed(graph', graph) /\ Alike(graph', graph)
    BY <2>1, TInvWoven, MarkUndisturbed, UndisturbedAlike
  <2>3. OfClosed(graph', input.inventories, inventories \ {v}) = OfClosed(graph, input.inventories, inventories \ {v})
    BY <2>2, ClosedKept
  <2>4. OfClosed(graph, input.inventories, inventories \ {v}) = OfClosed(graph, input.inventories, inventories)
    <3>1. {x \in input.inventories \ (inventories \ {v}) : HasEnvironment(graph, x.env)}
            = {x \in input.inventories \ inventories : HasEnvironment(graph, x.env)}
      BY <1>6
    <3> QED BY <3>1 DEF OfClosed
  <2>5. SeenResources' = SeenResources
    BY <1>1, <1>4, <2>1, <2>3, <2>4 DEF SeenResources, Early
  <2>6. SeenEnvironments' = SeenEnvironments /\ SeenClouds' = SeenClouds /\ SeenFixtures' = SeenFixtures
    BY <1>1, <2>1 DEF SeenEnvironments, SeenClouds, SeenFixtures, Early, Late, Answering, Observing
  <2>7. DerivedFromAll'
    BY <2>2, <2>5, <2>6, Moved
  <2> QED BY <1>1, <2>1, <2>7
           DEF TInv, Underway, OwnersUndisputed, Early, Late, Answering, Observing, Reading
<1> QED BY <1>5, <1>6

\* One resource of the open inventory moves from those left to those taken.
LEMMA DeriveResourcesKeeps ==
  ASSUME TInv, DeriveResources
  PROVE  TInv'
<1>1. PICK r \in rest : Take("resources", r) /\ graph' = DeriveResource(graph, r)
  BY DEF Derive, DeriveResources
<1>2. /\ pc = "resources" /\ input' = input /\ pc' = pc /\ inventories' = inventories
      /\ rest' = rest \ {r}
  BY <1>1 DEF Take, Derive, DeriveResources
<1>3. Opened' = Opened /\ rest \subseteq Opened.resources
  BY <1>2, OpenedKept DEF TInv, Underway
<1>4. SeenClouds = {} /\ SeenFixtures = {} /\ SeenEnvironments = input.environments
  BY <1>2 DEF SeenEnvironments, SeenClouds, SeenFixtures, Early, Late, Answering, Observing
<1>5. (SeenClouds = {} /\ SeenFixtures = {} /\ SeenEnvironments = input.environments)'
  BY <1>2 DEF SeenEnvironments, SeenClouds, SeenFixtures, Early, Late, Answering, Observing
<1>6. Settled(graph, SeenEnvironments, SeenResources, {}, {})
  BY <1>4 DEF TInv, DerivedFromAll
<1>7. /\ Settled(graph', SeenEnvironments, SeenResources \cup {r}, {}, {})
      /\ Alike(graph', graph)
  BY <1>1, <1>6, SettledResource
<1>8. OfClosed(graph', input.inventories, inventories) = OfClosed(graph, input.inventories, inventories)
  BY <1>7, ClosedKept
<1>9. SeenResources' = SeenResources \cup {r}
  <2>1. /\ SeenResources = OfClosed(graph, input.inventories, inventories) \cup (Opened.resources \ rest)
        /\ SeenResources' = OfClosed(graph, input.inventories, inventories) \cup (Opened.resources \ (rest \ {r}))
    BY <1>2, <1>3, <1>8 DEF SeenResources, Early
  <2>2. Opened.resources \ (rest \ {r}) = (Opened.resources \ rest) \cup {r}
    BY <1>3
  <2> QED BY <2>1, <2>2
<1>10. DerivedFromAll'
  BY <1>2, <1>4, <1>5, <1>7, <1>9 DEF DerivedFromAll
<1>11. Underway'
  BY <1>2, <1>3, <1>7 DEF TInv, Underway, Early, Late, Answering, Observing, Reading, Alike
<1> QED BY <1>2, <1>10, <1>11 DEF TInv, OwnersUndisputed, Answering

\* While an inventory is open and all its resources are taken.
LEMMA ReadingKeeps ==
  ASSUME TInv, pc \in {"contain", "links"}, pc' \in {"contain", "links"},
         input' = input, inventories' = inventories, Alike(graph', graph),
         Settled(graph', SeenEnvironments, SeenResources, {}, {}),
         pc' = "contain" => \A h \in rest' : {h.up, h.down} \subseteq DOMAIN graph'.nodes
  PROVE  TInv'
<1>1. Opened' = Opened
  BY OpenedKept
<1>2. /\ SeenClouds' = {} /\ SeenFixtures' = {} /\ SeenEnvironments' = SeenEnvironments
  BY DEF SeenEnvironments, SeenClouds, SeenFixtures, Early, Late, Answering, Observing
<1>3. OfClosed(graph', input.inventories, inventories) = OfClosed(graph, input.inventories, inventories)
  BY ClosedKept
<1>4. SeenResources' = SeenResources
  BY <1>1, <1>3 DEF SeenResources, Early
<1>5. DerivedFromAll'
  BY <1>2, <1>4 DEF DerivedFromAll
<1>6. Underway'
  BY <1>1 DEF TInv, Underway, Early, Late, Answering, Observing, Reading, Alike
<1> QED BY <1>5, <1>6 DEF TInv, OwnersUndisputed, Answering

\* While what contains and links them is derived, all resources are taken.
LEMMA ReadingSettled ==
  ASSUME TInv, pc \in {"contain", "links"}
  PROVE  Settled(graph, SeenEnvironments, SeenResources, {}, {})
<1>1. SeenClouds = {} /\ SeenFixtures = {}
  BY DEF SeenClouds, SeenFixtures, Late, Answering, Observing
<1> QED BY <1>1 DEF TInv, DerivedFromAll

\* What contains what: nodes that are there.
LEMMA HoldingsThere ==
  ASSUME NEW g, NEW env, HasEnvironment(g, env), NEW h \in Holdings(g, env)
  PROVE  {h.up, h.down} \subseteq DOMAIN g.nodes
<1>1. CASE h \in {Holding(env, EnvironmentId(env), s, 1) : s \in Spaces(g, env)}
  <2>1. PICK s \in Spaces(g, env) : h = Holding(env, EnvironmentId(env), s, 1)
    BY <1>1
  <2>2. h.up = EnvironmentId(env) /\ h.down = s
    BY <2>1 DEF Holding
  <2> QED BY <2>1, <2>2 DEF HasEnvironment, Spaces
<1>2. CASE h \in {Holding(env, x[1], x[2], 2) :
                  x \in {y \in Spaces(g, env) \X Housed(g, env) : Homes(g, env, y[2]) = {y[1]}}}
  <2>1. PICK x \in Spaces(g, env) \X Housed(g, env) : h = Holding(env, x[1], x[2], 2)
    BY <1>2
  <2>2. h.up = x[1] /\ h.down = x[2] /\ x[1] \in Spaces(g, env) /\ x[2] \in Housed(g, env)
    BY <2>1 DEF Holding
  <2> QED BY <2>2 DEF Spaces, Housed
<1> QED BY <1>1, <1>2 DEF Holdings

\* A graph is like itself.
LEMMA AlikeSelf ==
  ASSUME NEW g
  PROVE  Alike(g, g)
BY DEF Alike

\* Containment connects nodes that are there.
LEMMA ContainResourcesKeeps ==
  ASSUME TInv, ContainResources
  PROVE  TInv'
<1>1. CASE /\ Exhausted("resources") /\ Enter("contain", Holdings(graph, Opened.env))
           /\ graph' = IF Crowded(graph, Opened.env) THEN Mark(graph, Cluster(Opened.env)) ELSE graph
           /\ UNCHANGED inventories
  <2>1. /\ pc = "resources" /\ rest = {} /\ pc' = "contain" /\ rest' = Holdings(graph, Opened.env)
        /\ input' = input /\ inventories' = inventories
    BY <1>1 DEF Exhausted, Enter
  <2>2. graph' \in {graph, Mark(graph, Cluster(Opened.env))}
    BY <1>1
  <2>3. Undisturbed(graph', graph) /\ Alike(graph', graph)
    BY <2>2, TInvWoven, MarkUndisturbed, SelfUndisturbed, UndisturbedAlike
  <2>4. Opened' = Opened /\ HasEnvironment(graph, Opened.env)
    BY <2>1, OpenedKept DEF TInv, Underway, Reading
  <2>5. /\ SeenEnvironments' = SeenEnvironments /\ SeenClouds' = SeenClouds /\ SeenFixtures' = SeenFixtures
    BY <2>1 DEF SeenEnvironments, SeenClouds, SeenFixtures, Early, Late, Answering, Observing
  <2>6. OfClosed(graph', input.inventories, inventories) = OfClosed(graph, input.inventories, inventories)
    BY <2>3, ClosedKept
  <2>7. SeenResources' = SeenResources
    BY <2>1, <2>4, <2>6 DEF SeenResources, Early
  <2>8. DerivedFromAll'
    BY <2>3, <2>5, <2>7, Moved
  <2>9. \A h \in rest' : {h.up, h.down} \subseteq DOMAIN graph'.nodes
    BY <2>1, <2>3, <2>4, HoldingsThere DEF Undisturbed
  <2>10. Underway'
    BY <2>1, <2>3, <2>4, <2>9 DEF TInv, Underway, Early, Late, Answering, Observing, Reading, Alike
  <2> QED BY <2>1, <2>8, <2>10 DEF TInv, OwnersUndisputed, Answering
<1>2. CASE Derive("contain", Contain)
  <2>1. PICK h \in rest : Take("contain", h) /\ graph' = Contain(graph, h)
    BY <1>2 DEF Derive
  <2>2. /\ pc = "contain" /\ input' = input /\ pc' = pc /\ inventories' = inventories
        /\ rest' = rest \ {h}
    BY <1>2, <2>1 DEF Take, Derive
  <2>3. \A x \in rest : {x.up, x.down} \subseteq DOMAIN graph.nodes
    BY <2>2 DEF TInv, Underway
  <2>4. /\ Settled(graph', SeenEnvironments, SeenResources, {}, {}) /\ Alike(graph', graph)
        /\ graph'.nodes = graph.nodes
    BY <2>1, <2>2, <2>3, ReadingSettled, SettledContain
  <2> QED BY <2>2, <2>3, <2>4, ReadingKeeps
<1>3. CASE Go("contain", "links", Opened.links)
  <2>1. /\ pc = "contain" /\ pc' = "links" /\ input' = input /\ inventories' = inventories
        /\ graph' = graph
    BY <1>3 DEF Go, Exhausted, Enter
  <2> QED BY <2>1, AlikeSelf, ReadingSettled, ReadingKeeps
<1> QED BY <1>1, <1>2, <1>3 DEF ContainResources

\* Links connect nodes that are there.
LEMMA DeriveLinksKeeps ==
  ASSUME TInv, DeriveLinks
  PROVE  TInv'
<1>1. PICK l \in rest : Take("links", l) /\ graph' = DeriveLink(graph, l)
  BY DEF Derive, DeriveLinks
<1>2. /\ pc = "links" /\ input' = input /\ pc' = pc /\ inventories' = inventories
  BY <1>1 DEF Take, Derive, DeriveLinks
<1>3. Settled(graph', SeenEnvironments, SeenResources, {}, {}) /\ Alike(graph', graph)
  BY <1>1, <1>2, ReadingSettled, SettledLink
<1> QED BY <1>2, <1>3, ReadingKeeps

\* A closed inventory counts as taken in place of the open one.
LEMMA CloseInventoryKeeps ==
  ASSUME TInv, CloseInventory
  PROVE  TInv'
<1>1. /\ pc = "links" /\ pc' = "kubernetes" /\ input' = input /\ graph' = graph
      /\ inventories' = inventories \ {Opened}
  BY DEF CloseInventory, Exhausted, Enter
<1>2. Opened \in inventories /\ HasEnvironment(graph, Opened.env) /\ inventories \subseteq input.inventories
  BY <1>1 DEF TInv, Underway, Reading
<1> DEFINE v == Opened
           Of(open) == {x \in input.inventories \ open : HasEnvironment(graph, x.env)}
<1> HIDE DEF v
<1>3. Of(inventories \ {v}) = Of(inventories) \cup {v}
  BY <1>2 DEF v
<1>4. OfClosed(graph, input.inventories, inventories \ {v})
        = OfClosed(graph, input.inventories, inventories) \cup v.resources
  <2>1. UNION {x.resources : x \in Of(inventories) \cup {v}}
          = (UNION {x.resources : x \in Of(inventories)}) \cup v.resources
    OBVIOUS
  <2> QED BY <1>3, <2>1 DEF OfClosed
<1>5. SeenResources' = SeenResources
  <2>1. SeenResources = OfClosed(graph, input.inventories, inventories) \cup v.resources
    BY <1>1 DEF SeenResources, Early, v
  <2>2. SeenResources' = OfClosed(graph, input.inventories, inventories \ {v})
    BY <1>1 DEF SeenResources, Early, v
  <2> QED BY <1>4, <2>1, <2>2
<1>6. SeenEnvironments' = SeenEnvironments /\ SeenClouds' = SeenClouds /\ SeenFixtures' = SeenFixtures
  BY <1>1 DEF SeenEnvironments, SeenClouds, SeenFixtures, Early, Late, Answering, Observing
<1>7. DerivedFromAll'
  BY <1>1, <1>5, <1>6 DEF TInv, DerivedFromAll
<1> QED BY <1>1, <1>7 DEF TInv, Underway, OwnersUndisputed, Early, Late, Answering, Observing, Reading

\* One resource of a cloud moves from those left to those taken.
LEMMA DeriveCloudsKeeps ==
  ASSUME TInv, DeriveClouds
  PROVE  TInv'
<1>1. CASE pc = "kubernetes" /\ inventories = {} /\ Go("kubernetes", "cloud", input.cloud)
  <2>1. /\ pc = "kubernetes" /\ pc' = "cloud" /\ input' = input /\ inventories' = inventories
        /\ inventories = {} /\ graph' = graph /\ rest' = input.cloud
    BY <1>1 DEF Go, Exhausted, Enter
  <2>2. /\ SeenEnvironments' = SeenEnvironments /\ SeenClouds' = SeenClouds /\ SeenFixtures' = SeenFixtures
    BY <2>1 DEF SeenEnvironments, SeenClouds, SeenFixtures, Early, Late, Answering, Observing
  <2>3. SeenResources' = SeenResources
    BY <2>1 DEF SeenResources, Early
  <2>4. DerivedFromAll'
    BY <2>1, <2>2, <2>3 DEF TInv, DerivedFromAll
  <2> QED BY <2>1, <2>4 DEF TInv, Underway, OwnersUndisputed, Early, Late, Answering, Observing, Reading
<1>2. CASE Derive("cloud", DeriveCloud)
  <2>1. PICK r \in rest : Take("cloud", r) /\ graph' = DeriveCloud(graph, r)
    BY <1>2 DEF Derive
  <2>2. /\ pc = "cloud" /\ input' = input /\ pc' = pc /\ inventories' = inventories
        /\ rest' = rest \ {r}
    BY <1>2, <2>1 DEF Take, Derive
  <2>3. rest \subseteq input.cloud
    BY <2>2 DEF TInv, Underway
  <2>4. /\ SeenFixtures = {} /\ SeenClouds = input.cloud \ rest /\ SeenFixtures' = {}
        /\ SeenClouds' = input.cloud \ (rest \ {r}) /\ SeenEnvironments' = SeenEnvironments
    BY <2>2 DEF SeenEnvironments, SeenClouds, SeenFixtures, Early, Late, Answering, Observing
  <2>5. SeenClouds' = SeenClouds \cup {r}
    BY <2>3, <2>4
  <2>6. Settled(graph, SeenEnvironments, SeenResources, SeenClouds, {})
    BY <2>4 DEF TInv, DerivedFromAll
  <2>7. /\ Settled(graph', SeenEnvironments, SeenResources, SeenClouds \cup {r}, {})
        /\ Alike(graph', graph)
    BY <2>1, <2>6, SettledCloud
  <2>8. OfClosed(graph', input.inventories, inventories) = OfClosed(graph, input.inventories, inventories)
    BY <2>7, ClosedKept
  <2>9. SeenResources' = SeenResources
    BY <2>2, <2>8 DEF SeenResources, Early
  <2>10. DerivedFromAll'
    BY <2>4, <2>5, <2>7, <2>9 DEF DerivedFromAll
  <2> QED BY <2>2, <2>10 DEF TInv, Underway, OwnersUndisputed, Early, Late, Answering, Observing, Reading
<1> QED BY <1>1, <1>2 DEF DeriveClouds

\* One edge of the fixtures moves from those left to those taken.
LEMMA DeriveFixturesKeeps ==
  ASSUME TInv, DeriveFixtures
  PROVE  TInv'
<1>1. CASE Go("cloud", "fixtures", input.fixtures)
  <2>1. /\ pc = "cloud" /\ pc' = "fixtures" /\ input' = input /\ inventories' = inventories
        /\ graph' = graph /\ rest = {} /\ rest' = input.fixtures
    BY <1>1 DEF Go, Exhausted, Enter
  <2>2. /\ SeenEnvironments' = SeenEnvironments /\ SeenClouds' = SeenClouds /\ SeenFixtures' = SeenFixtures
    BY <2>1 DEF SeenEnvironments, SeenClouds, SeenFixtures, Early, Late, Answering, Observing
  <2>3. SeenResources' = SeenResources
    BY <2>1 DEF SeenResources, Early
  <2>4. DerivedFromAll'
    BY <2>1, <2>2, <2>3 DEF TInv, DerivedFromAll
  <2> QED BY <2>1, <2>4 DEF TInv, Underway, OwnersUndisputed, Early, Late, Answering, Observing, Reading
<1>2. CASE Derive("fixtures", DeriveFixtureEdge)
  <2>1. PICK f \in rest : Take("fixtures", f) /\ graph' = DeriveFixtureEdge(graph, f)
    BY <1>2 DEF Derive
  <2>2. /\ pc = "fixtures" /\ input' = input /\ pc' = pc /\ inventories' = inventories
        /\ rest' = rest \ {f}
    BY <1>2, <2>1 DEF Take, Derive
  <2>3. rest \subseteq input.fixtures /\ f \in input.fixtures /\ input \in Inputs
    BY <2>2 DEF TInv, Underway
  <2>4. /\ SeenFixtures = input.fixtures \ rest /\ SeenFixtures' = input.fixtures \ (rest \ {f})
        /\ SeenClouds' = SeenClouds /\ SeenEnvironments' = SeenEnvironments
    BY <2>2 DEF SeenEnvironments, SeenClouds, SeenFixtures, Early, Late, Answering, Observing
  <2>5. SeenFixtures' = SeenFixtures \cup {f}
    BY <2>3, <2>4
  <2>55. DOMAIN f = {"id", "up", "down", "kind", "facet", "confidence", "provenance", "evidence",
                     "sound", "order"}
    BY <2>3, InputsAssumption
  <2>6. DOMAIN Core(f) = EdgeFields
    BY <2>55 DEF Core, EdgeFields
  <2>7. /\ Settled(graph', SeenEnvironments, SeenResources, SeenClouds, SeenFixtures \cup {f})
        /\ Alike(graph', graph)
    BY <2>1, <2>6, SettledFixture DEF TInv, DerivedFromAll
  <2>8. OfClosed(graph', input.inventories, inventories) = OfClosed(graph, input.inventories, inventories)
    BY <2>7, ClosedKept
  <2>9. SeenResources' = SeenResources
    BY <2>2, <2>8 DEF SeenResources, Early
  <2>10. DerivedFromAll'
    BY <2>4, <2>5, <2>7, <2>9 DEF DerivedFromAll
  <2> QED BY <2>2, <2>10 DEF TInv, Underway, OwnersUndisputed, Early, Late, Answering, Observing, Reading
<1>3. CASE Go("fixtures", "alert", input.alerts)
  <2>1. /\ pc = "fixtures" /\ pc' = "alert" /\ input' = input /\ inventories' = inventories
        /\ graph' = graph /\ rest = {}
    BY <1>3 DEF Go, Exhausted, Enter
  <2>2. /\ SeenEnvironments' = SeenEnvironments /\ SeenClouds' = SeenClouds /\ SeenFixtures' = SeenFixtures
    BY <2>1 DEF SeenEnvironments, SeenClouds, SeenFixtures, Early, Late, Answering, Observing
  <2>3. SeenResources' = SeenResources
    BY <2>1 DEF SeenResources, Early
  <2>4. DerivedFromAll'
    BY <2>1, <2>2, <2>3 DEF TInv, DerivedFromAll
  <2> QED BY <2>1, <2>4 DEF TInv, Underway, OwnersUndisputed, Early, Late, Answering, Observing, Reading
<1> QED BY <1>1, <1>2, <1>3 DEF DeriveFixtures

\* A stutter keeps the invariant.
LEMMA TInvVars ==
  ASSUME TInv, UNCHANGED vars
  PROVE  TInv'
<1>1. Opened' = Opened
  BY DEF Opened, vars
<1>2. /\ input' = input /\ pc' = pc /\ rest' = rest /\ inventories' = inventories /\ graph' = graph
  BY DEF vars
<1>3. SeenResources' = SeenResources
  BY <1>1, <1>2 DEF SeenResources
<1>4. /\ SeenEnvironments' = SeenEnvironments /\ SeenClouds' = SeenClouds /\ SeenFixtures' = SeenFixtures
  BY <1>2 DEF SeenEnvironments, SeenClouds, SeenFixtures
<1>5. DerivedFromAll'
  BY <1>2, <1>3, <1>4 DEF TInv, DerivedFromAll
<1> QED BY <1>1, <1>2, <1>5 DEF TInv, Underway, OwnersUndisputed

\* Every step keeps the invariant, one lemma per action.
LEMMA TInvNext ==
  ASSUME TInv, [Next]_vars
  PROVE  TInv'
<1>1. CASE Derivation
  BY <1>1, AdmitEvidenceKeeps, LoadEvidenceKeeps, LoadStatusesKeeps, LoadIncidentKeeps,
     LoadIncidentsKeeps, DeriveEnvironmentsKeeps, OpenInventoryKeeps, DeriveResourcesKeeps,
     ContainResourcesKeeps, DeriveLinksKeeps, CloseInventoryKeeps, DeriveCloudsKeeps,
     DeriveFixturesKeeps, ObserveKeeps, ObservationsKeeps, OwnKeeps DEF Derivation
<1>2. CASE Ask
  BY <1>2, AskKeeps
<1>3. CASE WalkContext \/ Select \/ Restart \/ WalkShown \/ Reply
  <2>1. /\ pc \in Answering /\ pc' \in Answering /\ input' = input /\ inventories' = inventories
        /\ graph' = graph
    BY <1>3 DEF WalkContext, Select, Restart, WalkShown, Reply, Step, Answering
  <2> QED BY <2>1, AnsweringKeeps
<1>4. CASE Answered \/ UNCHANGED vars
  BY <1>4, TInvVars DEF Answered
<1> QED BY <1>1, <1>2, <1>3, <1>4 DEF Next

\* The graph is settled, and its owners undisputed, in every state.
LEMMA TInvAlways == Spec => []TInv
<1>1. Init => TInv
  BY TInvInit
<1>2. TInv /\ [Next]_vars => TInv'
  BY TInvNext
<1> QED BY <1>1, <1>2, PTL DEF Spec

\* No node is owned by a team that an admissible rule disputes.
THEOREM OwnersStand == Spec => []OwnedWithoutDispute
<1>1. TInv => OwnedWithoutDispute
  <2> SUFFICES ASSUME TInv, Derived, NEW n \in DOMAIN graph.nodes
               PROVE  Undisputed(n, graph.nodes[n], Admissibles)
    BY DEF OwnedWithoutDispute, Undisputed
  <2>1. pc \in Answering
    BY DEF Derived, Answering
  <2>2. Usable(graph, input.rules, WorkspaceTeam) = Admissibles
    BY DEF Usable, Admissibles
  <2> QED BY <2>1, <2>2 DEF TInv, OwnersUndisputed
<1> QED BY <1>1, TInvAlways, PTL

\* Once all are taken, what was described is what all records describe.
LEMMA DescribedIs ==
  ASSUME TInv, Derived
  PROVE  /\ Described = DescribedBy(graph, SeenEnvironments, SeenResources, SeenClouds)
         /\ SeenFixtures = input.fixtures
<1> DEFINE D == DescribedBy(graph, SeenEnvironments, SeenResources, SeenClouds)
           g == [graph EXCEPT !.nodes = <<>>]
           placed == {e \in input.environments : Placed(g, e)}
           envs == {e.env : e \in placed}
           settled == {e \in envs : EnvironmentId(e) \in DOMAIN graph.nodes}
           resources == UNION {v.resources : v \in {x \in input.inventories : x.env \in settled}}
           derivable == {r \in resources : Derivable(g, r)}
           anchored == {r \in input.cloud : Anchored(graph, r)}
           o == Only(graph.evidence)
<1>1. pc \in Answering
  BY DEF Derived, Answering
<1>2. inventories = {}
  BY <1>1 DEF TInv, Underway, Late
<1>3. /\ SeenEnvironments = input.environments /\ SeenClouds = input.cloud
      /\ SeenFixtures = input.fixtures
      /\ SeenResources = OfClosed(graph, input.inventories, {})
  BY <1>1, <1>2 DEF SeenEnvironments, SeenResources, SeenClouds, SeenFixtures, Early, Late, Answering, Observing
<1>4. g.evidence = graph.evidence
  BY TInvWoven, FieldsOfGraph
<1> HIDE DEF g
<1>5. /\ \A x : Placed(g, x) <=> Placed(o, x)
      /\ \A x : OfEnvironment(g, x) = OfEnvironment(o, x)
      /\ \A x : Derivable(g, x) <=> Derivable(o, x)
      /\ \A x : OfResource(g, x) = OfResource(o, x)
      /\ \A x : OfCloud(g, x) = OfCloud(o, x)
  <2>1. o = Only(g.evidence)
    BY <1>4
  <2> HIDE DEF o
  <2> QED BY <2>1, ByEvidence
<1>6. ASSUME NEW env
      PROVE  HasEnvironment(graph, env) <=> env \in settled
  <2>1. CASE HasEnvironment(graph, env)
    <3>1. PICK d \in D : d[1] = EnvironmentId(env)
      BY <2>1 DEF HasEnvironment, TInv, DerivedFromAll, Settled, Agreeing
    <3>2. \A r : OfResource(o, r)[1] # EnvironmentId(env) /\ OfCloud(o, r)[1] # EnvironmentId(env)
      BY IdsApart DEF OfResource, OfCloud
    <3>3. PICK e \in input.environments : Placed(o, e) /\ d = OfEnvironment(o, e)
      BY <1>3, <3>1, <3>2 DEF DescribedBy
    <3>4. e.env = env
      BY <3>1, <3>3 DEF OfEnvironment, EnvironmentId
    <3>5. e \in placed
      BY <1>5, <3>3
    <3> QED BY <2>1, <3>4, <3>5 DEF HasEnvironment
  <2>2. CASE env \in settled
    BY <2>2 DEF HasEnvironment
  <2> QED BY <2>1, <2>2
<1>7. resources = SeenResources
  <2>1. {x \in input.inventories : x.env \in settled} = {x \in input.inventories : HasEnvironment(graph, x.env)}
    BY <1>6
  <2>2. input.inventories \ {} = input.inventories
    OBVIOUS
  <2> HIDE DEF settled
  <2> QED BY <1>3, <2>1, <2>2 DEF OfClosed
<1> HIDE DEF resources
<1>8. Described = {<<EnvironmentId(e.env), EnvironmentNode(g, e)>> : e \in placed}
       \cup {<<ResourceId(r), ResourceNode(r, ResourceEvidence(g, r))>> : r \in derivable}
       \cup {<<CloudId(r), CloudNode(g, r)>> : r \in anchored}
  BY DEF Described, g, resources
<1>9. {<<EnvironmentId(e.env), EnvironmentNode(g, e)>> : e \in placed}
        = {OfEnvironment(o, e) : e \in {x \in input.environments : Placed(o, x)}}
  <2> HIDE DEF o
  <2> QED BY <1>5 DEF OfEnvironment
<1>10. {<<ResourceId(r), ResourceNode(r, ResourceEvidence(g, r))>> : r \in derivable}
        = {OfResource(o, r) : r \in {x \in SeenResources : Derivable(o, x)}}
  <2> HIDE DEF o
  <2> QED BY <1>5, <1>7 DEF OfResource
<1>11. {<<CloudId(r), CloudNode(g, r)>> : r \in anchored}
        = {OfCloud(o, r) : r \in {x \in input.cloud : Anchored(graph, x)}}
  <2> HIDE DEF o
  <2> QED BY <1>5 DEF OfCloud
<1> QED BY <1>3, <1>8, <1>9, <1>10, <1>11 DEF DescribedBy

\* The graph shows what all records that describe it describe alike.
THEOREM ShownWithoutDispute == Spec => []ShownIsUndisputed
<1>1. TInv => ShownIsUndisputed
  <2> SUFFICES ASSUME TInv, Derived
               PROVE  /\ \A d \in Described :
                           d[1] \in DOMAIN graph.nodes
                             <=> \A x, y \in {z \in Described : z[1] = d[1]} : SameNode(x[2], y[2])
                      /\ DOMAIN graph.nodes \subseteq {d[1] : d \in Described}
                      /\ \A f \in input.fixtures : Joins(graph, f) /\ f.id \in DOMAIN graph.edges =>
                           \A h \in input.fixtures : Joins(graph, h) /\ h.id = f.id =>
                             SameEdge(graph.edges[f.id], Core(h))
    BY DEF ShownIsUndisputed, Core
  <2> DEFINE D == Described
  <2>1. Agreeing(graph.nodes, graph.badNodes, D) /\ Uncontested(graph.edges, graph.badEdges, Cores(graph, input.fixtures))
    BY DescribedIs DEF TInv, DerivedFromAll, Settled
  <2> HIDE DEF D
  <2>2. ASSUME NEW d \in D
        PROVE  d[1] \in DOMAIN graph.nodes <=> \A x, y \in {z \in D : z[1] = d[1]} : SameNode(x[2], y[2])
    <3>1. CASE d[1] \in DOMAIN graph.nodes
      <4>1. \A x \in D : DOMAIN x[2] = NodeFields
        BY <2>1 DEF Agreeing
      <4>2. DOMAIN graph.nodes[d[1]] = NodeFields
        BY <2>1, <3>1 DEF Agreeing
      <4>3. \A x \in {z \in D : z[1] = d[1]} : SameNode(graph.nodes[d[1]], x[2])
        BY <2>1, <3>1 DEF Agreeing
      <4> QED BY <3>1, <4>1, <4>2, <4>3, SameNodeIs
    <3>2. CASE d[1] \notin DOMAIN graph.nodes
      <4>1. d[1] \in graph.badNodes
        BY <2>1, <3>2 DEF Agreeing
      <4>2. PICK b, c \in D : b[1] = d[1] /\ c[1] = d[1] /\ ~SameNode(b[2], c[2])
        BY <2>1, <4>1 DEF Agreeing
      <4> QED BY <3>2, <4>2
    <3> QED BY <3>1, <3>2
  <2>3. DOMAIN graph.nodes \subseteq {d[1] : d \in D}
    BY <2>1 DEF Agreeing
  <2>4. ASSUME NEW f \in input.fixtures, Joins(graph, f), f.id \in DOMAIN graph.edges,
               NEW h \in input.fixtures, Joins(graph, h), h.id = f.id
        PROVE  SameEdge(graph.edges[f.id], Core(h))
    <3>1. Core(h) \in Cores(graph, input.fixtures)
      BY <2>4 DEF Cores
    <3>2. DOMAIN h = {"id", "up", "down", "kind", "facet", "confidence", "provenance", "evidence",
                      "sound", "order"}
      BY InputsAssumption DEF TInv, Underway
    <3>3. Core(h).id = f.id
      BY <2>4, <3>2 DEF Core
    <3> QED BY <2>1, <2>4, <3>1, <3>3 DEF Uncontested
  <2> QED BY <2>2, <2>3, <2>4 DEF D
<1> QED BY <1>1, TInvAlways, PTL

-----------------------------------------------------------------------------
(***************************************************************************)
(* The nodes within some distance of the roots                             *)
(***************************************************************************)
LEMMA UpTo ==
  ASSUME NEW n \in Nat, NEW S, 0 \in S, \A k \in 0..n : k # n /\ k \in S => k + 1 \in S
  PROVE  \A k \in 0..n : k \in S
<1> DEFINE T == {k \in 0..n : k \notin S}
           Less == {ab \in Nat \X Nat : ab[1] < ab[2]}
<1> SUFFICES ASSUME T # {}
             PROVE  FALSE
  OBVIOUS
<1>1. Less = OpToRel(<, Nat)
  BY DEF OpToRel
<1>2. IsWellFoundedOn(Less, Nat)
  BY <1>1, NatLessThanWellFounded
<1>3. PICK m \in T : \A k \in T : <<k, m>> \notin Less
  <2>1. T \subseteq Nat
    OBVIOUS
  <2> HIDE DEF T, Less
  <2> QED BY <1>2, <2>1, WFMin
<1>4. m # 0 /\ m \in 1..n
  BY <1>3
<1>5. m - 1 \in 0..n /\ m - 1 # n /\ m - 1 \in Nat
  BY <1>4
<1>6. <<m - 1, m>> \in Less
  BY <1>4, <1>5
<1>7. m - 1 \in S
  BY <1>3, <1>5, <1>6
<1> QED BY <1>3, <1>4, <1>5, <1>7

Grown(S, edges, direction) ==
  S \cup {To(edges[e], direction) : e \in {x \in DOMAIN edges : From(edges[x], direction) \in S}}

Table(f, roots, edges, direction, depth) ==
  f = [d \in 0..depth |-> IF d = 0 THEN roots ELSE Grown(f[d - 1], edges, direction)]

Layers(roots, edges, direction, depth) == CHOOSE f : Table(f, roots, edges, direction, depth)

\* Ball is the last of these layers.
LEMMA BallIs ==
  ASSUME NEW roots, NEW direction, NEW depth
  PROVE  Ball(roots, direction, depth) = Layers(roots, graph.edges, direction, depth)[depth]
BY DEF Ball, Layers, Table, Grown

\* The layers exist: each is the one before grown by an edge.
LEMMA LayersAre ==
  ASSUME NEW roots, NEW edges, NEW direction, NEW depth \in Nat,
         NEW f, f = Layers(roots, edges, direction, depth)
  PROVE  /\ f[0] = roots
         /\ \A d \in 1..depth : f[d] = Grown(f[d - 1], edges, direction)
<1> DEFINE S == {k \in Nat : \E g : Table(g, roots, edges, direction, k)}
<1>1. 0 \in S
  <2>1. Table([d \in 0..0 |-> roots], roots, edges, direction, 0)
    BY DEF Table
  <2> QED BY <2>1
<1>2. ASSUME NEW k \in 0..depth, k # depth, k \in S
      PROVE  k + 1 \in S
  <2>1. PICK g : Table(g, roots, edges, direction, k)
    BY <1>2
  <2> DEFINE h == [d \in 0..(k + 1) |-> IF d = k + 1 THEN Grown(g[k], edges, direction) ELSE g[d]]
  <2>2. DOMAIN g = 0..k /\ \A d \in 0..k : g[d] = IF d = 0 THEN roots ELSE Grown(g[d - 1], edges, direction)
    BY <2>1 DEF Table
  <2>3. \A d \in 0..(k + 1) : h[d] = IF d = 0 THEN roots ELSE Grown(h[d - 1], edges, direction)
    <3>1. \A d \in 0..k : h[d] = g[d]
      OBVIOUS
    <3>2. h[k + 1] = Grown(h[k], edges, direction)
      BY <3>1
    <3> HIDE DEF h
    <3>3. ASSUME NEW d \in 0..k
          PROVE  h[d] = IF d = 0 THEN roots ELSE Grown(h[d - 1], edges, direction)
      <4>1. d # 0 => d - 1 \in 0..k
        OBVIOUS
      <4>2. d # 0 => h[d - 1] = g[d - 1]
        BY <3>1, <4>1
      <4> QED BY <2>2, <3>1, <4>2
    <3> QED BY <3>2, <3>3
  <2>4. h = [d \in 0..(k + 1) |-> h[d]]
    OBVIOUS
  <2> HIDE DEF h
  <2>5. h = [d \in 0..(k + 1) |-> IF d = 0 THEN roots ELSE Grown(h[d - 1], edges, direction)]
    BY <2>3, <2>4
  <2>6. Table(h, roots, edges, direction, k + 1)
    BY <2>5 DEF Table
  <2> QED BY <2>6
<1> HIDE DEF S
<1>3. depth \in S
  BY <1>1, <1>2, UpTo
<1>4. \E g : Table(g, roots, edges, direction, depth)
  BY <1>3 DEF S
<1>5. Table(f, roots, edges, direction, depth)
  BY <1>4 DEF Layers
<1>6. f = [d \in 0..depth |-> IF d = 0 THEN roots ELSE Grown(f[d - 1], edges, direction)]
  BY <1>5 DEF Table
<1>7. \A d \in 0..depth : f[d] = IF d = 0 THEN roots ELSE Grown(f[d - 1], edges, direction)
  BY <1>6
<1> QED BY <1>7

\* No layer loses what an earlier one reached.
LEMMA LayersGrow ==
  ASSUME NEW roots, NEW edges, NEW direction, NEW depth \in Nat,
         NEW f, f = Layers(roots, edges, direction, depth)
  PROVE  \A i \in 0..depth : f[i] \subseteq f[depth]
<1>0. \A d \in 1..depth : f[d] = Grown(f[d - 1], edges, direction)
  BY LayersAre
<1>1. \A d \in 1..depth : f[d - 1] \subseteq f[d]
  BY <1>0 DEF Grown
<1> DEFINE S == {k \in 0..depth : f[depth - k] \subseteq f[depth]}
<1>2. 0 \in S
  OBVIOUS
<1>3. ASSUME NEW k \in 0..depth, k # depth, k \in S
      PROVE  k + 1 \in S
  <2>1. depth - k \in 1..depth /\ depth - (k + 1) = depth - k - 1
    BY <1>3
  <2>2. f[depth - (k + 1)] \subseteq f[depth - k]
    BY <1>1, <2>1
  <2> QED BY <1>3, <2>2
<1> HIDE DEF S
<1>4. \A k \in 0..depth : k \in S
  BY <1>2, <1>3, UpTo
<1>5. ASSUME NEW i \in 0..depth
      PROVE  f[i] \subseteq f[depth]
  <2>1. depth - i \in 0..depth /\ depth - (depth - i) = i
    OBVIOUS
  <2>2. depth - i \in S
    BY <1>4, <2>1
  <2> QED BY <2>1, <2>2 DEF S
<1> QED BY <1>5

-----------------------------------------------------------------------------
(***************************************************************************)
(* Routes                                                                  *)
(***************************************************************************)
Crosses(edges, direction, n, m) ==
  \E e \in DOMAIN edges : From(edges[e], direction) = n /\ To(edges[e], direction) = m

\* A way of at most so many edges from a root, without a node twice.
Route(r, nodes, edges, roots, direction, depth) ==
  /\ r \in Seq(DOMAIN nodes) /\ Len(r) \in 1..(depth + 1)
  /\ r[1] \in roots
  /\ \A i \in 1..Len(r) : i # Len(r) => Crosses(edges, direction, r[i], r[i + 1])
  /\ \A i, j \in 1..Len(r) : r[i] = r[j] => i = j

\* Every node within the distance is at the end of such a way.
LEMMA LayerRoute ==
  ASSUME NEW nodes, NEW edges, NEW roots, roots \subseteq DOMAIN nodes, NEW direction,
         \A e \in DOMAIN edges : To(edges[e], direction) \in DOMAIN nodes,
         NEW depth \in Nat, NEW f, f = Layers(roots, edges, direction, depth),
         NEW n \in f[depth]
  PROVE  \E r : Route(r, nodes, edges, roots, direction, depth) /\ r[Len(r)] = n
<1> DEFINE Ends(k, m) == \E r : /\ Route(r, nodes, edges, roots, direction, k)
                                /\ r[Len(r)] = m /\ \A i \in 1..Len(r) : r[i] \in f[k]
           S == {k \in 0..depth : \A m \in f[k] : Ends(k, m)}
<1>0. f[0] = roots /\ \A d \in 1..depth : f[d] = Grown(f[d - 1], edges, direction)
  BY LayersAre
<1>1. 0 \in S
  <2> SUFFICES ASSUME NEW m \in roots
               PROVE  Ends(0, m)
    BY <1>0
  <2>1. /\ <<m>> \in Seq(DOMAIN nodes) /\ Len(<<m>>) = 1 /\ <<m>>[1] = m
    OBVIOUS
  <2>2. Route(<<m>>, nodes, edges, roots, direction, 0)
    BY <2>1 DEF Route
  <2> DEFINE q == <<m>>
  <2>3. /\ Route(q, nodes, edges, roots, direction, 0) /\ q[Len(q)] = m
        /\ \A i \in 1..Len(q) : q[i] \in f[0]
    BY <1>0, <2>1, <2>2
  <2> HIDE DEF q
  <2> QED BY <2>3
<1>2. ASSUME NEW k \in 0..depth, k # depth, k \in S
      PROVE  k + 1 \in S
  <2>0. k + 1 \in 0..depth /\ k + 1 \in 1..depth /\ k + 1 - 1 = k
    BY <1>2
  <2>1. f[k + 1] = Grown(f[k], edges, direction)
    BY <1>0, <2>0
  <2>2. ASSUME NEW m \in f[k + 1]
        PROVE  Ends(k + 1, m)
    <3>1. CASE m \in f[k]
      <4>1. PICK r : /\ Route(r, nodes, edges, roots, direction, k)
                     /\ r[Len(r)] = m /\ \A i \in 1..Len(r) : r[i] \in f[k]
        BY <1>2, <3>1
      <4>2. Route(r, nodes, edges, roots, direction, k + 1)
        BY <4>1 DEF Route
      <4> QED BY <2>1, <4>1, <4>2 DEF Grown
    <3>2. CASE m \notin f[k]
      <4>1. PICK e \in DOMAIN edges : From(edges[e], direction) \in f[k] /\ m = To(edges[e], direction)
        BY <2>1, <3>2 DEF Grown
      <4>2. PICK r : /\ Route(r, nodes, edges, roots, direction, k)
                     /\ r[Len(r)] = From(edges[e], direction) /\ \A i \in 1..Len(r) : r[i] \in f[k]
        BY <1>2, <4>1
      <4> DEFINE q == Append(r, m)
      <4>3. m \in DOMAIN nodes /\ r \in Seq(DOMAIN nodes) /\ Len(r) \in 1..(k + 1)
        BY <4>1, <4>2 DEF Route
      <4>4. /\ q \in Seq(DOMAIN nodes) /\ Len(q) = Len(r) + 1 /\ q[Len(q)] = m
            /\ \A i \in 1..Len(r) : q[i] = r[i]
        BY <4>3, AppendProperties
      <4> HIDE DEF q
      <4>5. \A i \in 1..Len(q) : i # Len(q) => Crosses(edges, direction, q[i], q[i + 1])
        <5> SUFFICES ASSUME NEW i \in 1..Len(r)
                     PROVE  Crosses(edges, direction, q[i], q[i + 1])
          BY <4>3, <4>4
        <5>1. CASE i = Len(r)
          BY <4>1, <4>2, <4>4, <5>1 DEF Crosses
        <5>2. CASE i # Len(r)
          <6>1. i + 1 \in 1..Len(r)
            BY <4>3, <5>2
          <6> QED BY <4>2, <4>4, <5>2, <6>1 DEF Route
        <5> QED BY <5>1, <5>2
      <4>6. \A i, j \in 1..Len(q) : q[i] = q[j] => i = j
        <5>1. \A i \in 1..Len(r) : q[i] # m
          BY <3>2, <4>2, <4>4
        <5>2. \A i, j \in 1..Len(r) : q[i] = q[j] => i = j
          BY <4>2, <4>4 DEF Route
        <5>3. 1..Len(q) = 1..Len(r) \cup {Len(q)}
          BY <4>3, <4>4
        <5> QED BY <4>4, <5>1, <5>2, <5>3
      <4>7. q[1] \in roots
        BY <4>2, <4>3, <4>4 DEF Route
      <4>8. Len(q) \in 1..(k + 1 + 1)
        BY <4>3, <4>4
      <4>9. Route(q, nodes, edges, roots, direction, k + 1)
        BY <4>4, <4>5, <4>6, <4>7, <4>8 DEF Route
      <4>10. \A i \in 1..Len(q) : q[i] \in f[k + 1]
        <5>1. 1..Len(q) = 1..Len(r) \cup {Len(q)}
          BY <4>3, <4>4
        <5> QED BY <2>1, <2>2, <4>2, <4>4, <5>1 DEF Grown
      <4> QED BY <4>4, <4>9, <4>10
    <3> QED BY <3>1, <3>2
  <2> HIDE DEF Ends
  <2> QED BY <2>0, <2>2
<1> HIDE DEF S, Ends
<1>3. depth \in S
  BY <1>1, <1>2, UpTo
<1> QED BY <1>3 DEF S, Ends

-----------------------------------------------------------------------------
(***************************************************************************)
(* One turn of the walk                                                    *)
(***************************************************************************)
Lists(q, S) == q \in Seq(S) /\ \A x \in S : \E i \in 1..Len(q) : q[i] = x

\* Putting a finite set in order keeps all its elements and adds none.
LEMMA SeqOfSet ==
  ASSUME NEW S, IsFiniteSet(S)
  PROVE  Lists(SetToSeq(S), S)
<1> DEFINE n == Cardinality(S)
           q == SetToSeq(S)
<1>1. n \in Nat /\ Bijection(1..n, S) # {}
  BY FS_CardinalityType DEF ExistsBijection
<1>2. IsFiniteSet(1..n) /\ Cardinality(1..n) = n
  BY <1>1, FS_Interval
<1>3. q = CHOOSE f \in [1..n -> S] : IsInjective(f)
  BY DEF SetToSeq
<1> HIDE DEF n, q
<1>4. \E f \in [1..n -> S] : IsInjective(f)
  BY <1>1 DEF Bijection, Injection
<1>5. q \in [1..n -> S] /\ IsInjective(q)
  BY <1>3, <1>4
<1>6. q \in Injection(1..n, S)
  BY <1>5 DEF Injection
<1>7. q \in Surjection(1..n, S)
  BY <1>2, <1>6, FS_Injection DEF n
<1>8. q \in Seq(S) /\ Len(q) = n
  BY <1>1, <1>5, SeqDef
<1> QED BY <1>7, <1>8 DEF Surjection, Lists, q

\* An image of a finite set is finite.
LEMMA ImageFinite ==
  ASSUME NEW S, IsFiniteSet(S), NEW f, DOMAIN f = S, NEW T, T = {f[x] : x \in S}
  PROVE  IsFiniteSet(T)
<1> DEFINE h == [x \in S |-> f[x]]
<1>1. h \in Surjection(S, T)
  BY DEF Surjection
<1> HIDE DEF h
<1> QED BY <1>1, FS_Surjection

Sequence(q) == \E S : q \in Seq(S)

StateFields == {"root", "direction", "nodes", "edges", "evidence", "confidence"}

\* A state of the walk: a way from a root, each node no further than its place.
StateOf(s, nodes, edges, roots, depth) ==
  /\ DOMAIN s = StateFields
  /\ s.nodes \in Seq(DOMAIN nodes) /\ Sequence(s.edges)
  /\ Len(s.nodes) = Len(s.edges) + 1 /\ Len(s.edges) <= depth
  /\ \A i \in 1..Len(s.nodes) :
       s.nodes[i] \in Layers(roots, edges, s.direction, depth)[i - 1]

AtRoot(s, r, d, nodes, edges, roots, depth) ==
  StateOf(s, nodes, edges, roots, depth) /\ s.direction = d /\ s.nodes = <<r>>

\* A walk begins at its root.
LEMMA BeginIs ==
  ASSUME NEW nodes, NEW edges, NEW roots, NEW depth \in Nat
  PROVE  \A r \in roots \cap DOMAIN nodes : \A d : AtRoot(Begin(r, d, nodes), r, d, nodes, edges, roots, depth)
<1> SUFFICES ASSUME NEW r \in roots \cap DOMAIN nodes, NEW d, NEW s, s = Begin(r, d, nodes)
             PROVE  AtRoot(s, r, d, nodes, edges, roots, depth)
  OBVIOUS
<1>1. /\ DOMAIN s = StateFields /\ s.direction = d /\ s.nodes = <<r>> /\ s.edges = <<>>
  BY DEF Begin, StateFields
<1>2. Layers(roots, edges, d, depth)[0] = roots
  BY LayersAre
<1>3. s.edges \in Seq({}) /\ Len(s.edges) = 0
  BY <1>1
<1> QED BY <1>1, <1>2, <1>3 DEF AtRoot, StateOf, Sequence

Onward(e, s, nodes, edges, depth) ==
  /\ Len(s.edges) < depth /\ e \in DOMAIN edges
  /\ From(edges[e], s.direction) = Last(s.nodes) /\ To(edges[e], s.direction) \in DOMAIN nodes
GoesOn(x, s, to, nodes, edges, roots, depth) ==
  /\ StateOf(x, nodes, edges, roots, depth)
  /\ x.direction = s.direction /\ x.nodes = Append(s.nodes, to)

\* A state that goes on along an edge is one node further.
LEMMA ExtendedIs ==
  ASSUME NEW nodes, NEW edges, NEW roots, NEW depth \in Nat, NEW s, StateOf(s, nodes, edges, roots, depth)
  PROVE  \A e : Onward(e, s, nodes, edges, depth) =>
           GoesOn(Extended(s, edges[e], nodes), s, To(edges[e], s.direction), nodes, edges, roots, depth)
<1> SUFFICES ASSUME NEW e, Onward(e, s, nodes, edges, depth),
                    NEW t, t = Extended(s, edges[e], nodes)
             PROVE  GoesOn(t, s, To(edges[e], s.direction), nodes, edges, roots, depth)
  OBVIOUS
<1>0. /\ Len(s.edges) < depth /\ e \in DOMAIN edges
      /\ From(edges[e], s.direction) = Last(s.nodes) /\ To(edges[e], s.direction) \in DOMAIN nodes
  BY DEF Onward
<1> DEFINE to == To(edges[e], s.direction)
           id == edges[e].id
           f == Layers(roots, edges, s.direction, depth)
<1>1. /\ DOMAIN t = StateFields /\ t.direction = s.direction
      /\ t.nodes = Append(s.nodes, to) /\ t.edges = Append(s.edges, id)
  BY DEF Extended, StateOf, StateFields
<1>2. PICK ids : s.edges \in Seq(ids)
  BY DEF StateOf, Sequence
<1>3. /\ s.nodes \in Seq(DOMAIN nodes) /\ to \in DOMAIN nodes
      /\ Len(s.nodes) = Len(s.edges) + 1 /\ Len(s.edges) \in Nat
  BY <1>0, <1>2, LenProperties DEF StateOf
<1> HIDE DEF to, id, f
<1>4. /\ t.nodes \in Seq(DOMAIN nodes) /\ Len(t.nodes) = Len(s.nodes) + 1
      /\ \A i \in 1..Len(s.nodes) : t.nodes[i] = s.nodes[i]
      /\ t.nodes[Len(s.nodes) + 1] = to
  BY <1>1, <1>3, AppendProperties
<1>5. t.edges \in Seq(ids \cup {id}) /\ Len(t.edges) = Len(s.edges) + 1
  <2>1. s.edges \in Seq(ids \cup {id})
    BY <1>2, SeqMonotonic
  <2> QED BY <1>1, <2>1, AppendProperties
<1>6. \A i \in 1..Len(s.nodes) : s.nodes[i] \in f[i - 1]
  BY DEF StateOf, f
<1>7. to \in f[Len(s.nodes)]
  <2>1. Len(s.nodes) \in 1..depth
    BY <1>0, <1>3
  <2>2. f[Len(s.nodes)] = Grown(f[Len(s.nodes) - 1], edges, s.direction)
    BY <2>1, LayersAre DEF f
  <2>3. From(edges[e], s.direction) \in f[Len(s.nodes) - 1]
    BY <1>0, <1>6, <2>1 DEF Last
  <2> QED BY <1>0, <2>2, <2>3 DEF Grown, to
<1>8. \A i \in 1..Len(t.nodes) : t.nodes[i] \in f[i - 1]
  <2> SUFFICES ASSUME NEW i \in 1..Len(t.nodes)
               PROVE  t.nodes[i] \in f[i - 1]
    OBVIOUS
  <2>1. CASE i \in 1..Len(s.nodes)
    BY <1>4, <1>6, <2>1
  <2>2. CASE i = Len(s.nodes) + 1
    <3>1. i - 1 = Len(s.nodes)
      BY <1>3, <2>2
    <3> QED BY <1>4, <1>7, <2>2, <3>1
  <2> QED BY <1>3, <1>4, <2>1, <2>2
<1>9. Len(t.nodes) = Len(t.edges) + 1 /\ Len(t.edges) <= depth
  BY <1>0, <1>3, <1>4, <1>5
<1> QED BY <1>1, <1>4, <1>5, <1>8, <1>9 DEF GoesOn, StateOf, Sequence, f, to

\* A path that ends has the nodes of the state it ends.
LEMMA PathNodes ==
  ASSUME NEW s, DOMAIN s = StateFields
  PROVE  /\ \A end : PathOf(s, end).nodes = s.nodes
         /\ \A edge : CyclePath(s, edge).nodes = s.nodes
BY DEF PathOf, CyclePath, StateFields, With

\* What one turn makes of the state on top: all it pushes and gives out goes
\* on from it, it is not lost without a trace, and each way on is pushed.
Turned(t, s, nodes, edges, roots, depth) ==
  /\ Sequence(t.push)
  /\ \A i \in 1..Len(t.push) : StateOf(t.push[i], nodes, edges, roots, depth) /\ t.push[i].direction = s.direction
  /\ \A p \in t.paths : p.nodes = s.nodes
  /\ \/ Len(s.nodes) = 1 \/ t.paths # {}
     \/ \E i \in 1..Len(t.push) : ToSet(s.nodes) \subseteq ToSet(t.push[i].nodes)
  /\ \A m : /\ Len(s.edges) < depth /\ m \notin ToSet(s.nodes)
            /\ Crosses(edges, s.direction, Last(s.nodes), m)
            => \E i \in 1..Len(t.push) : t.push[i].nodes = Append(s.nodes, m)

\* One turn of the loop, whatever edges leave the last node.
LEMMA TurnIs ==
  ASSUME NEW nodes, NEW edges, NEW roots, NEW depth \in Nat, NEW s, StateOf(s, nodes, edges, roots, depth),
         IsFiniteSet(DOMAIN edges), \A e \in DOMAIN edges : {edges[e].up, edges[e].down} \subseteq DOMAIN nodes
  PROVE  Turned(Turn(s, nodes, edges, depth), s, nodes, edges, roots, depth)
<1> SUFFICES ASSUME NEW t, t = Turn(s, nodes, edges, depth)
             PROVE  Turned(t, s, nodes, edges, roots, depth)
  OBVIOUS
<1> DEFINE next == Neighbours(edges, nodes, s.direction, Last(s.nodes))
           closing == {e \in next : To(edges[e], s.direction) \in ToSet(s.nodes)}
           cycles == {CyclePath(s, edges[e]) : e \in closing}
           onward == next \ closing
           f == [e \in onward |-> Extended(s, edges[e], nodes)]
           T == {f[e] : e \in onward}
           q == SetToSeq({Extended(s, edges[e], nodes) : e \in onward})
<1>1. t = CASE next = {} -> [push |-> <<>>, paths |-> IF s.edges = <<>> THEN {} ELSE {PathOf(s, "leaf")}]
            [] next # {} /\ Len(s.edges) >= depth ->
                 [push |-> <<>>, paths |-> cycles \cup (IF onward = {} THEN {} ELSE {PathOf(s, "limit")})]
            [] OTHER -> [push |-> q, paths |-> cycles]
  BY DEF Turn
<1>2. /\ \A e \in next : e \in DOMAIN edges /\ From(edges[e], s.direction) = Last(s.nodes)
      /\ \A e \in DOMAIN edges : From(edges[e], s.direction) = Last(s.nodes) => e \in next
      /\ \A e \in DOMAIN edges : To(edges[e], s.direction) \in DOMAIN nodes
  BY DEF Neighbours, To
<1>3. \A p \in cycles : p.nodes = s.nodes
  BY PathNodes DEF StateOf
<1>4. PathOf(s, "leaf").nodes = s.nodes /\ PathOf(s, "limit").nodes = s.nodes
  BY PathNodes DEF StateOf
<1>5. PICK ids : s.edges \in Seq(ids)
  BY DEF StateOf, Sequence
<1>6. Len(s.edges) \in Nat /\ Len(s.nodes) = Len(s.edges) + 1 /\ s.nodes \in Seq(DOMAIN nodes)
  BY <1>5, LenProperties DEF StateOf
<1>7. s.edges = <<>> => Len(s.nodes) = 1
  BY <1>6
<1>8. \A m : Crosses(edges, s.direction, Last(s.nodes), m) /\ m \notin ToSet(s.nodes)
             => \E e \in onward : To(edges[e], s.direction) = m
  BY <1>2 DEF Crosses
<1>9. closing = {} => onward = next
  OBVIOUS
<1>10. closing # {} => cycles # {}
  OBVIOUS
<1>11. <<>> \in Seq({}) /\ Len(<<>>) = 0 /\ 1..0 = {}
  OBVIOUS
<1>12. onward \subseteq next
  OBVIOUS
<1>13. q = SetToSeq(T)
  OBVIOUS
<1>14. DOMAIN f = onward /\ \A e \in onward : f[e] = Extended(s, edges[e], nodes)
  OBVIOUS
<1>15. IsFiniteSet(T)
  <2>1. next \subseteq DOMAIN edges
    BY <1>2
  <2>2. onward \subseteq DOMAIN edges
    BY <2>1
  <2> HIDE DEF onward, f, next, closing
  <2>3. IsFiniteSet(onward)
    BY <2>2, FS_Subset
  <2> QED BY <1>14, <2>3, ImageFinite
<1> HIDE DEF next, cycles, onward, f, q, closing
<1>16. CASE next = {}
  <2>1. t.push = <<>> /\ t.paths = IF s.edges = <<>> THEN {} ELSE {PathOf(s, "leaf")}
    <3>1. t = [push |-> <<>>, paths |-> IF s.edges = <<>> THEN {} ELSE {PathOf(s, "leaf")}]
      BY <1>1, <1>16
    <3> QED BY <3>1
  <2>2. \A m : ~ (Crosses(edges, s.direction, Last(s.nodes), m) /\ m \notin ToSet(s.nodes))
    BY <1>8, <1>12, <1>16
  <2>3. \A p \in t.paths : p.nodes = s.nodes
    BY <1>4, <2>1
  <2>4. Len(s.nodes) = 1 \/ t.paths # {}
    BY <1>7, <2>1
  <2> QED BY <1>11, <2>1, <2>2, <2>3, <2>4 DEF Turned, Sequence
<1>17. CASE next # {} /\ Len(s.edges) >= depth
  <2>1. t.push = <<>> /\ t.paths = cycles \cup (IF onward = {} THEN {} ELSE {PathOf(s, "limit")})
    BY <1>1, <1>17
  <2>2. t.paths # {}
    BY <1>9, <1>10, <1>17, <2>1
  <2>3. ~ (Len(s.edges) < depth)
    BY <1>6, <1>17
  <2>4. \A p \in t.paths : p.nodes = s.nodes
    BY <1>3, <1>4, <2>1
  <2> QED BY <1>11, <2>1, <2>2, <2>3, <2>4 DEF Turned, Sequence
<1>18. CASE next # {} /\ ~(Len(s.edges) >= depth)
  <2>1. t.push = q /\ t.paths = cycles
    BY <1>1, <1>18
  <2>2. Len(s.edges) < depth
    BY <1>6, <1>18
  <2>3. ASSUME NEW e \in onward
        PROVE  /\ StateOf(f[e], nodes, edges, roots, depth) /\ f[e].direction = s.direction
               /\ f[e].nodes = Append(s.nodes, To(edges[e], s.direction))
    <3>1. /\ e \in DOMAIN edges /\ From(edges[e], s.direction) = Last(s.nodes)
          /\ To(edges[e], s.direction) \in DOMAIN nodes
      BY <1>2, <1>12
    <3>2. f[e] = Extended(s, edges[e], nodes)
      BY <1>14
    <3>3. Onward(e, s, nodes, edges, depth)
      BY <2>2, <3>1 DEF Onward
    <3>4. GoesOn(f[e], s, To(edges[e], s.direction), nodes, edges, roots, depth)
      <4>1. GoesOn(Extended(s, edges[e], nodes), s, To(edges[e], s.direction), nodes, edges, roots, depth)
        BY <3>3, ExtendedIs
      <4> QED BY <3>2, <4>1
    <3> QED BY <3>4 DEF GoesOn
  <2> HIDE DEF T
  <2>4. q \in Seq(T) /\ \A x \in T : \E i \in 1..Len(q) : q[i] = x
    <3>1. Lists(SetToSeq(T), T)
      BY <1>15, SeqOfSet
    <3> QED BY <1>13, <3>1 DEF Lists
  <2>5. \A i \in 1..Len(q) : \E e \in onward : q[i] = f[e]
    <3>1. \A i \in 1..Len(q) : q[i] \in T
      BY <2>4, ElementOfSeq
    <3> QED BY <3>1 DEF T
  <2>6. \A e \in onward : \E i \in 1..Len(q) : q[i] = f[e]
    BY <2>4 DEF T
  <2>7. \A e \in onward : ToSet(s.nodes) \subseteq ToSet(f[e].nodes)
    <3> SUFFICES ASSUME NEW e \in onward
                 PROVE  ToSet(s.nodes) \subseteq ToSet(f[e].nodes)
      OBVIOUS
    <3> DEFINE to == To(edges[e], s.direction)
    <3>1. f[e].nodes = Append(s.nodes, to) /\ to \in DOMAIN nodes
      BY <1>2, <1>12, <2>3
    <3> HIDE DEF to
    <3>2. /\ Append(s.nodes, to) \in Seq(DOMAIN nodes) /\ Len(Append(s.nodes, to)) = Len(s.nodes) + 1
          /\ \A i \in 1..Len(s.nodes) : Append(s.nodes, to)[i] = s.nodes[i]
      BY <1>6, <3>1, AppendProperties
    <3>3. DOMAIN s.nodes = 1..Len(s.nodes) /\ DOMAIN f[e].nodes = 1..(Len(s.nodes) + 1)
      BY <1>6, <3>1, <3>2
    <3>4. \A i \in DOMAIN s.nodes : i \in DOMAIN f[e].nodes /\ f[e].nodes[i] = s.nodes[i]
      BY <1>6, <3>1, <3>2, <3>3
    <3> QED BY <3>4 DEF ToSet
  <2>8. t.paths # {} \/ \E i \in 1..Len(q) : ToSet(s.nodes) \subseteq ToSet(q[i].nodes)
    <3>1. CASE closing # {}
      BY <1>10, <2>1, <3>1
    <3>2. CASE closing = {}
      <4>1. PICK e \in onward : TRUE
        BY <1>9, <1>18, <3>2
      <4>2. PICK i \in 1..Len(q) : q[i] = f[e]
        BY <2>6
      <4> QED BY <2>7, <4>2
    <3> QED BY <3>1, <3>2
  <2>9. \A m : m \notin ToSet(s.nodes) /\ Crosses(edges, s.direction, Last(s.nodes), m)
               => \E i \in 1..Len(q) : q[i].nodes = Append(s.nodes, m)
    <3> SUFFICES ASSUME NEW m, m \notin ToSet(s.nodes), Crosses(edges, s.direction, Last(s.nodes), m)
                 PROVE  \E i \in 1..Len(q) : q[i].nodes = Append(s.nodes, m)
      OBVIOUS
    <3>1. PICK e \in onward : To(edges[e], s.direction) = m
      BY <1>8
    <3>2. PICK i \in 1..Len(q) : q[i] = f[e]
      BY <2>6
    <3> QED BY <2>3, <3>1, <3>2
  <2>10. \A i \in 1..Len(q) : StateOf(q[i], nodes, edges, roots, depth) /\ q[i].direction = s.direction
    BY <2>3, <2>5
  <2> QED BY <1>3, <2>1, <2>4, <2>8, <2>9, <2>10 DEF Turned, Sequence
<1> QED BY <1>16, <1>17, <1>18

-----------------------------------------------------------------------------
(***************************************************************************)
(* The whole walk                                                          *)
(***************************************************************************)
Held(st2, st, push) ==
  /\ Sequence(st2) /\ Len(st) \in 1..Len(st)
  /\ \A i \in 1..Len(st2) : \/ (\E j \in 1..Len(st) : st2[i] = st[j])
                             \/ (\E j \in 1..Len(push) : st2[i] = push[j])
  /\ \A j \in 1..Len(st) : j # Len(st) => \E i \in 1..Len(st2) : st2[i] = st[j]
  /\ \A j \in 1..Len(push) : \E i \in 1..Len(st2) : st2[i] = push[j]

\* The stack after a turn: all of the old but its top, and what was pushed.
LEMMA StackTurned ==
  ASSUME NEW st, Sequence(st), st # <<>>, NEW push, Sequence(push)
  PROVE  Held(Front(st) \o push, st, push)
<1>1. PICK S : st \in Seq(S)
  BY DEF Sequence
<1>2. PICK T : push \in Seq(T)
  BY DEF Sequence
<1> DEFINE U == S \cup T
           front == SubSeq(st, 1, Len(st) - 1)
           st2 == Front(st) \o push
<1>3. st \in Seq(U) /\ push \in Seq(U)
  <2>1. st \in Seq(U)
    BY <1>1, SeqMonotonic
  <2>2. push \in Seq(U)
    BY <1>2, SeqMonotonic
  <2> QED BY <2>1, <2>2
<1> HIDE DEF U, front, st2
<1>4. Len(st) \in Nat /\ Len(st) # 0 /\ Len(push) \in Nat
  BY <1>3, EmptySeq, LenProperties
<1>5. /\ front \in Seq(U) /\ Len(front) = Len(st) - 1
      /\ \A i \in 1..(Len(st) - 1) : front[i] = st[i]
  <2>1. \A i \in 1..(Len(st) - 1) : st[i] \in U
    BY <1>3, <1>4, ElementOfSeq
  <2>2. /\ front \in Seq(U) /\ Len(front) = IF 1 <= Len(st) - 1 THEN Len(st) - 1 - 1 + 1 ELSE 0
        /\ \A i \in 1..(Len(st) - 1 - 1 + 1) : front[i] = st[1 + i - 1]
    BY <1>4, <2>1, SubSeqProperties DEF front
  <2>3. Len(front) = Len(st) - 1
    <3>1. CASE Len(st) = 1
      <4>1. ~(1 <= Len(st) - 1)
        BY <3>1
      <4> QED BY <2>2, <3>1, <4>1
    <3>2. CASE Len(st) # 1
      <4>0. \A n \in Nat : n # 0 /\ n # 1 => 1 <= n - 1 /\ n - 1 - 1 + 1 = n - 1
        OBVIOUS
      <4>1. 1 <= Len(st) - 1 /\ Len(st) - 1 - 1 + 1 = Len(st) - 1
        BY ONLY <1>4, <3>2, <4>0
      <4> QED BY <2>2, <4>1
    <3> QED BY <3>1, <3>2
  <2>4. \A i \in 1..(Len(st) - 1) : front[i] = st[i]
    <3> SUFFICES ASSUME NEW i \in 1..(Len(st) - 1)
                 PROVE  front[i] = st[i]
      OBVIOUS
    <3>1. i \in 1..(Len(st) - 1 - 1 + 1) /\ 1 + i - 1 = i
      BY <1>4
    <3> QED BY <2>2, <3>1
  <2> QED BY <2>2, <2>3, <2>4
<1>6. st2 = front \o push
  BY DEF front, Front, st2
<1>7. /\ st2 \in Seq(U) /\ Len(st2) = Len(front) + Len(push)
      /\ \A i \in 1..(Len(front) + Len(push)) :
           st2[i] = IF i <= Len(front) THEN front[i] ELSE push[i - Len(front)]
  <2> DEFINE q == front \o push
  <2>1. /\ q \in Seq(U) /\ Len(q) = Len(front) + Len(push)
        /\ \A i \in 1..(Len(front) + Len(push)) : q[i] = IF i <= Len(front) THEN front[i] ELSE push[i - Len(front)]
    BY <1>3, <1>5, ConcatProperties
  <2> QED BY <1>6, <2>1
<1>8. ASSUME NEW i \in 1..Len(st2)
      PROVE  \/ (\E j \in 1..Len(st) : st2[i] = st[j])
             \/ \E j \in 1..Len(push) : st2[i] = push[j]
  <2>1. CASE i <= Len(front)
    <3>1. i \in 1..(Len(st) - 1) /\ i \in 1..Len(st)
      BY <1>4, <1>5, <2>1
    <3> QED BY <1>5, <1>7, <2>1, <3>1
  <2>2. CASE ~(i <= Len(front))
    <3>1. i - Len(front) \in 1..Len(push)
      BY <1>4, <1>5, <1>7, <2>2
    <3> QED BY <1>7, <2>2, <3>1
  <2> QED BY <2>1, <2>2
<1>9. ASSUME NEW j \in 1..Len(st), j # Len(st)
      PROVE  \E i \in 1..Len(st2) : st2[i] = st[j]
  <2>1. j \in 1..(Len(st) - 1) /\ j <= Len(front) /\ j \in 1..Len(st2)
    BY <1>4, <1>5, <1>7, <1>9
  <2> QED BY <1>5, <1>7, <2>1
<1>10. ASSUME NEW j \in 1..Len(push)
       PROVE  \E i \in 1..Len(st2) : st2[i] = push[j]
  <2>1. /\ Len(front) + j \in 1..Len(st2) /\ ~(Len(front) + j <= Len(front))
        /\ Len(front) + j - Len(front) = j
    BY <1>4, <1>5, <1>7
  <2> QED BY <1>7, <2>1
<1>11. Sequence(st2) /\ Len(st) \in 1..Len(st)
  BY <1>4, <1>7 DEF Sequence
<1>12. Held(st2, st, push)
  BY <1>8, <1>9, <1>10, <1>11 DEF Held
<1> QED BY <1>12 DEF st2

\* The stack and the paths hold nothing but ways from the roots.
Walking(st, ps, nodes, edges, roots, dirs, depth) ==
  /\ Sequence(st)
  /\ \A i \in 1..Len(st) : StateOf(st[i], nodes, edges, roots, depth) /\ st[i].direction \in dirs
  /\ \A p \in ps : \E d \in dirs : ToSet(p.nodes) \subseteq Layers(roots, edges, d, depth)[depth]

Begun(a, r) == Len(a) <= Len(r) /\ \A i \in 1..Len(a) : a[i] = r[i]
Within(r, a) == ToSet(r) \subseteq ToSet(a)

\* A way is still to be gone, or all of it has been.
Ahead(s, r, d) == s.direction = d /\ (Begun(s.nodes, r) \/ Within(r, s.nodes))
Covered(r, d, st, ps) ==
  \/ Len(r) = 1
  \/ \E i \in 1..Len(st) : Ahead(st[i], r, d)
  \/ \E p \in ps : Within(r, p.nodes)
AllCovered(st, ps, nodes, edges, roots, dirs, depth) ==
  \A d \in dirs : \A r : Route(r, nodes, edges, roots, d, depth) => Covered(r, d, st, ps)

\* A turn leaves nothing on the stack or among the paths but ways from the
\* roots.
LEMMA WalkingTurned ==
  ASSUME NEW nodes, NEW edges, NEW roots, NEW dirs, NEW depth \in Nat, NEW st, NEW ps,
         Walking(st, ps, nodes, edges, roots, dirs, depth), st # <<>>,
         IsFiniteSet(DOMAIN edges), \A e \in DOMAIN edges : {edges[e].up, edges[e].down} \subseteq DOMAIN nodes
  PROVE  LET t == Turn(Last(st), nodes, edges, depth)
         IN Walking(Front(st) \o t.push, ps \cup t.paths, nodes, edges, roots, dirs, depth)
<1> DEFINE t == Turn(Last(st), nodes, edges, depth)
           st2 == Front(st) \o t.push
           s == Last(st)
           f == Layers(roots, edges, s.direction, depth)
<1>1. Len(st) \in 1..Len(st)
  <2>1. PICK S : st \in Seq(S)
    BY DEF Walking, Sequence
  <2> QED BY <2>1, EmptySeq, LenProperties
<1>2. StateOf(s, nodes, edges, roots, depth) /\ s.direction \in dirs
  BY <1>1 DEF Walking, Last
<1> HIDE DEF t, s
<1>3. Turned(t, s, nodes, edges, roots, depth)
  <2>1. Turned(Turn(s, nodes, edges, depth), s, nodes, edges, roots, depth)
    BY <1>2, TurnIs
  <2> QED BY <2>1 DEF s, t
<1>4. Held(st2, st, t.push)
  <2>1. Sequence(st) /\ Sequence(t.push)
    BY <1>3 DEF Walking, Turned
  <2> QED BY <2>1, StackTurned
<1> HIDE DEF st2, f
<1>5. \A i \in 1..Len(st2) : StateOf(st2[i], nodes, edges, roots, depth) /\ st2[i].direction \in dirs
  <2> SUFFICES ASSUME NEW i \in 1..Len(st2)
               PROVE  StateOf(st2[i], nodes, edges, roots, depth) /\ st2[i].direction \in dirs
    OBVIOUS
  <2>1. CASE \E j \in 1..Len(st) : st2[i] = st[j]
    BY <2>1 DEF Walking
  <2>2. CASE \E j \in 1..Len(t.push) : st2[i] = t.push[j]
    BY <1>2, <1>3, <2>2 DEF Turned
  <2> QED BY <1>4, <2>1, <2>2 DEF Held
<1>6. ToSet(s.nodes) \subseteq f[depth]
  <2>1. PICK ids : s.edges \in Seq(ids)
    BY <1>2 DEF StateOf, Sequence
  <2>2. /\ DOMAIN s.nodes = 1..Len(s.nodes) /\ Len(s.nodes) = Len(s.edges) + 1 /\ Len(s.edges) \in Nat
        /\ Len(s.edges) <= depth
    BY <1>2, <2>1, LenProperties DEF StateOf
  <2>3. \A i \in 1..Len(s.nodes) : s.nodes[i] \in f[i - 1]
    BY <1>2 DEF StateOf, f
  <2>4. \A i \in 0..depth : f[i] \subseteq f[depth]
    BY LayersGrow DEF f
  <2>5. \A i \in 1..Len(s.nodes) : i - 1 \in 0..depth
    BY <2>2
  <2>6. \A i \in DOMAIN s.nodes : s.nodes[i] \in f[depth]
    BY <2>2, <2>3, <2>4, <2>5
  <2> QED BY <2>6 DEF ToSet
<1>7. \A p \in ps \cup t.paths : \E d \in dirs : ToSet(p.nodes) \subseteq Layers(roots, edges, d, depth)[depth]
  <2> SUFFICES ASSUME NEW p \in t.paths
               PROVE  \E d \in dirs : ToSet(p.nodes) \subseteq Layers(roots, edges, d, depth)[depth]
    BY DEF Walking
  <2> QED BY <1>2, <1>3, <1>6 DEF f, Turned
<1>8. Sequence(st2)
  BY <1>4 DEF Held
<1>9. Walking(st2, ps \cup t.paths, nodes, edges, roots, dirs, depth)
  BY <1>5, <1>7, <1>8 DEF Walking
<1> QED BY <1>9 DEF st2, t

\* A turn loses no way: the one whose start is taken off the stack is on it
\* again one node longer, or all of it is given out.
LEMMA CoveredTurned ==
  ASSUME NEW nodes, NEW edges, NEW roots, NEW dirs, NEW depth \in Nat, NEW st, NEW ps,
         Walking(st, ps, nodes, edges, roots, dirs, depth), st # <<>>,
         AllCovered(st, ps, nodes, edges, roots, dirs, depth),
         IsFiniteSet(DOMAIN edges), \A e \in DOMAIN edges : {edges[e].up, edges[e].down} \subseteq DOMAIN nodes
  PROVE  LET t == Turn(Last(st), nodes, edges, depth)
         IN AllCovered(Front(st) \o t.push, ps \cup t.paths, nodes, edges, roots, dirs, depth)
<1> DEFINE t == Turn(Last(st), nodes, edges, depth)
           st2 == Front(st) \o t.push
           s == Last(st)
           a == s.nodes
           la == Len(a)
           le == Len(s.edges)
<1>1. Len(st) \in 1..Len(st)
  <2>1. PICK S : st \in Seq(S)
    BY DEF Walking, Sequence
  <2> QED BY <2>1, EmptySeq, LenProperties
<1>2. StateOf(s, nodes, edges, roots, depth)
  BY <1>1 DEF Walking, Last
<1>3. s = st[Len(st)]
  BY DEF Last
<1> HIDE DEF t, s
<1>4. Turned(t, s, nodes, edges, roots, depth)
  <2>1. Turned(Turn(s, nodes, edges, depth), s, nodes, edges, roots, depth)
    BY <1>2, TurnIs
  <2> QED BY <2>1 DEF s, t
<1>5. Held(st2, st, t.push)
  <2>1. Sequence(st) /\ Sequence(t.push)
    BY <1>4 DEF Walking, Turned
  <2> QED BY <2>1, StackTurned
<1>6. a \in Seq(DOMAIN nodes) /\ Len(a) = Len(s.edges) + 1 /\ Len(s.edges) \in Nat
  <2>1. PICK ids : s.edges \in Seq(ids)
    BY <1>2 DEF StateOf, Sequence
  <2> QED BY <1>2, <2>1, LenProperties DEF StateOf
<1> HIDE DEF st2, a, la, le
<1>7. la \in Nat /\ DOMAIN a = 1..la /\ la = le + 1 /\ le \in Nat
  BY <1>6, LenProperties DEF la, le
<1> SUFFICES ASSUME NEW d \in dirs, NEW r, Route(r, nodes, edges, roots, d, depth)
             PROVE  Covered(r, d, st2, ps \cup t.paths)
  BY DEF AllCovered, st2, t
<1> DEFINE lr == Len(r)
<1> HIDE DEF lr
<1>8. /\ r \in Seq(DOMAIN nodes) /\ lr \in 1..(depth + 1)
      /\ DOMAIN r = 1..lr
      /\ \A i \in 1..lr : i # lr => Crosses(edges, d, r[i], r[i + 1])
      /\ \A i, j \in 1..lr : r[i] = r[j] => i = j
  BY LenProperties DEF Route, lr
<1>9. ASSUME NEW j \in 1..Len(t.push), Ahead(t.push[j], r, d)
      PROVE  Covered(r, d, st2, ps \cup t.paths)
  BY <1>5, <1>9 DEF Held, Covered
<1>10. ASSUME s.direction = d, Within(r, a)
       PROVE  Covered(r, d, st2, ps \cup t.paths)
  <2>1. CASE la = 1
    <3>1. \A i \in 1..lr : r[i] = a[1]
      <4>1. \A x \in ToSet(r) : \E k \in DOMAIN a : a[k] = x
        BY <1>10 DEF Within, ToSet
      <4>2. \A i \in 1..lr : r[i] \in ToSet(r)
        BY <1>8 DEF ToSet
      <4>3. \A k \in DOMAIN a : k = 1
        BY <1>7, <2>1
      <4> QED BY <4>1, <4>2, <4>3
    <3>2. lr = 1
      <4>1. 1 \in 1..lr /\ lr \in 1..lr
        BY <1>8
      <4> QED BY <1>8, <3>1, <4>1
    <3> QED BY <3>2 DEF Covered, lr
  <2>2. CASE t.paths # {}
    <3>1. PICK p \in t.paths : TRUE
      BY <2>2
    <3>2. p.nodes = a
      BY <1>4, <3>1 DEF Turned, a
    <3> QED BY <1>10, <3>2 DEF Covered
  <2>3. CASE \E j \in 1..Len(t.push) : ToSet(a) \subseteq ToSet(t.push[j].nodes)
    <3>1. PICK j \in 1..Len(t.push) : ToSet(a) \subseteq ToSet(t.push[j].nodes)
      BY <2>3
    <3>2. t.push[j].direction = d
      BY <1>4, <1>10 DEF Turned
    <3>3. Ahead(t.push[j], r, d)
      BY <1>10, <3>1, <3>2 DEF Ahead, Within
    <3> QED BY <1>9, <3>3
  <2> QED BY <1>4, <2>1, <2>2, <2>3 DEF Turned, a, la
<1>11. ASSUME s.direction = d, Begun(a, r)
       PROVE  Covered(r, d, st2, ps \cup t.paths)
  <2>0. /\ la <= lr /\ \A i \in 1..la : a[i] = r[i]
    BY <1>11 DEF Begun, la, lr
  <2>1. CASE la = lr
    <3>1. \A i \in DOMAIN r : i \in DOMAIN a /\ a[i] = r[i]
      BY <1>7, <1>8, <2>0, <2>1
    <3>2. Within(r, a)
      BY <3>1 DEF Within, ToSet
    <3> QED BY <1>10, <1>11, <3>2
  <2>2. CASE la # lr
    <3> DEFINE m == r[la + 1]
               n == la
    <3>1. n \in 1..lr /\ n # lr /\ n + 1 \in 1..lr /\ n \in Nat /\ n \in 1..la
      BY <1>7, <1>8, <2>0, <2>2
    <3>2. Last(a) = r[n]
      BY <2>0, <3>1 DEF Last, la
    <3>3. Crosses(edges, d, Last(a), m)
      BY <1>8, <3>1, <3>2
    <3>4. m \notin ToSet(a)
      <4> SUFFICES ASSUME NEW i \in DOMAIN a, a[i] = m
                   PROVE  FALSE
        BY DEF ToSet
      <4>1. i \in 1..lr /\ i # n + 1 /\ i \in 1..la
        BY <1>7, <1>8, <2>0
      <4>2. r[i] = r[n + 1]
        BY <2>0, <4>1
      <4> QED BY <1>8, <3>1, <4>1, <4>2
    <3>5. le < depth
      BY <1>6, <1>7, <1>8, <2>0, <2>2
    <3>6. m \in DOMAIN nodes
      BY <1>8, <3>1, ElementOfSeq DEF lr
    <3> HIDE DEF m, n
    <3>7. PICK j \in 1..Len(t.push) : t.push[j].nodes = Append(a, m)
      BY <1>4, <1>11, <3>3, <3>4, <3>5 DEF Turned, a, le
    <3> DEFINE b == Append(a, m)
    <3>8. /\ Len(b) = n + 1 /\ b[n + 1] = r[n + 1]
          /\ \A i \in 1..n : b[i] = r[i]
      <4>1. Len(b) = la + 1 /\ b[la + 1] = m /\ \A i \in 1..la : b[i] = a[i]
        BY <1>6, <3>6, AppendProperties DEF a, la
      <4> HIDE DEF b
      <4> QED BY <2>0, <4>1 DEF m, n
    <3> HIDE DEF b
    <3>9. Begun(b, r)
      <4>1. \A i \in 1..(n + 1) : i \in 1..n \/ i = n + 1
        BY <3>1
      <4>2. Len(b) <= lr
        BY <1>8, <3>1, <3>8
      <4> QED BY <3>8, <4>1, <4>2 DEF Begun, lr
    <3>10. Ahead(t.push[j], r, d)
      <4>1. t.push[j].direction = d
        BY <1>4, <1>11 DEF Turned
      <4> QED BY <3>7, <3>9, <4>1 DEF Ahead, b
    <3> QED BY <1>9, <3>10
  <2> QED BY <2>1, <2>2
<1>12. Covered(r, d, st, ps)
  BY DEF AllCovered
<1>13. CASE lr = 1
  BY <1>13 DEF Covered, lr
<1>14. CASE \E p \in ps : Within(r, p.nodes)
  BY <1>14 DEF Covered
<1>15. CASE \E i \in 1..Len(st) : Ahead(st[i], r, d)
  <2>1. PICK i \in 1..Len(st) : Ahead(st[i], r, d)
    BY <1>15
  <2>2. CASE i # Len(st)
    <3>1. PICK j \in 1..Len(st2) : st2[j] = st[i]
      BY <1>5, <2>2 DEF Held
    <3> QED BY <2>1, <3>1 DEF Covered
  <2>3. CASE i = Len(st)
    BY <1>3, <1>10, <1>11, <2>1, <2>3 DEF Ahead, a
  <2> QED BY <2>2, <2>3
<1> QED BY <1>12, <1>13, <1>14, <1>15 DEF Covered, lr

\* A walk starts in finitely many states.
LEMMA StartsFinite ==
  ASSUME NEW nodes, IsFiniteSet(DOMAIN nodes), NEW R, NEW direction \in {"up", "down", "both"}
  PROVE  IsFiniteSet(Starts(R, direction, nodes))
<1> DEFINE roots == R \cap DOMAIN nodes
           Of(d) == {Begin(r, d, nodes) : r \in roots}
<1>1. IsFiniteSet(roots)
  BY FS_Subset
<1>2. ASSUME NEW d
      PROVE  IsFiniteSet(Of(d))
  <2> DEFINE f == [r \in roots |-> Begin(r, d, nodes)]
             T == Of(d)
  <2>1. DOMAIN f = roots /\ T = {f[r] : r \in roots}
    OBVIOUS
  <2> HIDE DEF f, roots, T
  <2>2. IsFiniteSet(T)
    BY <1>1, <2>1, ImageFinite
  <2> QED BY <2>2 DEF T
<1>3. Starts(R, direction, nodes) \subseteq Of("up") \cup Of("down")
  BY DEF Starts, Directions
<1> HIDE DEF Of
<1>4. IsFiniteSet(Of("up") \cup Of("down"))
  BY <1>2, FS_Union
<1> QED BY <1>3, <1>4, FS_Subset

\* At the start of a walk every way is ahead of the state at its root.
LEMMA WalkBegun ==
  ASSUME NEW nodes, NEW edges, NEW R, NEW direction \in {"up", "down", "both"}, NEW depth \in Nat,
         IsFiniteSet(DOMAIN nodes),
         NEW roots, roots = R \cap DOMAIN nodes, NEW dirs, dirs = Directions(direction)
  PROVE  LET st == SetToSeq(Starts(R, direction, nodes))
         IN /\ Walking(st, {}, nodes, edges, roots, dirs, depth)
            /\ AllCovered(st, {}, nodes, edges, roots, dirs, depth)
<1> DEFINE S == Starts(R, direction, nodes)
           st == SetToSeq(S)
<1>1. IsFiniteSet(S)
  BY StartsFinite
<1>2. \A s \in S : \E r \in roots : \E d \in dirs : s = Begin(r, d, nodes)
  BY DEF Starts
<1>3. \A r \in roots : \A d \in dirs : Begin(r, d, nodes) \in S
  BY DEF Starts
<1> HIDE DEF S
<1>4. st \in Seq(S) /\ \A x \in S : \E i \in 1..Len(st) : st[i] = x
  <2>1. Lists(SetToSeq(S), S)
    BY <1>1, SeqOfSet
  <2> QED BY <2>1 DEF Lists
<1> HIDE DEF st
<1>5. \A i \in 1..Len(st) : st[i] \in S
  BY <1>4, ElementOfSeq
<1>6. ASSUME NEW r \in roots, NEW d \in dirs, NEW s, s = Begin(r, d, nodes)
      PROVE  /\ StateOf(s, nodes, edges, roots, depth)
             /\ s.direction = d /\ s.nodes = <<r>>
  <2>1. AtRoot(Begin(r, d, nodes), r, d, nodes, edges, roots, depth)
    BY BeginIs
  <2> QED BY <1>6, <2>1 DEF AtRoot
<1>7. Walking(st, {}, nodes, edges, roots, dirs, depth)
  <2>1. \A i \in 1..Len(st) : StateOf(st[i], nodes, edges, roots, depth) /\ st[i].direction \in dirs
    <3> SUFFICES ASSUME NEW i \in 1..Len(st)
                 PROVE  StateOf(st[i], nodes, edges, roots, depth) /\ st[i].direction \in dirs
      OBVIOUS
    <3>1. PICK r \in roots, d \in dirs : st[i] = Begin(r, d, nodes)
      BY <1>2, <1>5
    <3> QED BY <1>6, <3>1
  <2> QED BY <1>4, <2>1 DEF Walking, Sequence
<1>8. AllCovered(st, {}, nodes, edges, roots, dirs, depth)
  <2> SUFFICES ASSUME NEW d \in dirs, NEW r, Route(r, nodes, edges, roots, d, depth)
               PROVE  Covered(r, d, st, {})
    BY DEF AllCovered
  <2> DEFINE s == Begin(r[1], d, nodes)
  <2>1. r[1] \in roots /\ 1 <= Len(r)
    BY DEF Route
  <2>2. s \in S
    BY <1>3, <2>1
  <2>3. s.direction = d /\ s.nodes = <<r[1]>>
    BY <1>6, <2>1
  <2> HIDE DEF s
  <2>4. PICK i \in 1..Len(st) : st[i] = s
    BY <1>4, <2>2
  <2>5. Begun(<<r[1]>>, r)
    BY <2>1 DEF Begun
  <2> QED BY <2>3, <2>4, <2>5 DEF Covered, Ahead
<1> QED BY <1>7, <1>8 DEF st, S

Passed(ps) == UNION {ToSet(p.nodes) : p \in ps}
Around(roots, edges, dirs, depth) ==
  roots \cup UNION {Layers(roots, edges, d, depth)[depth] : d \in dirs}

\* What was walked when nothing is left to walk: the nodes within the depth.
LEMMA WalkEnds ==
  ASSUME NEW nodes, NEW edges, NEW roots, roots \subseteq DOMAIN nodes, NEW dirs, NEW depth \in Nat,
         \A e \in DOMAIN edges : {edges[e].up, edges[e].down} \subseteq DOMAIN nodes,
         NEW ps, Walking(<<>>, ps, nodes, edges, roots, dirs, depth),
         AllCovered(<<>>, ps, nodes, edges, roots, dirs, depth)
  PROVE  roots \cup Passed(ps) = Around(roots, edges, dirs, depth)
<1>1. ASSUME NEW p \in ps, NEW n \in ToSet(p.nodes)
      PROVE  \E d \in dirs : n \in Layers(roots, edges, d, depth)[depth]
  BY DEF Walking
<1>2. ASSUME NEW d \in dirs, NEW n \in Layers(roots, edges, d, depth)[depth]
      PROVE  n \in roots \/ \E p \in ps : n \in ToSet(p.nodes)
  <2>1. PICK r : Route(r, nodes, edges, roots, d, depth) /\ r[Len(r)] = n
    <3>1. \A e \in DOMAIN edges : To(edges[e], d) \in DOMAIN nodes
      BY DEF To
    <3> DEFINE f == Layers(roots, edges, d, depth)
    <3>2. f = Layers(roots, edges, d, depth) /\ n \in f[depth]
      OBVIOUS
    <3> HIDE DEF f
    <3> QED BY <3>1, <3>2, LayerRoute
  <2>2. Covered(r, d, <<>>, ps)
    BY <2>1 DEF AllCovered
  <2>3. CASE Len(r) = 1
    BY <2>1, <2>3 DEF Route
  <2>4. CASE \E p \in ps : Within(r, p.nodes)
    <3>1. PICK p \in ps : ToSet(r) \subseteq ToSet(p.nodes)
      BY <2>4 DEF Within
    <3>2. Len(r) \in DOMAIN r
      BY <2>1, LenProperties DEF Route
    <3>3. n \in ToSet(r)
      BY <2>1, <3>2 DEF ToSet
    <3> QED BY <3>1, <3>3
  <2>5. ~ \E i \in 1..Len(<<>>) : Ahead(<<>>[i], r, d)
    OBVIOUS
  <2> QED BY <2>2, <2>3, <2>4, <2>5 DEF Covered
<1>3. ASSUME NEW n
      PROVE  /\ n \in Passed(ps) <=> \E p \in ps : n \in ToSet(p.nodes)
             /\ n \in Around(roots, edges, dirs, depth) <=>
                  n \in roots \/ \E d \in dirs : n \in Layers(roots, edges, d, depth)[depth]
  BY DEF Passed, Around
<1> QED BY <1>1, <1>2, <1>3

-----------------------------------------------------------------------------
(***************************************************************************)
(* What a request selects, as a function of the graph and the request      *)
(***************************************************************************)
ClaimedOf(nodes, resourceNodes, attempts, bound, i) ==
  IF i.resources # {}
  THEN {resourceNodes[r] : r \in i.resources \cap DOMAIN resourceNodes}
  ELSE (IF i.id \in attempts THEN {b[2] : b \in {x \in bound : x[1] = i.id}} ELSE i.roots) \cap DOMAIN nodes

TheIncident(incidents, r) == CHOOSE i \in incidents : i.id = r.incident

RootsOf(nodes, resourceNodes, attempts, bound, incidents, r) ==
  IF r.incident = "" THEN {}
  ELSE ClaimedOf(nodes, resourceNodes, attempts, bound, TheIncident(incidents, r))
RootsIn(g, r) == RootsOf(g.nodes, g.resourceNodes, g.attempts, g.bound, g.incidents, r)
RootedIn(g, r) == (IF r.focus # {} THEN r.focus ELSE RootsIn(g, r)) \cap DOMAIN g.nodes

NearIn(g, r) == Around(RootedIn(g, r), g.edges, Directions(r.direction), r.depth)

MatchesIn(g, r, n) ==
  /\ r.envs = {} \/ g.nodes[n].env \in r.envs
  /\ r.teams = {} \/ g.nodes[n].owner.team \in r.teams
SelectedIn(g, r) ==
  {n \in IF r.incident = "" THEN DOMAIN g.nodes ELSE NearIn(g, r) : MatchesIn(g, r, n)}
FilteredIn(r) == r.incident # "" \/ r.envs # {} \/ r.teams # {}

Exactly(a, g, r) ==
  a.kind = "snapshot" =>
    /\ DOMAIN a.nodes = SelectedIn(g, r)
    /\ a.affected \cup UNION {ToSet(p.nodes) : p \in a.paths} \subseteq DOMAIN a.nodes
    /\ a.empty # "no" <=> FilteredIn(r) /\ DOMAIN a.nodes = {}

\* The roots of a request are a function of the graph and the request.
LEMMA RootsAre ==
  /\ \A r : Roots(r) = RootsIn(graph, r)
  /\ \A r : WalkRoots(r) \cap DOMAIN graph.nodes = RootedIn(graph, r)
<1>1. \A r : Roots(r) = RootsIn(graph, r)
  BY DEF Roots, Claims, RootsIn, RootsOf, ClaimedOf, TheIncident
<1> QED BY <1>1 DEF WalkRoots, RootedIn

\* So is what the filter lets through.
LEMMA MatchesAre ==
  /\ \A n : Matches(n) <=> MatchesIn(graph, request, n)
  /\ Filtered <=> FilteredIn(request)
BY DEF Matches, MatchesIn, Filtered, FilteredIn

\* SelectionExact, as a function of the answer, the graph and the request.
LEMMA ExactlyIs == SelectionExact <=> Exactly(answer, graph, request)
<1> DEFINE roots == WalkRoots(request) \cap DOMAIN graph.nodes
           dirs == Directions(request.direction)
           near == roots \cup UNION {Ball(roots, d, request.depth) : d \in dirs}
           chosen == IF request.incident = "" THEN DOMAIN graph.nodes ELSE near
<1>1. roots = RootedIn(graph, request)
  BY RootsAre
<1>2. SelectionExact <=>
        (answer.kind = "snapshot" =>
           /\ DOMAIN answer.nodes = {n \in chosen : Matches(n)}
           /\ answer.affected \cup UNION {ToSet(p.nodes) : p \in answer.paths} \subseteq DOMAIN answer.nodes
           /\ answer.empty # "no" <=> Filtered /\ DOMAIN answer.nodes = {})
  BY DEF SelectionExact
<1>3. near = roots \cup UNION {Ball(roots, d, request.depth) : d \in dirs}
  OBVIOUS
<1>4. chosen = IF request.incident = "" THEN DOMAIN graph.nodes ELSE near
  OBVIOUS
<1>5. NearIn(graph, request) = roots \cup UNION {Layers(roots, graph.edges, d, request.depth)[request.depth] : d \in dirs}
  BY <1>1 DEF NearIn, Around
<1> HIDE DEF roots, dirs, near, chosen
<1>6. \A d : Ball(roots, d, request.depth) = Layers(roots, graph.edges, d, request.depth)[request.depth]
  BY BallIs
<1>7. near = NearIn(graph, request)
  BY <1>3, <1>5, <1>6
<1>8. {n \in chosen : Matches(n)} = SelectedIn(graph, request)
  BY <1>4, <1>7, MatchesAre DEF SelectedIn
<1> QED BY <1>2, <1>8, MatchesAre DEF Exactly

-----------------------------------------------------------------------------
(***************************************************************************)
(* The invariant of a request                                              *)
(***************************************************************************)
Asked == {"context", "select", "walk", "answered"}

WalkUnderway(st, ps, g, r) ==
  /\ Walking(st, ps, g.nodes, g.edges, RootedIn(g, r), Directions(r.direction), r.depth)
  /\ AllCovered(st, ps, g.nodes, g.edges, RootedIn(g, r), Directions(r.direction), r.depth)

SInv ==
  /\ pc # "answered" => answer = NoAnswer
  /\ pc \notin Asked => paths = {}
  /\ pc \in {"context", "select", "walk"} => request \in Requests
  /\ pc = "context" /\ request.incident # "" => WalkUnderway(stack, paths, graph, request)
  /\ pc \in {"select", "walk"} /\ request.incident # "" =>
       context \cup RootedIn(graph, request) = NearIn(graph, request)
  /\ Exactly(answer, graph, request)

\* An error shows no node.
LEMMA NoneYet ==
  ASSUME NEW a, a = NoAnswer \/ \E of : a = Error(of), NEW g, NEW r
  PROVE  Exactly(a, g, r)
BY DEF Exactly, NoAnswer, Error

\* At first nothing is asked and nothing answered.
LEMMA SInvInit == Init => SInv
BY NoneYet DEF Init, SInv, Asked

\* Nothing is asked before the graph is derived.
LEMMA DerivationQuiet ==
  ASSUME Derivation
  PROVE  UNCHANGED derived /\ pc \notin Asked /\ pc' \notin Asked
<1>1. ASSUME NEW phase, NEW r, Take(phase, r)
      PROVE  UNCHANGED derived /\ pc = phase
  BY <1>1 DEF Take
<1>2. ASSUME NEW phase, Exhausted(phase)
      PROVE  UNCHANGED derived /\ pc = phase
  BY <1>2 DEF Exhausted
<1>3. ASSUME NEW phase, NEW next, NEW records, Go(phase, next, records)
      PROVE  UNCHANGED derived /\ pc = phase /\ pc' = next
  BY <1>2, <1>3 DEF Go, Enter
<1>4. CASE AdmitEvidence
  BY <1>1, <1>4 DEF AdmitEvidence, Sift, Asked
<1>5. CASE LoadEvidence
  BY <1>2, <1>5 DEF LoadEvidence, Enter, Asked
<1>6. CASE LoadStatuses
  <2>1. CASE Derive("status", LoadStatus)
    BY <1>1, <2>1 DEF Derive, Asked
  <2>2. CASE Go("status", "incidents", input.incidents)
    BY <1>3, <2>2 DEF Asked
  <2> QED BY <1>6, <2>1, <2>2 DEF LoadStatuses
<1>7. CASE LoadIncident
  BY <1>1, <1>7 DEF LoadIncident, Sift, Asked
<1>8. CASE LoadIncidents
  BY <1>2, <1>8 DEF LoadIncidents, Enter, Asked
<1>9. CASE DeriveEnvironments
  <2>1. CASE Derive("environments", DeriveEnvironment)
    BY <1>1, <2>1 DEF Derive, Asked
  <2>2. CASE Go("environments", "kubernetes", {})
    BY <1>3, <2>2 DEF Asked
  <2> QED BY <1>9, <2>1, <2>2 DEF DeriveEnvironments
<1>10. CASE OpenInventory
  BY <1>10 DEF OpenInventory, Enter, Asked
<1>11. CASE DeriveResources
  BY <1>1, <1>11 DEF DeriveResources, Derive, Asked
<1>12. CASE ContainResources
  <2>1. CASE Exhausted("resources") /\ Enter("contain", Holdings(graph, Opened.env))
    BY <1>2, <2>1 DEF Enter, Asked
  <2>2. CASE Derive("contain", Contain)
    BY <1>1, <2>2 DEF Derive, Asked
  <2>3. CASE Go("contain", "links", Opened.links)
    BY <1>3, <2>3 DEF Asked
  <2> QED BY <1>12, <2>1, <2>2, <2>3 DEF ContainResources
<1>13. CASE DeriveLinks
  BY <1>1, <1>13 DEF DeriveLinks, Derive, Asked
<1>14. CASE CloseInventory
  BY <1>2, <1>14 DEF CloseInventory, Enter, Asked
<1>15. CASE DeriveClouds
  <2>1. CASE Go("kubernetes", "cloud", input.cloud)
    BY <1>3, <2>1 DEF Asked
  <2>2. CASE Derive("cloud", DeriveCloud)
    BY <1>1, <2>2 DEF Derive, Asked
  <2> QED BY <1>15, <2>1, <2>2 DEF DeriveClouds
<1>16. CASE DeriveFixtures
  <2>1. CASE Go("cloud", "fixtures", input.fixtures)
    BY <1>3, <2>1 DEF Asked
  <2>2. CASE Derive("fixtures", DeriveFixtureEdge)
    BY <1>1, <2>2 DEF Derive, Asked
  <2>3. CASE Go("fixtures", "alert", input.alerts)
    BY <1>3, <2>3 DEF Asked
  <2> QED BY <1>16, <2>1, <2>2, <2>3 DEF DeriveFixtures
<1>17. CASE Observe
  BY <1>1, <1>17 DEF Observe, Asked
<1>18. CASE Observations
  <2>1. CASE Go("alert", "attachAlerts", pass.kept)
    BY <1>3, <2>1 DEF Asked
  <2>2. CASE Derive("attachAlerts", Attach)
    BY <1>1, <2>2 DEF Derive, Asked
  <2>3. CASE Go("attachAlerts", "metric", input.metrics)
    BY <1>3, <2>3 DEF Asked
  <2>4. CASE Go("metric", "attachMetrics", pass.kept)
    BY <1>3, <2>4 DEF Asked
  <2>5. CASE Derive("attachMetrics", Attach)
    BY <1>1, <2>5 DEF Derive, Asked
  <2> QED BY <1>18, <2>1, <2>2, <2>3, <2>4, <2>5 DEF Observations
<1>19. CASE Own
  BY <1>2, <1>19 DEF Own, Enter, Asked
<1> QED BY <1>4, <1>5, <1>6, <1>7, <1>8, <1>9, <1>10, <1>11, <1>12, <1>13, <1>14, <1>15, <1>16,
           <1>17, <1>18, <1>19 DEF Derivation

\* So no step of the derivation touches the request.
LEMMA DerivationSelects ==
  ASSUME SInv, Derivation
  PROVE  SInv'
<1>1. /\ UNCHANGED derived /\ pc \notin Asked /\ pc' \notin Asked
  BY DerivationQuiet
<1>2. answer = NoAnswer /\ answer' = NoAnswer /\ paths' = {}
  BY <1>1 DEF SInv, derived, Asked
<1>3. Exactly(answer', graph', request')
  BY <1>2, NoneYet
<1> QED BY <1>1, <1>2, <1>3 DEF SInv, Asked

\* The request begins its walk at its roots, or has none to make: a depth of
\* zero and no roots both leave the roots alone as what is near.
LEMMA AskSelects ==
  ASSUME TInv, SInv, Ask
  PROVE  SInv'
<1>1. PICK r \in Requests :
       /\ request' = r
       /\ IF Unknown(r) # "nothing"
          THEN /\ answer' = Error(Unknown(r)) /\ pc' = "answered"
               /\ UNCHANGED <<graph, stack>>
          ELSE /\ graph' = IF RootsMissed(r) THEN Mark(graph, "incidents") ELSE graph
               /\ LET walks == r.incident # "" /\ r.depth > 0 /\ WalkRoots(r) # {}
                      broken == walks /\ ~AllValid(graph.edges)
                  IN /\ stack' = IF walks /\ ~broken THEN Traverse(r, graph.nodes) ELSE <<>>
                     /\ pc' = IF broken THEN "answered" ELSE "context"
                     /\ answer' = IF broken THEN Error("malformed") ELSE answer
  BY DEF Ask
<1>2. pc = "request" /\ paths' = paths /\ paths = {} /\ answer = NoAnswer
  BY DEF Ask, SInv, Asked
<1>3. answer' = NoAnswer \/ \E of : answer' = Error(of)
  BY <1>1, <1>2
<1>4. Exactly(answer', graph', request')
  BY <1>3, NoneYet
<1>5. pc' \in {"context", "answered"} /\ (pc' = "context" => answer' = NoAnswer)
  BY <1>1, <1>2
<1>6. ASSUME pc' = "context", r.incident # ""
      PROVE  WalkUnderway(stack', {}, graph', r)
  <2> DEFINE walks == r.incident # "" /\ r.depth > 0 /\ WalkRoots(r) # {}
             roots == RootedIn(graph, r)
             dirs == Directions(r.direction)
  <2>1. /\ graph' \in {graph, Mark(graph, "incidents")}
        /\ stack' = IF walks THEN Traverse(r, graph.nodes) ELSE <<>>
    BY <1>1, <1>6
  <2>2. graph'.nodes = graph.nodes /\ graph'.edges = graph.edges /\ RootedIn(graph', r) = roots
    <3>1. graph'.nodes = graph.nodes /\ graph'.edges = graph.edges /\ graph'.resourceNodes = graph.resourceNodes
          /\ graph'.attempts = graph.attempts /\ graph'.bound = graph.bound /\ graph'.incidents = graph.incidents
      <4>1. CASE graph' = graph
        BY <4>1
      <4>2. CASE graph' = Mark(graph, "incidents")
        <5>1. Changes(graph', graph, {"status"})
          BY <4>2, TInvWoven, MarkChanges
        <5> QED BY <5>1, FieldsOfGraph DEF Changes
      <4> QED BY <2>1, <4>1, <4>2
    <3> QED BY <3>1 DEF RootedIn, RootsIn
  <2>3. r.depth \in Nat /\ r.direction \in {"up", "down", "both"}
    BY RequestsAssumption
  <2>4. roots = WalkRoots(r) \cap DOMAIN graph.nodes
    BY RootsAre
  <2>5. CASE walks
    <3>1. stack' = SetToSeq(Starts(WalkRoots(r), r.direction, graph.nodes))
      <4>1. r.depth # 0
        <5>1. \A n \in Nat : n > 0 => n # 0
          OBVIOUS
        <5>2. r.depth > 0
          BY <2>5
        <5> QED BY ONLY <2>3, <5>1, <5>2
      <4> QED BY <2>1, <2>5, <4>1 DEF Traverse
    <3>2. IsFiniteSet(DOMAIN graph.nodes)
      BY TInvWoven DEF Woven
    <3> DEFINE st == SetToSeq(Starts(WalkRoots(r), r.direction, graph.nodes))
    <3>3. /\ Walking(st, {}, graph.nodes, graph.edges, roots, dirs, r.depth)
          /\ AllCovered(st, {}, graph.nodes, graph.edges, roots, dirs, r.depth)
      <4> HIDE DEF roots
      <4> QED BY <2>3, <2>4, <3>2, WalkBegun
    <3> QED BY <2>2, <3>1, <3>3 DEF WalkUnderway
  <2>6. CASE ~walks
    <3>1. stack' = <<>>
      BY <2>1, <2>6
    <3>2. Walking(<<>>, {}, graph.nodes, graph.edges, roots, dirs, r.depth)
      <4>1. Sequence(<<>>)
        <5>1. <<>> \in Seq({})
          OBVIOUS
        <5> QED BY <5>1 DEF Sequence
      <4> QED BY <4>1 DEF Walking
    <3>3. AllCovered(<<>>, {}, graph.nodes, graph.edges, roots, dirs, r.depth)
      <4> SUFFICES ASSUME NEW d \in dirs, NEW way, Route(way, graph.nodes, graph.edges, roots, d, r.depth)
                   PROVE  Len(way) = 1
        BY DEF AllCovered, Covered
      <4> DEFINE n == Len(way)
      <4>1. n \in 1..(r.depth + 1) /\ way[1] \in roots
        BY DEF Route
      <4> HIDE DEF n
      <4>2. r.depth = 0
        <5>1. WalkRoots(r) # {}
          BY <2>4, <4>1
        <5>2. ~(r.depth > 0)
          BY <1>6, <2>6, <5>1
        <5> QED BY <2>3, <5>2
      <4>3. n = 1
        BY <4>1, <4>2
      <4> QED BY <4>3 DEF n
    <3> QED BY <2>2, <3>1, <3>2, <3>3 DEF WalkUnderway
  <2> QED BY <2>5, <2>6
<1> QED BY <1>1, <1>2, <1>4, <1>5, <1>6 DEF SInv, Asked

\* A turn over the whole graph.
LEMMA ContextSelects ==
  ASSUME TInv, SInv, WalkContext
  PROVE  SInv'
<1> DEFINE t == Turn(Last(stack), graph.nodes, graph.edges, request.depth)
           roots == RootedIn(graph, request)
           dirs == Directions(request.direction)
<1>1. /\ pc = "context" /\ stack # <<>> /\ pc' = pc /\ graph' = graph /\ request' = request
      /\ context' = context /\ answer' = answer
      /\ stack' = Front(stack) \o t.push /\ paths' = paths \cup t.paths
  BY DEF WalkContext, Step
<1>2. ASSUME request.incident # ""
      PROVE  WalkUnderway(stack', paths', graph, request)
  <2>1. /\ Walking(stack, paths, graph.nodes, graph.edges, roots, dirs, request.depth)
        /\ AllCovered(stack, paths, graph.nodes, graph.edges, roots, dirs, request.depth)
    BY <1>1, <1>2 DEF SInv, WalkUnderway
  <2>2. request.depth \in Nat
    BY <1>1, RequestsAssumption DEF SInv
  <2>3. /\ IsFiniteSet(DOMAIN graph.edges)
        /\ \A e \in DOMAIN graph.edges : {graph.edges[e].up, graph.edges[e].down} \subseteq DOMAIN graph.nodes
    BY TInvWoven DEF Woven
  <2> HIDE DEF roots, dirs
  <2>4. Walking(Front(stack) \o t.push, paths \cup t.paths, graph.nodes, graph.edges, roots, dirs, request.depth)
    BY <1>1, <2>1, <2>2, <2>3, WalkingTurned
  <2>5. AllCovered(Front(stack) \o t.push, paths \cup t.paths, graph.nodes, graph.edges, roots, dirs, request.depth)
    BY <1>1, <2>1, <2>2, <2>3, CoveredTurned
  <2> QED BY <1>1, <2>4, <2>5 DEF WalkUnderway, roots, dirs
<1> HIDE DEF t
<1> QED BY <1>1, <1>2 DEF SInv, Asked

\* When the walk is over, what it passed and the roots are all that is near.
LEMMA SelectSelects ==
  ASSUME TInv, SInv, Select
  PROVE  SInv'
<1> DEFINE roots == RootedIn(graph, request)
           dirs == Directions(request.direction)
<1>1. /\ pc = "context" /\ stack = <<>> /\ pc' = "select" /\ graph' = graph /\ request' = request
      /\ context' = UNION {ToSet(p.nodes) : p \in paths} /\ paths' = {} /\ answer' = answer
  BY DEF Select
<1>2. ASSUME request.incident # ""
      PROVE  context' \cup roots = NearIn(graph, request)
  <2>1. /\ Walking(<<>>, paths, graph.nodes, graph.edges, roots, dirs, request.depth)
        /\ AllCovered(<<>>, paths, graph.nodes, graph.edges, roots, dirs, request.depth)
    BY <1>1, <1>2 DEF SInv, WalkUnderway
  <2>2. request.depth \in Nat
    BY <1>1, RequestsAssumption DEF SInv
  <2>3. \A e \in DOMAIN graph.edges : {graph.edges[e].up, graph.edges[e].down} \subseteq DOMAIN graph.nodes
    BY TInvWoven DEF Woven
  <2>4. roots \subseteq DOMAIN graph.nodes
    BY DEF RootedIn
  <2>5. NearIn(graph, request) = Around(roots, graph.edges, dirs, request.depth)
    BY DEF NearIn
  <2> HIDE DEF roots, dirs
  <2>6. roots \cup Passed(paths) = Around(roots, graph.edges, dirs, request.depth)
    BY <2>1, <2>2, <2>3, <2>4, WalkEnds
  <2> QED BY <1>1, <2>5, <2>6 DEF Passed
<1> QED BY <1>1, <1>2 DEF SInv, Asked

\* The second walk neither adds to nor takes from what was selected.
LEMMA RestartSelects ==
  ASSUME SInv, Restart
  PROVE  SInv'
<1>1. /\ pc = "select" /\ pc' \in {"walk", "answered"} /\ graph' = graph /\ request' = request
      /\ context' = context /\ paths' = paths
      /\ answer' = answer \/ answer' = Error("malformed")
      /\ pc' = "walk" => answer' = answer
  BY DEF Restart
<1>2. answer = NoAnswer
  BY <1>1 DEF SInv
<1>3. Exactly(answer', graph', request')
  BY <1>1, <1>2, NoneYet
<1> QED BY <1>1, <1>2, <1>3 DEF SInv, Asked

\* Nor do its turns.
LEMMA ShownSelects ==
  ASSUME SInv, WalkShown
  PROVE  SInv'
<1>1. /\ pc = "walk" /\ pc' = pc /\ graph' = graph /\ request' = request
      /\ context' = context /\ answer' = answer
  BY DEF WalkShown, Step
<1> QED BY <1>1 DEF SInv, Asked

\* A snapshot that is valid shows what was selected and names no other.
LEMMA SnapshotExact ==
  ASSUME SInv, pc = "walk", Valid(Snapshot)
  PROVE  Exactly(Snapshot, graph, request)
<1>1. Visible = SelectedIn(graph, request)
  <2>1. Chosen = IF request.incident = "" THEN DOMAIN graph.nodes ELSE NearIn(graph, request)
    BY RootsAre DEF SInv, Chosen
  <2> QED BY <2>1, MatchesAre DEF Visible, SelectedIn
<1>3. DOMAIN Snapshot.nodes = Visible
  BY DEF Snapshot, ShownNodes, Restrict
<1>4. \A p \in Snapshot.paths : ToSet(p.nodes) \subseteq Visible
  BY <1>3 DEF Valid, ValidPath
<1>5. Snapshot.affected \subseteq Visible
  BY DEF Snapshot
<1>6. Snapshot.empty # "no" <=> FilteredIn(request) /\ Visible = {}
  BY MatchesAre DEF Snapshot
<1> QED BY <1>1, <1>3, <1>4, <1>5, <1>6 DEF Exactly

\* The answer is such a snapshot, an error or a list of identifiers.
LEMMA ReplySelects ==
  ASSUME SInv, Reply
  PROVE  SInv'
<1>1. /\ pc = "walk" /\ pc' = "answered" /\ graph' = graph /\ request' = request
      /\ answer' = IF ~Valid(Snapshot) THEN Error("malformed")
                   ELSE IF request.ids = {} THEN Snapshot
                   ELSE IF request.ids \subseteq Snapshot.evidence
                   THEN [kind |-> "evidence", ids |-> request.ids] ELSE Error("not found")
  BY DEF Reply
<1>2. CASE answer' = Snapshot /\ Valid(Snapshot)
  <2>1. Exactly(answer', graph', request')
    BY <1>1, <1>2, SnapshotExact
  <2> QED BY <1>1, <2>1 DEF SInv, Asked
<1>3. CASE answer' = Error("malformed") \/ answer' = Error("not found")
  <2>1. Exactly(answer', graph', request')
    BY <1>3, NoneYet
  <2> QED BY <1>1, <2>1 DEF SInv, Asked
<1>4. CASE answer' = [kind |-> "evidence", ids |-> request.ids]
  <2>1. Exactly(answer', graph', request')
    BY <1>4 DEF Exactly
  <2> QED BY <1>1, <2>1 DEF SInv, Asked
<1> HIDE DEF Snapshot
<1> QED BY <1>1, <1>2, <1>3, <1>4

\* Every step keeps the invariant, one lemma per action.
LEMMA SInvNext ==
  ASSUME TInv, SInv, [Next]_vars
  PROVE  SInv'
<1>1. CASE Answered \/ UNCHANGED vars
  BY <1>1 DEF Answered, vars, SInv
<1> QED BY <1>1, DerivationSelects, AskSelects, ContextSelects, SelectSelects, RestartSelects,
           ShownSelects, ReplySelects DEF Next

\* A snapshot shows exactly the nodes that the request selects, and its
\* paths and marks name no other.
THEOREM SelectedExactly == Spec => []SelectionExact
<1>1. Init => SInv
  BY SInvInit
<1>2. TInv /\ SInv /\ [Next]_vars => SInv'
  BY SInvNext
<1>3. SInv => SelectionExact
  BY ExactlyIs DEF SInv
<1> QED BY <1>1, <1>2, <1>3, TInvAlways, PTL DEF Spec
=============================================================================
