------------------------------ MODULE Topology ------------------------------
(***************************************************************************)
(* One topology request from the records of the sources to its answer      *)
(* (topology/mod.rs, derive.rs, filter.rs, evidence.rs, app/topology.rs):  *)
(* the records are taken one after the other in the order derive_graph     *)
(* takes them, owners are resolved, and the request selects, walks and is  *)
(* answered by one whole snapshot or by an error.                          *)
(***************************************************************************)
EXTENDS TopologyWalk

CONSTANTS
  Inputs,         \* what the sources may hand over
  Requests,       \* what may be asked
  WorkspaceTeam   \* the team the workspace's scope names, "none" without one

\* The sources hand over one inventory of each environment, kept by its
\* name, and every edge of the fixtures has all the fields of an edge.
ASSUME InputsAssumption ==
  \A i \in Inputs :
    /\ \A v, w \in i.inventories : v.order \in Nat /\ (v.order = w.order => v = w)
    /\ \A f \in i.fixtures :
         DOMAIN f = {"id", "up", "down", "kind", "facet", "confidence", "provenance", "evidence",
                     "sound", "order"}

ASSUME RequestsAssumption ==
  \A r \in Requests : r.depth \in Nat /\ r.direction \in {"up", "down", "both"}

VARIABLES
  input, pc,
  rest,      \* the records the present pass has still to take
  pass,      \* what the present pass has kept and refused
  inventories, graph,
  request,
  stack, paths,   \* the traversal under way
  context,   \* the nodes of the walk over the whole graph
  answer
vars == <<input, pc, rest, pass, inventories, graph, request, stack, paths, context, answer>>
derived == <<request, stack, paths, context, answer>>

NoPass == [kept |-> {}, refused |-> {}]
NoAnswer == [kind |-> "none"]
Error(of) == [kind |-> "error", of |-> of]

(* Records are sorted before they are taken, as far as their keys differ.  *)
First == {r \in rest : \A q \in rest : r.order <= q.order}
Take(phase, r) == pc = phase /\ r \in First /\ rest' = rest \ {r} /\ UNCHANGED <<input, derived>>
Enter(phase, records) == pc' = phase /\ rest' = records /\ pass' = NoPass
Exhausted(phase) == pc = phase /\ rest = {} /\ UNCHANGED <<input, derived>>

Init ==
  /\ input \in Inputs
  /\ pc = "evidence" /\ rest = input.evidence /\ pass = NoPass
  /\ inventories = input.inventories /\ graph = EmptyGraph
  /\ request = NoAnswer /\ stack = <<>> /\ paths = {} /\ context = {} /\ answer = NoAnswer

(***************************************************************************)
(* derive_graph                                                            *)
(***************************************************************************)
Sift(r, valid, source) ==
  /\ pass' = IF valid THEN Agreed(pass, r.id, r) ELSE pass
  /\ graph' = IF ~valid \/ Disagrees(pass, r.id, r) THEN Mark(graph, source) ELSE graph
  /\ UNCHANGED <<pc, inventories>>

StatusKey(source) ==
  CASE source \in {"kubernetes", "cloud"} -> source
    [] source \in {"alert", "metric"}     -> "observability"
    [] OTHER                              -> "fixtures"

AdmitEvidence == \E e \in rest : Take("evidence", e) /\ Sift(e, e.sound, StatusKey(e.source))
LoadEvidence ==
  /\ Exhausted("evidence") /\ Enter("status", input.status)
  /\ graph' = [graph EXCEPT !.evidence = pass.kept]
  /\ UNCHANGED inventories

Derive(phase, Step(_, _)) ==
  /\ \E r \in rest : Take(phase, r) /\ graph' = Step(graph, r)
  /\ UNCHANGED <<pc, pass, inventories>>
Go(phase, next, records) ==
  Exhausted(phase) /\ Enter(next, records) /\ UNCHANGED <<graph, inventories>>

LoadStatuses == Derive("status", LoadStatus) \/ Go("status", "incidents", input.incidents)

Queued(i) == i.sound /\ i.evidence # {} /\ Admitted(graph, i.evidence)
LoadIncident == \E i \in rest : Take("incidents", i) /\ Sift(i, Queued(i), "incidents")
LoadIncidents ==
  /\ Exhausted("incidents") /\ Enter("environments", input.environments)
  /\ graph' = [graph EXCEPT !.incidents = pass.kept]
  /\ UNCHANGED inventories

DeriveEnvironments ==
  Derive("environments", DeriveEnvironment) \/ Go("environments", "kubernetes", {})

(* The inventories one after the other, each only under an environment     *)
(* that was admitted: its resources, what contains them, its links.        *)
OpenInventory ==
  /\ pc = "kubernetes"
  /\ \E v \in inventories :
       /\ \A w \in inventories : v.order <= w.order
       /\ IF HasEnvironment(graph, v.env)
          THEN Enter("resources", v.resources) /\ UNCHANGED <<graph, inventories>>
          ELSE /\ inventories' = inventories \ {v}
               /\ graph' = Mark(graph, Cluster(v.env))
               /\ UNCHANGED <<pc, rest, pass>>
  /\ UNCHANGED <<input, derived>>
Opened == CHOOSE v \in inventories : \A w \in inventories : v.order <= w.order
DeriveResources == Derive("resources", DeriveResource)
ContainResources ==
  \/ /\ Exhausted("resources") /\ Enter("contain", Holdings(graph, Opened.env))
     /\ graph' = IF Crowded(graph, Opened.env) THEN Mark(graph, Cluster(Opened.env)) ELSE graph
     /\ UNCHANGED inventories
  \/ Derive("contain", Contain)
  \/ Go("contain", "links", Opened.links)
DeriveLinks == Derive("links", DeriveLink)
CloseInventory ==
  /\ Exhausted("links") /\ Enter("kubernetes", {})
  /\ inventories' = inventories \ {Opened}
  /\ UNCHANGED graph

DeriveClouds ==
  \/ pc = "kubernetes" /\ inventories = {} /\ Go("kubernetes", "cloud", input.cloud)
  \/ Derive("cloud", DeriveCloud)
DeriveFixtures ==
  \/ Go("cloud", "fixtures", input.fixtures)
  \/ Derive("fixtures", DeriveFixtureEdge)
  \/ Go("fixtures", "alert", input.alerts)

(* A record tries to bind the incidents it is the source of even when it   *)
(* is then refused.                                                        *)
Observe ==
  /\ pc \in {"alert", "metric"}
  /\ \E o \in rest :
       /\ Take(pc, o)
       /\ pass' = IF o.sound THEN Agreed(pass, o.id, o) ELSE pass
       /\ LET tried == Attempt(graph, o.id)
          IN graph' = IF ~o.sound \/ Disagrees(pass, o.id, o) THEN Mark(tried, "observability") ELSE tried
       /\ UNCHANGED <<pc, inventories>>
Observations ==
  \/ Go("alert", "attachAlerts", pass.kept)
  \/ Derive("attachAlerts", Attach)
  \/ Go("attachAlerts", "metric", input.metrics)
  \/ Go("metric", "attachMetrics", pass.kept)
  \/ Derive("attachMetrics", Attach)

Own ==
  /\ Exhausted("attachMetrics") /\ Enter("request", {})
  /\ graph' = ResolveOwnership(graph, input.rules, WorkspaceTeam)
  /\ UNCHANGED inventories

(***************************************************************************)
(* snapshot_at                                                             *)
(***************************************************************************)
Admissibles == {r \in input.rules : Admissible(r, {e.id : e \in graph.evidence}, WorkspaceTeam)}
Teams ==
  {graph.nodes[n].owner.team : n \in DOMAIN graph.nodes} \cup {r.team : r \in Standing(Admissibles)}
    \cup {WorkspaceTeam}
Unknown(r) ==
  IF ~(r.focus \subseteq DOMAIN graph.nodes) THEN "not found"
  ELSE IF ~(r.envs \subseteq {graph.nodes[n].env : n \in DOMAIN graph.nodes}) THEN "invalid"
  ELSE IF ~(r.teams \subseteq Teams \ {"none"}) THEN "invalid"
  ELSE IF r.incident # "" /\ \A i \in graph.incidents : i.id # r.incident THEN "not found"
  ELSE "nothing"

(* What an incident affects: the resources it lists, else what a record of *)
(* its source was bound to, else the guess of the fixtures; never a lower  *)
(* one because a higher one named nothing.                                 *)
Claims(i) ==
  IF i.resources # {}
  THEN [nodes |-> {graph.resourceNodes[r] : r \in i.resources \cap DOMAIN graph.resourceNodes},
        missed |-> ~(i.resources \subseteq DOMAIN graph.resourceNodes)]
  ELSE LET named == IF i.id \in graph.attempts THEN {b[2] : b \in {x \in graph.bound : x[1] = i.id}}
                    ELSE i.roots
       IN [nodes |-> named \cap DOMAIN graph.nodes, missed |-> ~(named \subseteq DOMAIN graph.nodes)]

Roots(r) ==
  IF r.incident = "" THEN {}
  ELSE Claims(CHOOSE i \in graph.incidents : i.id = r.incident).nodes
RootsMissed(r) ==
  r.incident # "" /\ LET c == Claims(CHOOSE i \in graph.incidents : i.id = r.incident)
                     IN c.missed \/ c.nodes = {}
WalkRoots(r) == IF r.focus # {} THEN r.focus ELSE Roots(r)

Traverse(r, nodes) ==
  IF r.depth = 0 THEN <<>> ELSE SetToSeq(Starts(WalkRoots(r), r.direction, nodes))
AllValid(edges) == \A e \in DOMAIN edges : ValidEdge(edges[e])

Ask ==
  /\ pc = "request"
  /\ \E r \in Requests :
       /\ request' = r
       /\ IF Unknown(r) # "nothing"
          THEN /\ answer' = Error(Unknown(r)) /\ pc' = "answered"
               /\ UNCHANGED <<graph, stack>>
          ELSE /\ graph' = IF RootsMissed(r) THEN Mark(graph, "incidents") ELSE graph
               /\ LET walks == r.incident # "" /\ r.depth > 0 /\ WalkRoots(r) # {}
                      broken == walks /\ ~AllValid(graph.edges)
                  IN /\ stack' = IF walks /\ ~broken THEN Traverse(r, graph.nodes) ELSE <<>>
                     /\ pc' = IF broken THEN "answered" ELSE "context"
                     /\ answer' = IF broken THEN Error("malformed") ELSE answer
  /\ UNCHANGED <<input, rest, pass, inventories, paths, context>>

(* One turn of the walk, over the whole graph or over what is shown of it. *)
Step(nodes, edges) ==
  LET top == Last(stack)
      turn == Turn(top, nodes, edges, request.depth)
  IN /\ stack' = Front(stack) \o turn.push
     /\ paths' = paths \cup turn.paths
     /\ UNCHANGED <<input, pc, rest, pass, inventories, graph, request, context, answer>>
WalkContext == pc = "context" /\ stack # <<>> /\ Step(graph.nodes, graph.edges)

Matches(n) ==
  /\ request.envs = {} \/ graph.nodes[n].env \in request.envs
  /\ request.teams = {} \/ graph.nodes[n].owner.team \in request.teams
Chosen == IF request.incident = "" THEN DOMAIN graph.nodes
          ELSE context \cup (WalkRoots(request) \cap DOMAIN graph.nodes)
Visible == {n \in Chosen : Matches(n)}
ShownNodes == Restrict(graph.nodes, Visible)
ShownEdges == Restrict(graph.edges, {e \in DOMAIN graph.edges :
                {graph.edges[e].up, graph.edges[e].down} \subseteq Visible})

(* The walk is done again on what is left, so that no path leads through a *)
(* node that the request does not select.                                  *)
Select ==
  /\ pc = "context" /\ stack = <<>>
  /\ context' = UNION {ToSet(p.nodes) : p \in paths}
  /\ paths' = {}
  /\ pc' = "select"
  /\ UNCHANGED <<input, rest, pass, inventories, graph, request, stack, answer>>
Restart ==
  /\ pc = "select"
  /\ LET walks == request.depth > 0 /\ WalkRoots(request) # {}
         broken == walks /\ ~AllValid(ShownEdges)
     IN /\ stack' = IF walks /\ ~broken THEN Traverse(request, ShownNodes) ELSE <<>>
        /\ pc' = IF broken THEN "answered" ELSE "walk"
        /\ answer' = IF broken THEN Error("malformed") ELSE answer
  /\ UNCHANGED <<input, rest, pass, inventories, graph, request, paths, context>>
WalkShown == pc = "walk" /\ stack # <<>> /\ Step(ShownNodes, ShownEdges)

Filtered == request.incident # "" \/ request.envs # {} \/ request.teams # {}
Snapshot ==
  [kind |-> "snapshot", nodes |-> ShownNodes, edges |-> ShownEdges, paths |-> paths,
   affected |-> Roots(request) \cap Visible, focus |-> request.focus \cap Visible,
   status |-> graph.status, evidence |-> {e.id : e \in graph.evidence},
   empty |-> IF ~Filtered \/ Visible # {} THEN "no"
             ELSE IF request.incident # "" /\ Roots(request) = {}
             THEN "incident_has_no_exact_root" ELSE "no_matching_nodes"]

Named(s) ==
  UNION ({s.nodes[n].evidence \cup s.nodes[n].metric \cup s.nodes[n].owner.evidence : n \in DOMAIN s.nodes}
           \cup {s.edges[e].evidence : e \in DOMAIN s.edges} \cup {p.evidence : p \in s.paths}
           \cup {s.status[k].evidence : k \in DOMAIN s.status})

(* TopologySnapshot::validate                                              *)
Valid(s) ==
  /\ \A n \in DOMAIN s.nodes : ValidNode(s.nodes[n])
  /\ s.focus \subseteq DOMAIN s.nodes
  /\ AllValid(s.edges)
  /\ \A e \in DOMAIN s.edges : {s.edges[e].up, s.edges[e].down} \subseteq DOMAIN s.nodes
  /\ \A p \in s.paths : ValidPath(p, s.nodes, s.edges)
  /\ Named(s) \subseteq s.evidence

(* The evidence command builds the snapshot of the default request and     *)
(* answers all the identifiers asked for or none.                          *)
Reply ==
  /\ pc = "walk" /\ stack = <<>>
  /\ pc' = "answered"
  /\ answer' = IF ~Valid(Snapshot) THEN Error("malformed")
                ELSE IF request.ids = {} THEN Snapshot
                ELSE IF request.ids \subseteq Snapshot.evidence
                THEN [kind |-> "evidence", ids |-> request.ids] ELSE Error("not found")
  /\ UNCHANGED <<input, rest, pass, inventories, graph, request, stack, paths, context>>

Derivation ==
  \/ AdmitEvidence \/ LoadEvidence \/ LoadStatuses \/ LoadIncident \/ LoadIncidents
  \/ DeriveEnvironments
  \/ OpenInventory \/ DeriveResources \/ ContainResources \/ DeriveLinks \/ CloseInventory
  \/ DeriveClouds \/ DeriveFixtures \/ Observe \/ Observations \/ Own
(* A request ends with its answer; nothing else may stop.                  *)
Answered == pc = "answered" /\ UNCHANGED vars
Next == Derivation \/ Ask \/ WalkContext \/ Select \/ Restart \/ WalkShown \/ Reply \/ Answered
Spec == Init /\ [][Next]_vars

Derived == pc \in {"request", "context", "select", "walk", "answered"}

(* Every node that the admissible records of the sources describe, by its  *)
(* identifier and as each of them describes it.                            *)
Described ==
  LET g == [graph EXCEPT !.nodes = <<>>]
      placed == {e \in input.environments : Placed(g, e)}
      envs == {e.env : e \in placed}
      settled == {e \in envs : EnvironmentId(e) \in DOMAIN graph.nodes}
      resources == UNION {v.resources : v \in {x \in input.inventories : x.env \in settled}}
      derivable == {r \in resources : Derivable(g, r)}
      anchored == {r \in input.cloud : Anchored(graph, r)}
  IN {<<EnvironmentId(e.env), EnvironmentNode(g, e)>> : e \in placed}
       \cup {<<ResourceId(r), ResourceNode(r, ResourceEvidence(g, r))>> : r \in derivable}
       \cup {<<CloudId(r), CloudNode(g, r)>> : r \in anchored}

(* The graph shows exactly the nodes that all their records describe       *)
(* alike, whatever order they came in and however many there were, and no  *)
(* fixture edge that another admissible one of its identifier contradicts. *)
ShownIsUndisputed ==
  Derived =>
    /\ \A d \in Described : LET same == {x \in Described : x[1] = d[1]}
                            IN d[1] \in DOMAIN graph.nodes <=> \A x, y \in same : SameNode(x[2], y[2])
    /\ DOMAIN graph.nodes \subseteq {d[1] : d \in Described}
    /\ \A f \in input.fixtures : Joins(graph, f) /\ f.id \in DOMAIN graph.edges =>
         \A h \in input.fixtures : Joins(graph, h) /\ h.id = f.id => SameEdge(graph.edges[f.id], [k \in DOMAIN h \ {"sound", "order"} |-> h[k]])

(* A node is owned by a team only if no admissible rule that selects it as *)
(* specifically as any other gives it to another team.                     *)
OwnedWithoutDispute ==
  Derived => \A n \in DOMAIN graph.nodes :
    LET node == graph.nodes[n]
        On(kind) == {r \in Admissibles : r.selector = kind /\ Selects(Selector(r), n, node)}
        highest == IF On("node") # {} THEN On("node") ELSE On("label")
    IN node.owner.team # "none" =>
         /\ \A r \in highest : r.team = node.owner.team
         /\ highest = {} => node.team \in {"none", node.owner.team}
         /\ highest = {} /\ node.team = "none" => \A r \in On("environment") : r.team = node.owner.team

(* The nodes within the depth of a walk from its roots, by plain reach.    *)
Ball(roots, direction, depth) ==
  LET step[d \in 0..depth] ==
        IF d = 0 THEN roots
        ELSE step[d - 1] \cup {To(graph.edges[e], direction) :
               e \in {x \in DOMAIN graph.edges : From(graph.edges[x], direction) \in step[d - 1]}}
  IN step[depth]

(* A snapshot shows exactly the nodes that satisfy every dimension of the  *)
(* filter, those of an incident being all within the depth asked for, and  *)
(* no path or mark names any other (nor does an edge, or Valid would have  *)
(* refused the snapshot).                                                  *)
SelectionExact ==
  answer.kind = "snapshot" =>
    LET roots == WalkRoots(request) \cap DOMAIN graph.nodes
        near == roots \cup UNION {Ball(roots, d, request.depth) : d \in Directions(request.direction)}
        chosen == IF request.incident = "" THEN DOMAIN graph.nodes ELSE near
    IN /\ DOMAIN answer.nodes = {n \in chosen : Matches(n)}
       /\ answer.affected \cup UNION {ToSet(p.nodes) : p \in answer.paths} \subseteq DOMAIN answer.nodes
       /\ answer.empty # "no" <=> Filtered /\ DOMAIN answer.nodes = {}
=============================================================================
