--------------------------- MODULE TopologyGraph ---------------------------
(***************************************************************************)
(* The resource graph while it is derived (topology/derive.rs): what each  *)
(* record of a source does to it.  A node or an edge that two records      *)
(* describe differently is taken out, with all that names it, and never    *)
(* comes back; every record left out marks its source unverified.          *)
(* Identifiers are the tuples that the code formats into strings; `sound`  *)
(* says that a record passes the checks on its own text and scope, `facet` *)
(* stands for the parts of an identity that are only ever compared.        *)
(* The last part gives every node its owner (topology/ownership.rs).       *)
(***************************************************************************)
EXTENDS Naturals, Sequences, FiniteSets, Functions, FiniteSetsExt

Nobody == [team |-> "none", evidence |-> {}]
EmptyGraph ==
  [nodes |-> <<>>, edges |-> <<>>, status |-> <<>>, evidence |-> {},
   badNodes |-> {}, badEdges |-> {},
   incidents |-> {}, attempts |-> {}, bound |-> {},
   resourceNodes |-> <<>>, badResources |-> {}, lookup |-> {}, k8s |-> <<>>]

Without(f, gone) == Restrict(f, DOMAIN f \ gone)
With(f, key, value) == [k \in DOMAIN f \cup {key} |-> IF k = key THEN value ELSE f[k]]

(***************************************************************************)
(* Sources and evidence                                                    *)
(***************************************************************************)
States == <<"fresh", "stale", "unavailable", "unverified">>
Rank(state) == CHOOSE i \in 1..4 : States[i] = state
Admitted(g, ids) == ids \subseteq {e.id : e \in g.evidence}

Mark(g, source) ==
  LET old == IF source \in DOMAIN g.status THEN g.status[source].evidence ELSE {}
  IN [g EXCEPT !.status = With(@, source,
        [state |-> "unverified", evidence |-> {e \in old : Admitted(g, {e})}])]

(* A status of a source: the worst of those given stands.                  *)
LoadStatus(g, s) ==
  LET kept == {e \in s.evidence : Admitted(g, {e})}
      state == IF s.sound /\ kept = s.evidence THEN s.state ELSE "unverified"
      old == IF s.key \in DOMAIN g.status THEN g.status[s.key] ELSE [state |-> state, evidence |-> {}]
  IN [g EXCEPT !.status = With(@, s.key,
        [state |-> IF Rank(state) > Rank(old.state) THEN state ELSE old.state,
         evidence |-> old.evidence \cup kept])]

(* Records of one key are kept while they agree; once two differ the key   *)
(* is refused for good.  `kept` and `refused` belong to one pass.          *)
Agreed(pass, key, record) ==
  IF key \in pass.refused \/ record \in pass.kept THEN pass
  ELSE IF \E k \in pass.kept : k.id = key
       THEN [kept |-> {k \in pass.kept : k.id # key}, refused |-> pass.refused \cup {key}]
  ELSE [pass EXCEPT !.kept = @ \cup {record}]
Disagrees(pass, key, record) ==
  key \notin pass.refused /\ \E k \in pass.kept : k.id = key /\ k # record

(* The evidence of a thing: by the first hint that some record of the      *)
(* source's names, in its identifier or query before in its text.          *)
Naming(g, source, hint) ==
  LET ours == {e \in g.evidence : e.source = source}
      structural == {e.id : e \in {x \in ours : hint \in x.about}}
  IN IF structural # {} THEN structural ELSE {e.id : e \in {x \in ours : hint \in x.says}}
Preferred(g, source, hints) ==
  LET hit == {i \in DOMAIN hints : Naming(g, source, hints[i]) # {}}
  IN IF hit = {} THEN {} ELSE Naming(g, source, hints[Min(hit)])

(***************************************************************************)
(* Nodes and edges                                                         *)
(***************************************************************************)
Same(old, new, unlike) == \A f \in DOMAIN old \ unlike : old[f] = new[f]
SameNode(old, new) == Same(old, new, {"evidence", "owner"})
Observers(provenance) == {p.source : p \in provenance}
SameEdge(old, new) ==
  /\ Same(old, new, {"evidence", "confidence", "provenance"})
  /\ Observers(old.provenance) = Observers(new.provenance)

Touches(edge, id) == id \in {edge.up, edge.down}
EdgesOf(g, id) == {e \in DOMAIN g.edges : Touches(g.edges[e], id)}

RemoveReferences(g, id) ==
  [g EXCEPT !.lookup = {l \in @ : l.node # id}, !.k8s = Without(@, {id}),
            !.resourceNodes = Without(@, {r \in DOMAIN @ : @[r] = id}),
            !.edges = Without(@, EdgesOf(g, id))]

AddNode(g, id, node) ==
  IF id \in g.badNodes THEN [taken |-> FALSE, g |-> g]
  ELSE IF id \notin DOMAIN g.nodes
       THEN [taken |-> TRUE, g |-> [g EXCEPT !.nodes = With(@, id, node)]]
  ELSE IF SameNode(g.nodes[id], node)
       THEN [taken |-> TRUE, g |-> [g EXCEPT !.nodes[id].evidence = @ \cup node.evidence]]
  ELSE [taken |-> FALSE,
        g |-> RemoveReferences([g EXCEPT !.nodes = Without(@, {id}),
                                         !.badNodes = @ \cup {id}], id)]

Lesser(a, b) == IF a < b THEN a ELSE b
\* Mutant: a contested edge is dropped and its identifier forgotten.
EdgeForgotten(g, edge) ==
  IF edge.id \notin DOMAIN g.edges
  THEN [taken |-> TRUE, g |-> [g EXCEPT !.edges = With(@, edge.id, edge)]]
  ELSE LET old == g.edges[edge.id]
       IN IF SameEdge(old, edge)
          THEN [taken |-> TRUE,
                g |-> [g EXCEPT !.edges[edge.id].evidence = @ \cup edge.evidence,
                                !.edges[edge.id].provenance = @ \cup edge.provenance,
                                !.edges[edge.id].confidence = Lesser(@, edge.confidence)]]
          ELSE [taken |-> FALSE, g |-> [g EXCEPT !.edges = Without(@, {edge.id})]]

AddEdge(g, edge) ==
  IF edge.id \in g.badEdges THEN [taken |-> FALSE, g |-> g]
  ELSE IF edge.id \notin DOMAIN g.edges
       THEN [taken |-> TRUE, g |-> [g EXCEPT !.edges = With(@, edge.id, edge)]]
  ELSE LET old == g.edges[edge.id]
       IN IF SameEdge(old, edge)
          THEN [taken |-> TRUE,
                g |-> [g EXCEPT !.edges[edge.id].evidence = @ \cup edge.evidence,
                                !.edges[edge.id].provenance = @ \cup edge.provenance,
                                !.edges[edge.id].confidence = Lesser(@, edge.confidence)]]
          ELSE [taken |-> FALSE, g |-> [g EXCEPT !.edges = Without(@, {edge.id}),
                                                 !.badEdges = @ \cup {edge.id}]]

(* The edge a source reports between two nodes, none from a node to itself.*)
MakeEdge(g, up, down, kind, source, relation, confidence) ==
  [id |-> <<kind, up, down, source>>, up |-> up, down |-> down, kind |-> kind,
   facet |-> relation, confidence |-> confidence,
   provenance |-> {[source |-> source, seen |-> 0]},
   evidence |-> g.nodes[up].evidence \cup g.nodes[down].evidence]
Connect(g, up, down, kind, source, relation, confidence, silent) ==
  IF up = down THEN IF silent THEN g ELSE Mark(g, source)
  ELSE LET added == AddEdge(g, MakeEdge(g, up, down, kind, source, relation, confidence))
       IN IF added.taken THEN added.g ELSE Mark(added.g, source)

Look(env, kind, name, id) == [env |-> env, kind |-> kind, name |-> name, node |-> id]

(***************************************************************************)
(* Environments and the resources in them                                  *)
(***************************************************************************)
EnvironmentId(env) == <<"environment", env>>
HasEnvironment(g, env) == EnvironmentId(env) \in DOMAIN g.nodes

EnvironmentEvidence(g, e) == IF e.evidence # {} THEN e.evidence ELSE Preferred(g, "cloud", e.hints)
Placed(g, e) == e.sound /\ Admitted(g, e.evidence) /\ EnvironmentEvidence(g, e) # {}
EnvironmentNode(g, e) ==
  [kind |-> "environment", name |-> e.env, env |-> e.env, provider |-> "cloud",
   facet |-> e.facet, labels |-> {}, team |-> "none", owner |-> Nobody,
   metric |-> IF ~Admitted(g, e.count) THEN {}
              ELSE IF e.count = {} THEN EnvironmentEvidence(g, e) ELSE e.count,
   evidence |-> EnvironmentEvidence(g, e)]

DeriveEnvironment(g, e) ==
  LET marked == IF Admitted(g, e.count) THEN g ELSE Mark(g, "cloud")
      added == AddNode(marked, EnvironmentId(e.env), EnvironmentNode(g, e))
  IN IF ~Placed(g, e) THEN Mark(g, "cloud")
     ELSE IF ~added.taken THEN Mark(added.g, "cloud")
     ELSE [added.g EXCEPT !.lookup = @ \cup
             {Look(e.env, "environment", <<e.env>>, EnvironmentId(e.env))}]

Cluster(env) == "kubernetes:" \o env
KubernetesKinds ==
  [Pod |-> "pod", Service |-> "service", Node |-> "node", Namespace |-> "namespace",
   Deployment |-> "workload", StatefulSet |-> "workload", DaemonSet |-> "workload"]
Known(kind) == kind \in DOMAIN KubernetesKinds

FullName(r) == IF r.space = "" THEN <<r.name>> ELSE <<r.space, r.name>>
ResourceId(r) ==
  <<"kubernetes", r.env, KubernetesKinds[r.kind], IF r.uid = "" THEN FullName(r) ELSE <<r.uid>>>>

(* Two nodes that claim one resource identifier leave it to neither.       *)
ClaimResource(g, resource, id, source) ==
  IF resource \in g.badResources THEN g
  ELSE IF resource \notin DOMAIN g.resourceNodes
       THEN [g EXCEPT !.resourceNodes = With(@, resource, id)]
  ELSE IF g.resourceNodes[resource] = id THEN g
  ELSE Mark([g EXCEPT !.resourceNodes = Without(@, {resource}),
                      !.badResources = @ \cup {resource}], source)

ResourceEvidence(g, r) == Preferred(g, "kubernetes", r.hints)
Derivable(g, r) == Known(r.kind) /\ r.sound /\ ResourceEvidence(g, r) # {}
ResourceNode(r, evidence) ==
  [kind |-> KubernetesKinds[r.kind], name |-> r.name, env |-> r.env, provider |-> r.provider,
   facet |-> <<r.kind, r.facet, r.replicas>>, labels |-> r.labels, team |-> r.team, owner |-> Nobody,
   metric |-> IF r.replicas = "valid" THEN evidence ELSE {}, evidence |-> evidence]

DeriveResource(g, r) ==
  LET source == Cluster(r.env)
      id == ResourceId(r)
      evidence == ResourceEvidence(g, r)
      counts == IF r.replicas = "invalid" THEN Mark(g, source) ELSE g
      added == AddNode(counts, id, ResourceNode(r, evidence))
      kind == KubernetesKinds[r.kind]
      found == {Look(r.env, kind, n, id) : n \in {FullName(r), <<r.name>>}}
      claimed == ClaimResource([added.g EXCEPT !.lookup = @ \cup found], r.resource, id, source)
  IN IF ~Derivable(g, r) THEN Mark(g, source)
     ELSE IF ~added.taken THEN Mark(added.g, source)
     ELSE [claimed EXCEPT !.k8s = With(@, id, r)]

(* An environment contains its namespaces, and the one namespace of a name *)
(* contains what says it lives there; of several none does.                *)
Spaces(g, env) == {n \in DOMAIN g.nodes : g.nodes[n].env = env /\ g.nodes[n].kind = "namespace"}
Housed(g, env) ==
  {n \in DOMAIN g.nodes \cap DOMAIN g.k8s :
     /\ g.nodes[n].env = env /\ g.nodes[n].kind \notin {"namespace", "environment"}
     /\ g.nodes[n].provider = "kubernetes" /\ g.k8s[n].space # ""}
Homes(g, env, n) == {s \in Spaces(g, env) : g.nodes[s].name = g.k8s[n].space}
Crowded(g, env) == \E n \in Housed(g, env) : Cardinality(Homes(g, env, n)) > 1
Holding(env, up, down, order) == [env |-> env, up |-> up, down |-> down, order |-> order]
Holdings(g, env) ==
  {Holding(env, EnvironmentId(env), s, 1) : s \in Spaces(g, env)}
    \cup {Holding(env, h[1], h[2], 2) :
            h \in {x \in Spaces(g, env) \X Housed(g, env) : Homes(g, env, x[2]) = {x[1]}}}
Contain(g, h) == Connect(g, h.up, h.down, "contains", Cluster(h.env), "contains", 10, TRUE)

(* A name stands for a node when one node alone has it: the name as given, *)
(* and only if nothing has that, the name without its namespace.           *)
Candidates(g, env, kind, name) ==
  LET Called(n) == {l.node : l \in {x \in g.lookup :
                     x.env = env /\ x.kind = KubernetesKinds[kind] /\ x.name = n}}
  IN IF Called(name) # {} THEN Called(name) ELSE Called(<<name[Len(name)]>>)

OwnerMatches(g, up, down) ==
  {up, down} \subseteq DOMAIN g.k8s /\ g.k8s[down].owner # "none" /\ g.k8s[down].owner = g.k8s[up].uid

DeriveLink(g, l) ==
  LET ends == <<l.from, l.to>>
      Of(e) == IF Known(e.kind) THEN Candidates(g, l.env, e.kind, e.name) ELSE {}
      up == CHOOSE n \in Of(l.from) : TRUE
      down == CHOOSE n \in Of(l.to) : TRUE
      sure == l.relation = "owns" /\ OwnerMatches(g, up, down)
  IN IF \/ l.relation \notin {"owns", "selects"}
        \/ \E e \in {l.from, l.to} : Cardinality(Of(e)) # 1
     THEN Mark(g, Cluster(l.env))
     ELSE Connect(g, up, down, l.relation, Cluster(l.env), l.relation, IF sure THEN 10 ELSE 9, FALSE)

CloudId(r) == <<"cloud", r.env, r.kind, <<r.id>>>>
CloudNode(g, r) ==
  [kind |-> r.kind, name |-> r.name, env |-> r.env, provider |-> "cloud", facet |-> r.facet,
   labels |-> {}, team |-> "none", owner |-> Nobody, metric |-> {},
   evidence |-> Preferred(g, "cloud", <<r.id>>)]
Anchored(g, r) == r.sound /\ HasEnvironment(g, r.env) /\ Preferred(g, "cloud", <<r.id>>) # {}

DeriveCloud(g, r) ==
  LET id == CloudId(r)
      added == AddNode(g, id, CloudNode(g, r))
      found == [added.g EXCEPT !.lookup = @ \cup {Look(r.env, r.kind, <<r.name>>, id)}]
  IN IF ~Anchored(g, r) THEN Mark(g, "cloud")
     ELSE IF ~added.taken THEN Mark(added.g, "cloud")
     ELSE Connect(found, EnvironmentId(r.env), id, "contains", "cloud", "contains", 10, TRUE)

Joins(g, e) == e.sound /\ {e.up, e.down} \subseteq DOMAIN g.nodes /\ Admitted(g, e.evidence)
DeriveFixtureEdge(g, e) ==
  LET added == AddEdge(g, [k \in DOMAIN e \ {"sound", "order"} |-> e[k]])
  IN IF ~Joins(g, e) THEN Mark(g, "fixtures")
     ELSE IF added.taken THEN added.g ELSE Mark(added.g, "fixtures")

(***************************************************************************)
(* Alerts and metrics, and the incidents that name them as their source    *)
(***************************************************************************)
Attempt(g, key) == [g EXCEPT !.attempts = @ \cup {i.id : i \in {x \in g.incidents : x.source = key}}]

Observed(g, o) ==
  LET Called(l) == l.kind = KubernetesKinds[o.kind] /\ l.name \in {<<o.name>>, <<o.space, o.name>>}
      InSpace(l) == \/ o.space = "" \/ l.name = <<o.space, o.name>>
                    \/ \E m \in g.lookup : /\ m.env = l.env /\ m.kind = l.kind /\ m.name = l.name
                                           /\ m.node \in DOMAIN g.k8s /\ g.k8s[m.node].space = ""
  IN {l.node : l \in {x \in g.lookup : Called(x) /\ InSpace(x) /\ o.env \in {"any", x.env}}}

Attach(g, o) ==
  LET nodes == IF o.named /\ Known(o.kind) THEN Observed(g, o) ELSE {}
      node == CHOOSE n \in nodes : TRUE
      evidence == Preferred(g, o.channel, o.hints)
      mine == {<<i.id, node>> : i \in {x \in g.incidents : x.source = o.id}}
  IN IF Cardinality(nodes) # 1 \/ evidence = {} THEN Mark(g, "observability")
     ELSE [(IF node \in DOMAIN g.nodes THEN [g EXCEPT !.nodes[node].evidence = @ \cup evidence]
            ELSE Mark(g, "observability")) EXCEPT !.bound = @ \cup mine]

(***************************************************************************)
(* Who owns a node: the rules of the adapters, from the most specific      *)
(* selector to the least, the team of the node's own scope between them.   *)
(* Rules that disagree leave the node to nobody.                           *)
(***************************************************************************)
Disputed == [team |-> "disputed", evidence |-> {}]   \* resolve_ownership failed

SelectorSources ==
  {<<"node", "fixture">>, <<"node", "unassigned">>, <<"label", "label">>,
   <<"environment", "environment">>}

(* A rule names its selector and its value, a team and the team's name.    *)
Admissible(rule, known, workspaceTeam) ==
  /\ rule.sound
  /\ workspaceTeam \in {"none", rule.team}
  /\ rule.evidence # {} /\ rule.evidence \subseteq known
  /\ <<rule.selector, rule.source>> \in SelectorSources

Selector(rule) == <<rule.selector, rule.value>>

(* Two rules of one selector are both refused, whatever they say.          *)
Rejected(rules) == {Selector(r) : r \in {x \in rules : \E y \in rules : y # x /\ Selector(y) = Selector(x)}}

Standing(rules) == {r \in rules : Selector(r) \notin Rejected(rules)}

Selects(selector, id, node) ==
  CASE selector[1] = "node"        -> selector[2] = id
    [] selector[1] = "label"       -> selector[2] \in node.labels
    [] selector[1] = "environment" -> selector[2] = <<node.env>>

\* Mutant: the first of several rules speaks for them all.
AlwaysAgree(rules) == rules # {}

Agree(rules) == \A r, q \in rules : r.team = q.team /\ r.name = q.name

Consistent(rules) ==
  LET rule == CHOOSE r \in rules : TRUE
  IN IF ~Agree(rules) THEN Disputed
     ELSE IF rule.source = "unassigned" THEN Nobody
     ELSE [team |-> rule.team, evidence |-> UNION {r.evidence : r \in rules}]

(* The team of the node's own scope, when some rule gives it its name.     *)
OfScope(node, rules) ==
  LET named == {r \in rules : r.team = node.team /\ r.source # "unassigned"}
  IN IF named = {} THEN Nobody
     ELSE IF \E r, q \in named : r.name # q.name THEN Disputed
     ELSE [team |-> node.team, evidence |-> node.evidence \cup UNION {r.evidence : r \in named}]

Owner(id, node, rules, rejected) ==
  LET Matching(kind) == {r \in rules : r.selector = kind /\ Selects(Selector(r), id, node)}
  IN IF \E s \in rejected : Selects(s, id, node) THEN Disputed
     ELSE IF Matching("node") # {} THEN Consistent(Matching("node"))
     ELSE IF Matching("label") # {} THEN Consistent(Matching("label"))
     ELSE IF node.team # "none" THEN OfScope(node, rules)
     ELSE IF Matching("environment") # {} THEN Consistent(Matching("environment"))
     ELSE Nobody

(* Every node gets its owner, or nobody and the sources are marked.        *)
ResolveOwnership(g, all, workspaceTeam) ==
  LET admissible == {r \in all : Admissible(r, {e.id : e \in g.evidence}, workspaceTeam)}
      rules == Standing(admissible)
      rejected == Rejected(admissible)
      owner == [n \in DOMAIN g.nodes |-> Owner(n, g.nodes[n], rules, rejected)]
      disputed == \E n \in DOMAIN owner : owner[n] = Disputed
      owned == [g EXCEPT !.nodes = [n \in DOMAIN @ |->
                  [@[n] EXCEPT !.owner = IF owner[n] = Disputed THEN Nobody ELSE owner[n]]]]
  IN IF rules # all \/ disputed THEN Mark(owned, "ownership") ELSE owned
=============================================================================
