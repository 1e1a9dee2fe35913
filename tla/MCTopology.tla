----------------------------- MODULE MCTopology -----------------------------
(***************************************************************************)
(* Two environments, one with a namespace, a service, a workload and a pod *)
(* that form a cycle, and with a cloud instance; the sources hand that     *)
(* over with two records more, or three of one part, most of which         *)
(* contradict it.                                                          *)
(***************************************************************************)
EXTENDS Topology

Ev(id, source, about, says, content) ==
  [id |-> id, source |-> source, about |-> about, says |-> says, content |-> content,
   sound |-> content # "unsafe", order |-> 0]
Env(env, facet, evidence) ==
  [env |-> env, facet |-> facet, evidence |-> evidence, count |-> {}, hints |-> <<env>>,
   sound |-> TRUE, order |-> 0]
Res(kind, space, name, uid, facet, resource, order) ==
  [env |-> "p", kind |-> kind, space |-> space, name |-> name, uid |-> uid, facet |-> facet,
   provider |-> "kubernetes", labels |-> IF kind = "Service" THEN {<<"team">>, <<"tier">>} ELSE {},
   team |-> IF kind = "Pod" THEN "blue" ELSE "none", replicas |-> "none",
   sound |-> TRUE, hints |-> <<uid, name>>, resource |-> resource, owner |-> "none", order |-> order]

Space == Res("Namespace", "", "ns", "un", "a", "rn", 2)
Api == Res("Deployment", "ns", "api", "ua", "a", "ra", 1)
Pod == [Res("Pod", "ns", "pod", "up", "a", "rp", 3) EXCEPT !.owner = "ua"]
Web == Res("Service", "ns", "web", "uw", "a", "rw", 4)

Link(relation, from, to) ==
  [env |-> "p", relation |-> relation, order |-> 0,
   from |-> [kind |-> from.kind, name |-> FullName(from)],
   to |-> [kind |-> to.kind, name |-> <<to.name>>]]

FixtureEdge(facet, seen, evidence) ==
  [id |-> <<"depends_on", ResourceId(Pod), ResourceId(Web), "fixtures">>, kind |-> "depends_on",
   up |-> ResourceId(Pod), down |-> ResourceId(Web), facet |-> facet, confidence |-> 5,
   provenance |-> {[source |-> "fixtures", seen |-> seen]}, evidence |-> {evidence},
   sound |-> TRUE, order |-> 0]

Cloud(facet) ==
  [env |-> "p", id |-> "c1", name |-> "vm", kind |-> "cloud_resource", facet |-> facet,
   sound |-> TRUE, order |-> 0]

Observation(channel, id, kind, name, facet) ==
  [id |-> id, channel |-> channel, kind |-> kind, space |-> "ns", name |-> name, env |-> "any",
   named |-> TRUE, hints |-> <<id, name>>, facet |-> facet, sound |-> TRUE, order |-> 0]

Incident(id, source, resources, roots) ==
  [id |-> id, source |-> source, resources |-> resources, roots |-> roots,
   evidence |-> {"cp"}, facet |-> "a", sound |-> TRUE, order |-> 0]

Rule(selector, value, source, team) ==
  [selector |-> selector, value |-> value, source |-> source, team |-> team, name |-> team,
   evidence |-> {"cp"}, sound |-> TRUE]

(* A further record is a part of the input and what comes in that part.    *)
Extras ==
  {<<"environments", Env("p", "b", {})>>, <<"environments", Env("q", "a", {"lost"})>>,
   <<"environments", [Env("p", "a", {}) EXCEPT !.count = {"lost"}]>>,
   <<"evidence", Ev("k", "kubernetes", {"ua"}, {}, "other")>>,
   <<"evidence", Ev("m", "metric", {"rate"}, {}, "unsafe")>>,
   <<"status", [key |-> "cloud", state |-> "stale", evidence |-> {"cp"}, sound |-> TRUE, order |-> 0]>>,
   <<"status", [key |-> "cloud", state |-> "fresh", evidence |-> {"lost"}, sound |-> TRUE, order |-> 0]>>,
   <<"resources", [Api EXCEPT !.facet = "b"]>>,
   <<"resources", [Api EXCEPT !.replicas = "invalid"]>>,
   <<"resources", [Api EXCEPT !.owner = "ux"]>>,
   <<"resources", [Api EXCEPT !.uid = "u2", !.name = "api2", !.order = 2]>>,
   <<"resources", [Space EXCEPT !.uid = "u3", !.resource = "rn2"]>>,
   <<"resources", [Web EXCEPT !.kind = "Secret", !.uid = "u4"]>>,
   <<"links", Link("selects", Web, [Pod EXCEPT !.name = "gone"])>>,
   <<"links", Link("owns", Web, Web)>>,
   <<"cloud", Cloud("b")>>, <<"cloud", [Cloud("a") EXCEPT !.env = "r"]>>,
   <<"fixtures", FixtureEdge("b", 1, "cp")>>, <<"fixtures", FixtureEdge("a", 1, "k")>>,
   <<"fixtures", FixtureEdge("a", 2, "cp")>>, <<"fixtures", FixtureEdge("a", 1, "lost")>>,
   <<"incidents", Incident("listed", "f", {"rw"}, {})>>,
   <<"incidents", Incident("sourced", "f", {}, {})>>,
   <<"alerts", Observation("alert", "f", "Service", "web", "b")>>,
   <<"metrics", Observation("metric", "rate", "Deployment", "api", "a")>>,
   <<"rules", Rule("label", <<"team">>, "label", "red")>>, <<"rules", Rule("label", <<"tier">>, "label", "red")>>,
   <<"rules", Rule("node", ResourceId(Web), "fixture", "red")>>,
   <<"rules", [Rule("node", ResourceId(Web), "fixture", "blue") EXCEPT !.name = "Blue"]>>,
   <<"rules", [Rule("node", ResourceId(Web), "unassigned", "red") EXCEPT !.sound = FALSE]>>,
   <<"rules", Rule("node", ResourceId(Pod), "unassigned", "blue")>>}

More(extras, part) == {x[2] : x \in {y \in extras : y[1] = part}}

Input(extras) ==
  [evidence |-> {Ev("cp", "cloud", {"p", "c1"}, {}, "a"), Ev("cs", "cloud", {}, {"s"}, "a"),
                 Ev("k", "kubernetes", {"un", "ua", "up", "uw", "u2", "u3"}, {}, "a"),
                 Ev("al", "alert", {"f"}, {}, "a")} \cup More(extras, "evidence"),
   status |-> {[key |-> "cloud", state |-> "fresh", evidence |-> {"cs"}, sound |-> TRUE, order |-> 0]}
                \cup More(extras, "status"),
   incidents |-> {Incident("listed", "f", {"ra", "rw"}, {}), Incident("sourced", "f", {}, {CloudId(Cloud("a"))}),
                  Incident("guessed", "none", {}, {CloudId(Cloud("a")), <<"nowhere">>})}
                   \cup More(extras, "incidents"),
   environments |-> {Env("p", "a", {}), Env("s", "a", {})} \cup More(extras, "environments"),
   inventories |-> {[env |-> "p", order |-> 1, resources |-> {Space, Api, Pod, Web} \cup More(extras, "resources"),
                     links |-> {Link("owns", Api, Pod), Link("selects", Web, Pod)} \cup More(extras, "links")],
                    [env |-> "r", order |-> 2, resources |-> {}, links |-> {}]},
   cloud |-> {Cloud("a")} \cup More(extras, "cloud"),
   fixtures |-> {FixtureEdge("a", 1, "cp")} \cup More(extras, "fixtures"),
   alerts |-> {Observation("alert", "f", "Service", "web", "a")} \cup More(extras, "alerts"),
   metrics |-> More(extras, "metrics"),
   rules |-> {Rule("environment", <<"p">>, "environment", "red"), Rule("label", <<"team">>, "label", "blue")}
               \cup More(extras, "rules")]

(* Bounds: which further records come together.                            *)
Alone == {{}} \cup {{x} : x \in Extras}
Pairs == {{x, y} : x, y \in Extras}
Triples == UNION {{{x, y, z} : x, y, z \in {e \in Extras : e[1] = part}} :
                    part \in {"resources", "fixtures", "rules"}}
MCInputs == {Input(x) : x \in Alone \cup Pairs \cup Triples}

Everything == [envs |-> {}, teams |-> {}, incident |-> "", focus |-> {}, direction |-> "both",
               depth |-> 3, ids |-> {}]
MCRequests ==
  {Everything,
   [Everything EXCEPT !.ids = {"cp", "k"}],
   [Everything EXCEPT !.focus = {ResourceId(Pod)}, !.depth = 1],
   [Everything EXCEPT !.focus = {ResourceId(Api)}, !.envs = {"s"}],
   [Everything EXCEPT !.incident = "listed", !.direction = "down", !.depth = 2],
   [Everything EXCEPT !.incident = "listed", !.direction = "up", !.teams = {"blue"}],
   [Everything EXCEPT !.incident = "sourced", !.depth = 0],
   [Everything EXCEPT !.incident = "sourced", !.focus = {ResourceId(Pod)}, !.direction = "down"],
   [Everything EXCEPT !.incident = "guessed", !.envs = {"p"}],
   [Everything EXCEPT !.teams = {"green"}]}
=============================================================================
