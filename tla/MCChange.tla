------------------------------ MODULE MCChange ------------------------------
(***************************************************************************)
(* Any three of fifteen payloads as fixtures, each of which departs       *)
(* from a plain one in the way its name says.                              *)
(***************************************************************************)
EXTENDS Change, TLC

Plain ==
  [path |-> "plain", bounded |-> TRUE, parsed |-> TRUE, clock |-> "read", at |-> 4, allowed |-> TRUE,
   digest |-> 1, native |-> "n1", source |-> "github", event |-> "push", phase |-> "none",
   actor |-> "person", email |-> FALSE, repo |-> "plain", app |-> "api", paths |-> {"src"}, stray |-> FALSE,
   link |-> "native", counts |-> TRUE]
Variant(i, name, change) ==
  (change @@ [path |-> name, digest |-> i, native |-> name] @@ Plain)

Payloads ==
  << Plain,
     Variant(2, "late",   [at |-> 6, event |-> "deployment_status", phase |-> "failed", actor |-> "bot"]),
     Variant(3, "early",  [at |-> 1, source |-> "gitlab", event |-> "pipeline", phase |-> "success"]),
     Variant(4, "other",  [at |-> 3, app |-> "web", email |-> TRUE]),
     Variant(1, "twin",   [native |-> "n1"]),
     Variant(6, "plain",  [clock |-> "absent"]),
     Variant(7, "same",   [native |-> "n1", link |-> "foreign"]),
     Variant(8, "denied", [allowed |-> FALSE]),
     Variant(9, "plain",  [event |-> "sync", at |-> 2]),
     Variant(10, "argo",  [source |-> "argocd", event |-> "sync", phase |-> "running", repo |-> "none",
                           actor |-> "none", link |-> "signed", at |-> 3, app |-> "db"]),
     Variant(11, "dirty", [actor |-> "email", repo |-> "unsafe", stray |-> TRUE, link |-> "signed", at |-> 4]),
     Variant(12, "odd",   [clock |-> "odd"]),
     Variant(13, "text",  [parsed |-> FALSE, bounded |-> TRUE]),
     Variant(14, "wide",  [bounded |-> FALSE]),
     Variant(1, "mirror", [source |-> "gitlab"]) >>

MCCatalogs ==
  UNION {{[i \in 1..3 |-> Payloads[x[i]]] : x \in {y \in [1..3 -> 1..15] : y[1] < y[2] /\ y[2] < y[3]}}}

Signal(at, targets) == [at |-> at, targets |-> targets]
MCCandidates ==
  {[id |-> 1, targets |-> {"api"}, signals |-> {Signal(5, {"api"}), Signal(8, {"api"}), Signal(99, {})}],
   [id |-> 2, targets |-> {}, signals |-> {Signal(7, {"pod"})}],
   [id |-> 3, targets |-> {"web"}, signals |-> {Signal(99, {"web"})}]}
MCPaths ==
  {[from |-> "db", to |-> "pod", id |-> "p1", content |-> "a", evidence |-> {50}],
   [from |-> "web", to |-> "pod", id |-> "p2", content |-> "a", evidence |-> {50}]}

MCDefault == [start |-> 1, end |-> 6, evaluated |-> 6, lookback |-> 3, limit |-> 2]
MCRequests ==
  {MCDefault, [MCDefault EXCEPT !.start = 4, !.end = 7, !.lookback = 4], [MCDefault EXCEPT !.end = 1]}
MCAsked == {{1}, {2}, {70}, {3, 10}}
=============================================================================
