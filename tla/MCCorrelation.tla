--------------------------- MODULE MCCorrelation ---------------------------
(***************************************************************************)
(* Seven records around one service and a line of three topology nodes:    *)
(* some share the service exactly, some name a node only.  The resolver    *)
(* knows one path over the line, with an answer that it had to cut short   *)
(* and a later one that gives the same identifier another evidence; and a  *)
(* path that joins two pairs, which may belong together or not.            *)
(***************************************************************************)
EXTENDS Correlation

Svc == [kind |-> "service", id |-> "svc"]
N1 == [kind |-> "topology", id |-> "n1"]
N2 == [kind |-> "topology", id |-> "n2"]
N3 == [kind |-> "topology", id |-> "n3"]
MCTargetOrder == <<Svc, N1, N2, N3>>

MCPath(id, evidence) ==
  [id |-> id, nodes |-> {"n1", "n2", "n3", "svc"}, limited |-> FALSE, evidence |-> evidence]

MCRelation(l, r) ==
  CASE <<l, r>> \in {<<N1, N2>>, <<N1, N3>>} -> MCPath("over", "sure")
    [] <<l, r>> = <<N3, Svc>> -> MCPath("over", "other")
    [] <<l, r>> = <<Svc, N2>> -> [MCPath("over", "sure") EXCEPT !.limited = TRUE]
    [] <<l, r>> \in {<<Svc, N3>>, <<N2, N1>>} -> MCPath("under", "sure")
    [] {l, r} = {N2, N3} -> NoPath
    [] OTHER -> Failed

Record(id, source, payload, targets, observed, stamped) ==
  [id |-> id, source |-> source, revision |-> 1, digest |-> id, payload |-> payload,
   targets |-> targets, scope |-> "workspace", observed |-> observed, stamped |-> stamped]

Anomaly == [rule |-> "r", metric |-> "m", condition |-> "c", observed |-> "2", comparison |-> "1"]

(* Two alerts of one fingerprint and two contents; a falco event whose own *)
(* time lies in the range and whose record's does not; a check that names  *)
(* no run; an image scanned outside the range; a report nobody can parse.  *)
MCEarlier ==
  {Record(1, "alertmanager", [fingerprint |-> "first"], {Svc}, 0, TRUE),
   Record(3, "falco", [event |-> "e", rule |-> "r", target |-> "t", namespace |-> "ns", time |-> 0], {N2}, 1, TRUE),
   Record(4, "health_check", [schedule |-> "s", outcome |-> "degraded"], {N3}, 0, FALSE),
   Record(6, "trivy", [vulnerability |-> "v", image |-> "i", severity |-> Malformed], {Svc}, 0, TRUE)}

MCArrivals ==
  {Record(2, "prometheus", Anomaly, {Svc, N1}, 0, TRUE),
   Record(5, "alertmanager", [fingerprint |-> "low"], {Svc}, 0, TRUE),
   [Record(7, "alertmanager", [fingerprint |-> "low"], {N1}, 0, FALSE) EXCEPT !.digest = 8]}

MCRules == {[enabled |-> TRUE, scope |-> "workspace", source |-> "alertmanager", targets |-> {}]}
MCWindows == {[enabled |-> TRUE, scope |-> "workspace", source |-> "any", targets |-> {N2},
               start |-> 0, end |-> 1]}

(* Opaque keys: a digest orders them in no way a caller could foresee.     *)
MCKeyRank(identity) ==
  CASE identity.source = "alertmanager" -> IF identity.fields["fingerprint"] = "low" THEN 1 ELSE 9
    [] identity.source = "prometheus" -> 5
    [] OTHER -> 7

OnePath == {"sure", "other"}
=============================================================================
