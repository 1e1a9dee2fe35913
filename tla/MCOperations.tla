----------------------------- MODULE MCOperations -----------------------------
(***************************************************************************)
(* Up to three records out of sixty-two, beside known good statuses or     *)
(* none.  Each departs from a plain one in the way it says; they are       *)
(* listed in the order the code sorts those of one source.                 *)
(***************************************************************************)
EXTENDS Operations, TLC

Ev(id, more) == <<"evidence", more @@ [id |-> id, inside |-> TRUE, verified |-> TRUE, content |-> <<"given", id[1]>>]>>
St(key, state, more) == <<"statuses", more @@ [key |-> key, state |-> state, reason |-> "none", evidence |-> {}]>>
Al(fp, more) ==
  <<"alerts", more @@ [fingerprint |-> fp, stem |-> fp, state |-> "active", readable |-> TRUE, connector |-> "am",
                       at |-> 3, summary |-> fp, severity |-> 3, level |-> "medium"]>>
Me(key, more) == <<"metrics", more @@ [key |-> key, inside |-> TRUE, samples |-> <<[at |-> 4, value |-> 9, finite |-> TRUE]>>]>>
Ru(id, more) ==
  <<"rules", more @@ [id |-> id, name |-> id, enabled |-> TRUE, named |-> TRUE, covers |-> TRUE, key |-> "cpu",
                      by |-> "above", bound |-> 5, window |-> 0, severity |-> 2]>>
Ck(id, more) ==
  <<"checks", more @@ [id |-> id, keys |-> <<id>>, valid |-> TRUE, enabled |-> TRUE, inside |-> TRUE, last |-> Never,
                       interval |-> 2, signal |-> Never, cooldown |-> 0, timeout |-> 5]>>
Ch(id, more) == <<"changes", more @@ [id |-> id, readable |-> TRUE, inside |-> TRUE, evidence |-> {}]>>
En(id, more) ==
  <<"environments", more @@ [id |-> id, provider |-> "aws", inside |-> TRUE, readable |-> TRUE, at |-> 3,
                             detail |-> id, health |-> "healthy", evidence |-> {}]>>

Sample(at, value) == [at |-> at, value |-> value, finite |-> TRUE]

Records ==
  << Ev(<<"alert", "a">>, [verified |-> FALSE]), Ev(<<"alert", "a">>, << >>), Ev(<<"metric", "cpu">>, [verified |-> FALSE]),
     Ev(<<"mine">>, << >>), Ev(<<"yours">>, [content |-> <<"given", "mine">>]), Ev(<<"change", "c">>, [inside |-> FALSE]),
     Ev(<<"environment", "e">>, [verified |-> FALSE]), Ev(<<"check", "ok">>, [verified |-> FALSE]),
     Ev(<<"summary", "attention">>, [verified |-> FALSE]), Ev(<<"signal", <<"cpu", "above">>, 5, 4>>, [verified |-> FALSE]),
     Ev(<<"change", "c">>, [verified |-> FALSE]),
     St(<<"alertmanager">>, "unverified", [evidence |-> {<<"base">>}]), St(<<"aws", "e">>, "stale", << >>),
     St(<<"changes-feed">>, "unverified", << >>), St(<<"prometheus">>, "fresh", [evidence |-> {<<"lost">>}]),
     Al("a", << >>), Al("a", [summary |-> "again"]), Al("alert-a", [stem |-> "a"]),
     Al("b", [severity |-> 1, level |-> "low"]), Al("c", [severity |-> 5, level |-> "none"]),
     Al("d", [summary |-> "a"]), Al("q", [state |-> "suppressed"]), Al("r", [state |-> "resolved"]),
     Al("u", [readable |-> FALSE]), Al("x", [level |-> "unknown"]),
     Me("", << >>), Me("cpu", << >>), Me("cpu", [samples |-> <<Sample(9, 9)>>]), Me("cpu", [inside |-> FALSE]),
     Me("cpu", [samples |-> <<Sample(4, 9), Sample(1, 2), Sample(2, 7)>>]),
     Me("cpu", [samples |-> <<Sample(4, 9), Sample(4, 8)>>]),
     Ru("r1", << >>), Ru("r1", [by |-> "below"]), Ru("r2", [by |-> "increase", bound |-> 1, window |-> 2, severity |-> 4]),
     Ru("r3", [by |-> "absolute", bound |-> 9, window |-> 9]), Ru("r4", [by |-> "increase", bound |-> 0, window |-> 2]),
     Ru("r5", [enabled |-> FALSE]), Ru("r6", [by |-> "at least", bound |-> 9, name |-> "r1"]),
     Ru("r7", [by |-> "decrease", bound |-> -1, window |-> 3]),
     Ck("ok", << >>), Ck("slow", << >>), Ck("down", [keys |-> <<"none", "down">>]), Ck("sick", [last |-> 3]),
     Ck("sick", [last |-> 4]), Ck("bare", [signal |-> 4, cooldown |-> 2]), Ck("worse", << >>), Ck("lost", << >>),
     Ck("off", [enabled |-> FALSE]), Ck("odd", [valid |-> FALSE]), Ck("blank", << >>), Ck("plain", [keys |-> << >>]),
     Ch("c", << >>), Ch("c", [evidence |-> {<<"mine">>}]), Ch("d", [evidence |-> {<<"mine">>, <<"lost">>}]),
     Ch("f", [inside |-> FALSE]),
     En("e", << >>), En("e", [health |-> "critical"]), En("f", [health |-> "degraded", provider |-> "environment"]),
     En("g", [detail |-> "e"]), En("h", [inside |-> FALSE]), En("i", [readable |-> FALSE]),
     En("j", [health |-> "unknown", evidence |-> {<<"mine">>}]) >>

Result(outcome, evidence) == [duration |-> 5, outcome |-> outcome, evidence |-> evidence]
MCResults ==
  [ok    |-> Result("healthy", <<"check", "ok">>),
   slow  |-> [Result("healthy", <<"check", "slow">>) EXCEPT !.duration = 6],
   down  |-> Result("unavailable", <<"check", "down">>),
   sick  |-> Result("degraded", <<"check", "sick">>),
   bare  |-> Result("healthy", NoId),
   worse |-> Result("degraded", NoId),
   blank |-> Result("healthy", Blank),
   plain |-> Result("healthy", <<"check", "ok">>)]

Fresh == [s \in {"alertmanager", "prometheus", "health_checks", "changes"} |-> St(<<s>>, "fresh", [evidence |-> {<<"base">>}])]
Known4 == <<Ev(<<"base">>, << >>), Fresh["alertmanager"], Fresh["changes"], Fresh["health_checks"], Fresh["prometheus"]>>

Input(list) ==
  LET of(s) == LET l == SelectSeq(list, LAMBDA x : x[1] = s) IN [i \in DOMAIN l |-> l[i][2]]
  IN [s \in Range(Sources) |-> of(s)] @@ [results |-> MCResults]

Chosen == {x \in [1..3 -> 0..Len(Records)] : \A i \in 1..2 : x[i] < x[i + 1] \/ (x[i] = 0 /\ x[i + 1] = 0)}
Pick(x) == LET l == SelectSeq(x, LAMBDA i : i # 0) IN [i \in DOMAIN l |-> Records[l[i]]]
MCInputs ==
  {Input((IF p[1] THEN Known4 ELSE << >>) \o Pick(p[2])) : p \in {p \in BOOLEAN \X Chosen : p[1] \/ p[2][1] = 0}}

MCAsked == {<< >>, <<<<"base">>, <<"alert", "a">>>>, <<<<"base">>, <<"base">>>>}
=============================================================================
