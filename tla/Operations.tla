------------------------------ MODULE Operations ------------------------------
(***************************************************************************)
(* The operations console (operations/aggregate.rs, app/operations.rs).    *)
(* A command builds a snapshot of what the sources handed over, record by  *)
(* record and source after source, in the order the code sorts them, and   *)
(* answers by the snapshot, by evidence it names, or by an error.          *)
(*                                                                         *)
(* A source is summed up by a status: a record that cannot be used makes   *)
(* it unverified and leaves the others as they are.                        *)
(***************************************************************************)
EXTENDS ConsoleSignals, ConsoleSources, FiniteSetsExt

CONSTANTS
  Inputs,   \* what the sources may hand over: a sequence of records each
  Asked,    \* the evidence identifiers that may be asked for, sequences
  Now,      \* the instant of evaluation
  ChangeSources   \* the names of sources that start with "changes"

(* A source hands over a list; a record has its instants and durations,    *)
(* a status its state, an environment its health; a recorded result is     *)
(* that of a probe that was run; no evidence is named by what stands for   *)
(* the lack of an identifier.                                              *)
ASSUME InputsAssumption ==
  \A in \in Inputs :
    /\ \A s \in {"evidence", "statuses", "alerts", "metrics", "rules", "checks", "changes", "environments"} :
         in[s] \in Seq(Range(in[s]))
    /\ \A i \in DOMAIN in.evidence : in.evidence[i].id # NoId
    /\ \A i \in DOMAIN in.statuses : in.statuses[i].state \in SourceStates
    /\ \A i \in DOMAIN in.checks :
         /\ \A f \in {"last", "interval", "signal", "cooldown"} : in.checks[i][f] \in Nat
         /\ in.checks[i].keys \in Seq(Range(in.checks[i].keys))
    /\ \A k \in DOMAIN in.results : in.results[k].outcome \in {"healthy", "degraded", "unavailable", "timed out"}
    /\ \A i \in DOMAIN in.environments : in.environments[i].health \in {"healthy", "degraded", "critical", "unknown"}
ASSUME NowAssumption == Now \in Nat
ASSUME ChangeSourcesAssumption ==
  /\ "changes" \in ChangeSources
  /\ {"alertmanager", "prometheus", "health_checks", "environment_status", "environment"} \cap ChangeSources = {}

VARIABLES
  input,
  pc,              \* the source that is read, or "ask", "summary", "done"
  rest,            \* its records still to read
  store, book,     \* evidence and source statuses
  bad, seen,       \* of the present source: a record was unusable; evidence
  queue, due, timedOut, troubles,
  changes, environments,
  answer
vars == <<input, pc, rest, store, book, bad, seen, queue, due, timedOut, troubles, changes,
          environments, answer>>
checked == <<due, timedOut, troubles>>
frame == <<input, answer>>

NoAnswer == [kind |-> "none"]
Error(of) == [kind |-> "error", of |-> of]

Init ==
  /\ input \in Inputs
  /\ pc = "ask" /\ rest = << >> /\ store = EmptyStore /\ book = << >> /\ bad = FALSE /\ seen = {}
  /\ queue = << >> /\ due = << >> /\ timedOut = << >> /\ troubles = {}
  /\ changes = << >> /\ environments = << >> /\ answer = NoAnswer

Sources == <<"evidence", "statuses", "alerts", "metrics", "rules", "checks", "changes", "environments">>
After(s) ==
  LET i == CHOOSE i \in DOMAIN Sources : Sources[i] = s
  IN IF i = Len(Sources) THEN "summary" ELSE Sources[i + 1]

Open(s) == pc' = s /\ rest' = IF s = "summary" THEN << >> ELSE input[s]

(* Which command it is makes no difference before the snapshot is built.   *)
Begin ==
  /\ pc = "ask"
  /\ \/ Open("evidence") /\ UNCHANGED answer
     \/ pc' = "done" /\ answer' = Error("denied") /\ UNCHANGED rest
  /\ UNCHANGED <<input, store, book, bad, seen, queue, checked, changes, environments>>

(***************************************************************************)
(* Reading                                                                 *)
(***************************************************************************)
Read(s) == pc = s /\ rest # << >> /\ rest' = Tail(rest) /\ UNCHANGED pc
Exhausted(s) == pc = s /\ rest = << >> /\ Open(After(s))

(* Two records of a source under one identifier are both unusable.         *)
Doubled(list, x, key) == Cardinality({i \in DOMAIN list : list[i][key] = x[key]}) > 1

Spoil == bad' = TRUE /\ UNCHANGED <<store, seen, queue>>
Pass == UNCHANGED <<store, bad, seen, queue>>
Keep(id, content, items) ==
  /\ store' = Generate(store, id, content) /\ seen' = seen \cup {id} /\ queue' = queue \o items
  /\ UNCHANGED bad

Mark(key, s) == book' = Merge(book, key, [s EXCEPT !.evidence = Usable(store, @)])

(* The status of a source by what was read of it, when it was empty by     *)
(* what was known of it before.                                            *)
Known(key) == IF key \in DOMAIN book THEN book[key].state ELSE "unavailable"
Verdict(key, empty, otherwise) ==
  IF bad THEN Status("unverified", "unknown", seen)
  ELSE IF empty
  THEN Status(Known(key), IF Known(key) = "fresh" THEN "no data" ELSE "not configured", seen)
  ELSE Status(otherwise[1], otherwise[2], seen)
Close(key, empty, otherwise) ==
  Mark(key, Verdict(key, empty, otherwise)) /\ bad' = FALSE /\ seen' = {}

SiftEvidence ==
  /\ Read("evidence") /\ store' = Sift(store, Head(rest))
  /\ UNCHANGED <<frame, book, bad, seen, queue, checked, changes, environments>>

LoadStatus ==
  /\ Read("statuses") /\ book' = Load(book, store, Head(rest))
  /\ UNCHANGED <<frame, store, bad, seen, queue, checked, changes, environments>>

Loaded ==
  /\ Exhausted("evidence") \/ Exhausted("statuses") \/ Exhausted("metrics")
  /\ UNCHANGED <<frame, store, book, bad, seen, queue, checked, changes, environments>>

Levels == <<"critical", "high", "medium", "low", "none">>
Item(kind, id, severity, level, summary, evidence) ==
  [kind |-> kind, id |-> <<kind, id>>, severity |-> severity, level |-> level, summary |-> summary,
   evidence |-> evidence]

(* An alert that is neither active nor resolved is unusable.  An alert's   *)
(* item is named by its fingerprint without the prefix "alert-".           *)
AlertId(a) == <<"alert", a.fingerprint>>
UsableAlert(a) ==
  /\ a.state = "active" /\ a.fingerprint # "" /\ a.readable
  /\ ~Doubled(input.alerts, a, "fingerprint")
  /\ AlertId(a) \notin store.rejected
ProjectAlert ==
  /\ Read("alerts")
  /\ LET a == Head(rest)
     IN \/ a.state = "resolved" /\ Pass
        \/ a.state # "resolved" /\ ~UsableAlert(a) /\ Spoil
        \/ /\ UsableAlert(a)
           /\ Keep(AlertId(a), <<"alert", a.connector, a.at, a.summary>>,
                   <<Item("alert", a.stem, a.severity, a.level, a.summary, AlertId(a))>>)
  /\ UNCHANGED <<frame, book, checked, changes, environments>>

CloseAlerts ==
  /\ Exhausted("alerts")
  /\ Close(<<"alertmanager">>, input.alerts = << >>, <<"fresh", "none">>)
  /\ UNCHANGED <<frame, store, queue, checked, changes, environments>>

(* Metrics of another scope are not looked at.                             *)
Metrics == Restrict(input.metrics, {i \in DOMAIN input.metrics : input.metrics[i].inside})
MetricId(m) == <<"metric", m.key>>
ReadMetric ==
  /\ Read("metrics")
  /\ LET m == Head(rest)
         usable == m.key # "" /\ ~Doubled(Metrics, m, "key") /\ MetricId(m) \notin store.rejected
     IN \/ ~m.inside /\ Pass
        \/ m.inside /\ ~usable /\ Spoil
        \/ /\ m.inside /\ usable
           /\ Keep(MetricId(m), <<"metric", m.key>>, << >>)
  /\ UNCHANGED <<frame, book, checked, changes, environments>>

(* The evidence of a signal does not name the rule, its content does.      *)
Matching(r) == {i \in DOMAIN Metrics : Metrics[i].key = r.key}
SignalId(r, at) == <<"signal", <<r.key, r.by>>, r.bound, at>>
Judged(r) ==
  IF Doubled(input.rules, r, "id") \/ Cardinality(Matching(r)) # 1
  THEN [verdict |-> "error", at |-> 0]
  ELSE Evaluate(r, Metrics[CHOOSE i \in Matching(r) : TRUE], Now)
ApplyRule ==
  /\ Read("rules")
  /\ LET r == Head(rest)
         e == Judged(r)
         id == SignalId(r, e.at)
         lost == e.verdict = "error" \/ (e.verdict = "signal" /\ id \in store.rejected)
     IN \/ ~r.enabled /\ Pass
        \/ r.enabled /\ lost /\ Spoil
        \/ r.enabled /\ e.verdict \in {"quiet", "no data"} /\ Pass
        \/ /\ r.enabled /\ e.verdict = "signal" /\ ~lost
           /\ Keep(id, <<"signal", r.key, e.at, r.name>>,
                   <<Item("anomaly", r.id, r.severity, Levels[r.severity], r.name, id)>>)
  /\ UNCHANGED <<frame, book, checked, changes, environments>>

CloseRules ==
  /\ Exhausted("rules")
  /\ IF input.metrics = << >> /\ input.rules # << >> /\ ~bad
     THEN Mark(<<"prometheus">>, Status("unavailable", "no data", seen)) /\ bad' = FALSE /\ seen' = {}
     ELSE Close(<<"prometheus">>, input.rules = << >>, <<"fresh", "none">>)
  /\ UNCHANGED <<frame, store, queue, checked, changes, environments>>

(* A due check counts when it has evidence; a troubled one without cannot  *)
(* be shown.                                                               *)
Troubles == {"degraded", "unavailable", "timed out"}
RunCheck ==
  /\ Read("checks")
  /\ LET s == Head(rest)
         r == CheckResult(s, input.results, Now)
         id == r.evidence
         usable == id # NoId /\ id \notin store.rejected
         mine == IF usable THEN <<id>> ELSE << >>
         severity == IF r.outcome = "degraded" THEN 3 ELSE 2
     IN IF Doubled(input.checks, s, "id") \/ ~s.inside \/ r.outcome = "failed"
        THEN Spoil /\ UNCHANGED checked
        ELSE IF r.outcome = "skipped" THEN Pass /\ UNCHANGED checked
        ELSE /\ store' = IF usable THEN Generate(store, id, <<"check", s.id, r.outcome>>) ELSE store
             /\ bad' = (bad \/ (~usable /\ (id # NoId \/ r.outcome \in Troubles)))
             /\ seen' = seen \cup {i \in {id} : usable}
             /\ due' = due \o mine
             /\ timedOut' = IF r.outcome = "timed out" THEN timedOut \o mine ELSE timedOut
             /\ troubles' = troubles \cup ({r.outcome} \cap Troubles)
             /\ queue' = IF usable /\ r.outcome \in Troubles
                         THEN Append(queue, Item("check", s.id, severity, Levels[severity],
                                                 s.id \o r.outcome, id))
                         ELSE queue
  /\ UNCHANGED <<frame, book, changes, environments>>

CloseChecks ==
  /\ Exhausted("checks")
  /\ Close(<<"health_checks">>, input.checks = << >>,
           IF "unavailable" \in troubles THEN <<"unavailable", "unreachable">>
           ELSE IF "timed out" \in troubles THEN <<"stale", "timed out">>
           ELSE IF "degraded" \in troubles THEN <<"stale", "unknown">>
           ELSE <<"fresh", "none">>)
  /\ UNCHANGED <<frame, store, queue, checked, changes, environments>>

(* A change comes with evidence of its own, or some is made for it.        *)
ChangeId(c) == <<"change", c.id>>
ReadableChange(c) == c.readable /\ c.inside /\ ~Doubled(input.changes, c, "id")
ProjectChange ==
  /\ Read("changes")
  /\ LET c == Head(rest)
         own == Usable(store, c.evidence)
         ids == IF own = {} THEN {ChangeId(c)} ELSE own
     IN IF ~ReadableChange(c) \/ (own = {} /\ ChangeId(c) \in store.rejected)
        THEN bad' = TRUE /\ UNCHANGED <<store, seen, changes>>
        ELSE /\ store' = IF own = {} THEN Generate(store, ChangeId(c), <<"change", c.id>>) ELSE store
             /\ seen' = seen \cup ids
             /\ changes' = Append(changes, [id |-> c.id, evidence |-> ids])
             /\ UNCHANGED bad
  /\ UNCHANGED <<frame, book, queue, checked, environments>>

CloseChanges ==
  /\ Exhausted("changes")
  /\ Close(<<"changes">>, input.changes = << >>, <<"fresh", "none">>)
  /\ UNCHANGED <<frame, store, queue, checked, changes, environments>>

EnvironmentId(e) == <<"environment", e.id>>
HealthStatus ==
  [healthy |-> <<"fresh", "none">>, degraded |-> <<"stale", "unknown">>,
   critical |-> <<"unavailable", "unknown">>, unknown |-> <<"unavailable", "unreachable">>]
ProjectEnvironment ==
  /\ Read("environments")
  /\ LET e == Head(rest)
         own == Usable(store, e.evidence)
         ids == IF own # {} THEN own ELSE {EnvironmentId(e)} \ store.rejected
         s == HealthStatus[e.health]
         Drop(key, status) == Mark(key, status) /\ UNCHANGED <<store, environments>>
     IN IF e.id = "" \/ Doubled(input.environments, e, "id") \/ (e.inside /\ ~e.readable)
        THEN Drop(<<"environment_status">>, Status("unverified", "unknown", {}))
        ELSE IF ~e.inside THEN Drop(<<"environment", e.id>>, Status("unavailable", "unreachable", {}))
        ELSE IF ids = {} THEN Drop(<<"environment", e.id>>, Status("unverified", "unknown", {}))
        ELSE /\ store' = IF own # {} THEN store
                         ELSE Generate(store, EnvironmentId(e), <<"environment", e.provider, e.at, e.detail>>)
             /\ book' = Merge(book, <<e.provider, e.id>>, Status(s[1], s[2], ids))
             /\ environments' = Append(environments, [id |-> e.id, health |-> e.health, evidence |-> ids])
  /\ UNCHANGED <<frame, bad, seen, queue, checked, changes>>

CloseEnvironments ==
  /\ Exhausted("environments")
  /\ UNCHANGED <<frame, store, book, bad, seen, queue, checked, changes, environments>>

(***************************************************************************)
(* Summary                                                                 *)
(***************************************************************************)
Count(list, T(_)) == Cardinality({i \in DOMAIN list : T(list[i])})
EvidenceOf(list, T(_)) == {list[i].evidence : i \in {j \in DOMAIN list : T(list[j])}}
Impacted(item) == item.level # "none"
Unwell(e) == e.health # "healthy"

(* The state of the changes never raises an alarm or doubt of its own, nor *)
(* does that of any source whose name starts the same.                     *)
OfChanges(key) == key[1] \in ChangeSources
Posture ==
  LET judged == {book[k] : k \in {k \in DOMAIN book : ~OfChanges(k)}}
  IN IF \/ \E i \in DOMAIN queue : queue[i].severity = 1 \/ queue[i].level = "critical"
        \/ \E s \in judged : s.state = "unavailable" /\ s.evidence # {}
     THEN "critical"
     ELSE IF \E s \in judged : s.state = "unverified" \/ s.evidence = {}
     THEN "unknown"
     ELSE IF \/ Count(queue, Impacted) > 0 \/ Count(environments, Unwell) > 0
             \/ \E k \in DOMAIN book : book[k].state = "stale"
     THEN "degraded" ELSE "healthy"

(* What the numbers rest on; a number no record backs has a summary.       *)
Numbers ==
  LET of(kind) == EvidenceOf(queue, LAMBDA item : item.kind = kind)
      unwell == UNION EvidenceOf(environments, Unwell)
  IN [active_alerts |-> of("alert"), active_anomalies |-> of("anomaly"),
      checks_due |-> Range(due), checks_timed_out |-> Range(timedOut),
      attention |-> EvidenceOf(queue, LAMBDA item : TRUE),
      impacted_services |-> EvidenceOf(queue, Impacted) \cup unwell,
      headline |-> EvidenceOf(queue, LAMBDA item : TRUE)]
Summed == Fallback(store, {key \in DOMAIN Numbers : Usable(store, Numbers[key]) = {}})

StreamStatus ==
  LET s == book[<<"changes">>]
  IN IF changes # << >> THEN <<"available", "none">>
     ELSE IF s.state # "fresh" /\ s.reason # "not configured" THEN <<"unavailable", s.reason>>
     ELSE <<"empty", IF s.reason \in {"unknown", "none"} THEN "no data" ELSE s.reason>>

Weight == [critical |-> 0, high |-> 1, medium |-> 2, low |-> 3, unknown |-> 4, none |-> 5]
Headline ==
  IF queue = << >> THEN "none"
  ELSE (CHOOSE x \in Range(queue) : \A y \in Range(queue) : Weight[x.level] <= Weight[y.level]).level

Snapshot ==
  [kind |-> "snapshot", state |-> Posture, headline |-> Headline,
   attention |-> Len(queue),
   impacted |-> Cardinality({item.summary : item \in {x \in Range(queue) : Impacted(x)}})
                  + Count(environments, Unwell),
   by_severity |-> [s \in 1..5 |-> Count(queue, LAMBDA item : item.severity = s)],
   by_health |-> [h \in DOMAIN HealthStatus |-> Count(environments, LAMBDA e : e.health = h)],
   active_alerts |-> Count(queue, LAMBDA item : item.kind = "alert"),
   active_anomalies |-> Count(queue, LAMBDA item : item.kind = "anomaly"),
   checks_due |-> Len(due), checks_timed_out |-> Len(timedOut),
   numbers |-> [key \in DOMAIN Numbers |-> Evidence(store, key, Numbers[key])],
   queue |-> Range(queue), changes |-> Range(changes), environments |-> Range(environments),
   stream |-> StreamStatus, statuses |-> [k \in DOMAIN book |-> Final(book[k])],
   evidence |-> Summed.accepted]

(* OperationsSnapshot::validate: no two pieces of evidence say the same,   *)
(* none has a blank identifier, and every item of the queue has its own.   *)
Blank == <<"">>
Valid(evidence) ==
  /\ \A i, j \in DOMAIN evidence : i # j => evidence[i] # evidence[j]
  /\ Blank \notin DOMAIN evidence
  /\ \A i, j \in DOMAIN queue : i # j => queue[i].id # queue[j].id

(* Evidence is given all or none; the first identifier that cannot be      *)
(* given says why.                                                         *)
Objection(ids, i, evidence) ==
  IF ids[i] = Blank \/ \E j \in 1..(i - 1) : ids[j] = ids[i] THEN "invalid"
  ELSE IF ids[i] \notin DOMAIN evidence THEN "not found" ELSE "none"
Resolved(ids, evidence) ==
  LET objections == {i \in DOMAIN ids : Objection(ids, i, evidence) # "none"}
  IN IF ids = << >> THEN Error("invalid")
     ELSE IF objections # {} THEN Error(Objection(ids, Min(objections), evidence))
     ELSE [kind |-> "evidence", evidence |-> [i \in Range(ids) |-> evidence[i]]]

Summarize ==
  /\ pc = "summary" /\ pc' = "done"
  /\ LET s == Snapshot
     IN \/ Valid(s.evidence) /\ answer' = s
        \/ Valid(s.evidence) /\ \E ids \in Asked : answer' = Resolved(ids, s.evidence)
        \/ ~Valid(s.evidence) /\ answer' = Error("snapshot")
  /\ UNCHANGED <<input, rest, store, book, bad, seen, queue, checked, changes, environments>>

Next ==
  \/ Begin \/ SiftEvidence \/ LoadStatus \/ Loaded
  \/ ProjectAlert \/ CloseAlerts
  \/ ReadMetric \/ ApplyRule \/ CloseRules
  \/ RunCheck \/ CloseChecks
  \/ ProjectChange \/ CloseChanges
  \/ ProjectEnvironment \/ CloseEnvironments
  \/ Summarize
  \/ pc = "done" /\ UNCHANGED vars

Spec == Init /\ [][Next]_vars

-----------------------------------------------------------------------------
(***************************************************************************)
(* Properties                                                              *)
(***************************************************************************)
Answered == answer.kind = "snapshot"

(* Supplied once unverified, or more than once.                            *)
Tainted(id) ==
  LET mine == {i \in DOMAIN input.evidence : input.evidence[i].inside /\ input.evidence[i].id = id}
  IN Cardinality(mine) > 1 \/ \E i \in mine : ~input.evidence[i].verified
Alone(list, x, key) == \A i, j \in DOMAIN list : list[i][key] = x[key] /\ list[j][key] = x[key] => i = j

FineAlert(a) ==
  /\ a.state = "active" /\ a.readable /\ a.fingerprint # ""
  /\ Alone(input.alerts, a, "fingerprint") /\ ~Tainted(AlertId(a))
FineMetric(m) == m.key # "" /\ Alone(Metrics, m, "key") /\ ~Tainted(MetricId(m))
FineCheck(s) ==
  /\ s.valid /\ s.inside /\ Alone(input.checks, s, "id")
  /\ LET r == CheckResult(s, input.results, Now)
     IN r.outcome # "failed" /\ ~Tainted(r.evidence) /\ (r.outcome \in Troubles => r.evidence # NoId)
FineRule(r) ==
  /\ Alone(input.rules, r, "id") /\ Cardinality(Matching(r)) = 1
  /\ LET e == Evaluate(r, Metrics[CHOOSE i \in Matching(r) : TRUE], Now)
     IN e.verdict # "error" /\ (e.verdict = "signal" => ~Tainted(SignalId(r, e.at)))
(* Of the evidence a record names, what was supplied once, and verified.   *)
Sound(ids) ==
  {id \in ids : /\ \E i \in DOMAIN input.evidence : input.evidence[i].inside /\ input.evidence[i].id = id
                /\ ~Tainted(id)}
FineChange(c) ==
  /\ c.readable /\ c.inside /\ Alone(input.changes, c, "id")
  /\ Sound(c.evidence) # {} \/ ~Tainted(ChangeId(c))
FineEnvironment(e) == e.id # "" /\ e.readable /\ e.inside /\ Alone(input.environments, e, "id")
Backed(e, evidence) == evidence # {} \/ ~Tainted(EnvironmentId(e))

(* The evidence each record that is in order is shown by, with what it     *)
(* says: what was supplied, or else what is made for the record; and the   *)
(* summaries.                                                              *)
Made(id, content) == IF Tainted(id) \/ Sound({id}) # {} THEN {} ELSE {<<id, content>>}
Brings(s, r) ==
  CASE s = "evidence" /\ r.inside /\ ~Tainted(r.id) -> {<<r.id, r.content>>}
    [] s = "alerts" /\ FineAlert(r) -> Made(AlertId(r), <<"alert", r.connector, r.at, r.summary>>)
    [] s = "metrics" /\ r.inside /\ FineMetric(r) -> Made(MetricId(r), <<"metric", r.key>>)
    [] s = "rules" /\ r.enabled /\ FineRule(r) /\ Judged(r).verdict = "signal" ->
         Made(SignalId(r, Judged(r).at), <<"signal", r.key, Judged(r).at, r.name>>)
    [] s = "checks" /\ FineCheck(r) ->
         LET c == CheckResult(r, input.results, Now)
         IN IF c.evidence = NoId THEN {} ELSE Made(c.evidence, <<"check", r.id, c.outcome>>)
    [] s = "changes" /\ FineChange(r) -> Made(ChangeId(r), <<"change", r.id>>)
    [] s = "environments" /\ FineEnvironment(r) ->
         Made(EnvironmentId(r), <<"environment", r.provider, r.at, r.detail>>)
    [] OTHER -> {}
Summaries ==
  UNION {Made(<<IF Tainted(<<"summary", key>>) THEN "generated" ELSE "summary", key>>, <<"summary", key>>) :
           key \in DOMAIN Numbers}
Pieces == (UNION {UNION {Brings(s, r) : r \in Range(input[s])} : s \in Range(Sources)}) \cup Summaries

(* What fails the snapshot as a whole: two pieces of evidence that differ  *)
(* in their identifier only, one with a blank identifier, or two active    *)
(* alerts whose items have one name.                                       *)
SayTheSame == \E p, q \in Pieces : p[1] # q[1] /\ p[2] = q[2]
Nameless == \E p \in Pieces : p[1] = Blank
Namesakes ==
  \E a, b \in Range(input.alerts) :
    FineAlert(a) /\ FineAlert(b) /\ a.stem = b.stem /\ a.fingerprint # b.fingerprint

(* Healthy records keep rendering beside malformed ones: each fine alert,  *)
(* change and environment is shown, and so is each check that is due and   *)
(* in trouble or past its timeout.  The doc of AggregationError promises   *)
(* this without exception; the code does fail a snapshot as a whole, and   *)
(* then shows nothing, but only in one of the three cases above.           *)
InTrouble(s) ==
  /\ s.enabled
  /\ s.last = Never \/ s.last + s.interval <= Now
  /\ s.cooldown = 0 \/ s.signal = Never \/ s.signal + s.cooldown <= Now
  /\ \E f \in Lookup(s, input.results) : f.duration > s.timeout \/ f.outcome \in Troubles
HealthyRecordsRender ==
  /\ answer = Error("snapshot") => SayTheSame \/ Nameless \/ Namesakes
  /\ Answered =>
       /\ \A a \in Range(input.alerts) : FineAlert(a) =>
            \E x \in answer.queue : x.evidence = AlertId(a) /\ x.severity = a.severity
       /\ \A s \in Range(input.checks) : FineCheck(s) /\ InTrouble(s) =>
            \E x \in answer.queue : x.id = <<"check", s.id>>
       /\ \A c \in Range(input.changes) : FineChange(c) => \E x \in answer.changes : x.id = c.id
       /\ \A e \in Range(input.environments) : FineEnvironment(e) /\ Backed(e, Sound(e.evidence)) =>
            \E x \in answer.environments : x.id = e.id /\ x.health = e.health

(* An unusable record, a status nobody can verify or a source without      *)
(* evidence is never counted as health: the console then says that it does *)
(* not know, unless something else is critical; and it is healthy only     *)
(* when nothing that was read calls for attention (overall_state).         *)
NoFalseHealthy ==
  Answered /\ answer.state \in {"healthy", "degraded"} =>
    /\ \A a \in Range(input.alerts) : a.state = "resolved" \/ FineAlert(a)
    /\ \A m \in Range(Metrics) : FineMetric(m)
    /\ \A r \in Range(input.rules) : ~r.enabled \/ FineRule(r)
    /\ \A s \in Range(input.checks) : FineCheck(s)
    /\ \A e \in Range(input.environments) : FineEnvironment(e) /\ Backed(e, Usable(Summed, e.evidence))
    /\ \A s \in Range(input.statuses) :
         OfChanges(s.key) \/ (s.state # "unverified" /\ (s.evidence = {} \/ Usable(Summed, s.evidence) # {}))
    /\ \A k \in DOMAIN answer.statuses : OfChanges(k) \/ answer.statuses[k].evidence # {}
    /\ answer.state = "healthy" =>
         /\ \A x \in answer.queue : x.level = "none" /\ x.severity # 1
         /\ \A e \in answer.environments : e.health = "healthy"
         /\ \A k \in DOMAIN answer.statuses : OfChanges(k) \/ answer.statuses[k].state = "fresh"
=============================================================================
