---------------------------- MODULE ConsoleSignals ----------------------------
(***************************************************************************)
(* What the console is told by what it watches: when a scheduled health    *)
(* check is due and what it then reports (operations/health_check.rs), and *)
(* what an anomaly rule says of a metric (operations/anomaly.rs).          *)
(***************************************************************************)
EXTENDS Integers, FiniteSets, Sequences, FiniteSetsExt

-----------------------------------------------------------------------------
(* Health checks.  A schedule has its identifier, the keys of its source   *)
(* in the order they are looked up by, its interval, cooldown and timeout, *)
(* and the instants of its last run and its last signal.  A recorded       *)
(* result says how long the probe took, how it ended and which evidence it *)
(* left.                                                                   *)

Never == 0      \* an instant that has not been
NoId == << >>   \* no evidence identifier

Elapsed(since, period, now) == since = Never \/ now >= since + period

\* Mutant: a check is due again only after its interval has passed.
DueLater(s, now) ==
  IF ~s.enabled THEN "disabled"
  ELSE IF s.last # Never /\ now <= s.last + s.interval THEN "not due"
  ELSE IF s.cooldown > 0 /\ ~Elapsed(s.signal, s.cooldown, now) THEN "cooldown"
  ELSE "due"

DueState(s, now) ==
  IF ~s.enabled THEN "disabled"
  ELSE IF ~Elapsed(s.last, s.interval, now) THEN "not due"
  ELSE IF s.cooldown > 0 /\ ~Elapsed(s.signal, s.cooldown, now) THEN "cooldown"
  ELSE "due"

(* A recorded result is found by a key of the source before the schedule's *)
(* own identifier.                                                         *)
Lookup(s, results) ==
  LET keys == s.keys \o <<s.id>>
      found == {i \in DOMAIN keys : keys[i] \in DOMAIN results}
  IN IF found = {} THEN {} ELSE {results[keys[Min(found)]]}

Failed == [outcome |-> "failed", evidence |-> NoId]
Skipped == [outcome |-> "skipped", evidence |-> NoId]

(* A probe that took longer than its timeout timed out, however it ended.  *)
Outcome(s, f) == IF f.duration > s.timeout THEN "timed out" ELSE f.outcome

CheckResult(s, results, now) ==
  IF ~s.valid THEN Failed
  ELSE IF DueState(s, now) # "due" THEN Skipped
  ELSE IF Lookup(s, results) = {} THEN Failed
  ELSE LET f == CHOOSE f \in Lookup(s, results) : TRUE
       IN [outcome |-> Outcome(s, f), evidence |-> f.evidence]

-----------------------------------------------------------------------------
(* Anomaly rules.  A rule compares the latest sample with a bound, or the  *)
(* rate over a window that ends with it; rates are compared without        *)
(* dividing.                                                               *)

Comparisons == {"above", "at least", "below", "at most"}
Directions == {"increase", "decrease", "absolute"}

(* A rate needs a window, and a bound of the sign of its direction.        *)
ValidRule(r) ==
  /\ r.named
  /\ r.by \in Directions =>
       /\ r.window > 0
       /\ r.by = "increase" => r.bound > 0
       /\ r.by = "decrease" => r.bound < 0
       /\ r.by = "absolute" => r.bound >= 0

(* Samples of the future are not looked at.                                *)
Eligible(metric, now) == {i \in DOMAIN metric.samples : metric.samples[i].at <= now}

Exceeds(by, value, bound) ==
  CASE by = "above"    -> value > bound
    [] by = "at least" -> value >= bound
    [] by = "below"    -> value < bound
    [] by = "at most"  -> value <= bound
    [] by = "increase" -> value >= bound
    [] by = "decrease" -> value <= bound
    [] by = "absolute" -> value >= bound \/ -value >= bound

Evaluate(rule, metric, now) ==
  LET samples == metric.samples
      eligible == Eligible(metric, now)
      latest == samples[CHOOSE i \in eligible : \A j \in eligible : samples[j].at <= samples[i].at]
      window == {i \in eligible : samples[i].at >= latest.at - rule.window}
      first == samples[CHOOSE i \in window : \A j \in window : samples[i].at <= samples[j].at]
      verdict(v) == [verdict |-> v, at |-> IF eligible = {} THEN 0 ELSE latest.at]
  IN IF \/ ~ValidRule(rule) \/ ~rule.covers
        \/ \E i \in eligible : ~samples[i].finite
        \/ \E i, j \in eligible : i # j /\ samples[i].at = samples[j].at
     THEN [verdict |-> "error", at |-> 0]
     ELSE IF eligible = {} \/ (rule.by \in Directions /\ Cardinality(window) < 2)
     THEN verdict("no data")
     ELSE IF rule.by \in Comparisons
     THEN verdict(IF Exceeds(rule.by, latest.value, rule.bound) THEN "signal" ELSE "quiet")
     ELSE verdict(IF Exceeds(rule.by, latest.value - first.value, rule.bound * (latest.at - first.at))
                  THEN "signal" ELSE "quiet")
=============================================================================
