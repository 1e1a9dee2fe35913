-------------------------- MODULE ChangeAssociation --------------------------
(***************************************************************************)
(* The timeline of a window, and the changes that precede a correlation    *)
(* candidate (change/timeline.rs, association.rs, metrics.rs).             *)
(*                                                                         *)
(* A candidate names its signals and the targets it was grouped by; a      *)
(* signal has targets and, perhaps, an instant it was observed at.         *)
(***************************************************************************)
EXTENDS Naturals, FiniteSets, FiniteSetsExt, Sequences

CONSTANTS
  Candidates,   \* of the correlation snapshot of the default request
  NoInstant,    \* a signal that was observed at no stated instant
  Paths         \* what the topology resolver finds between two targets

(* A path joins two targets; it has an identifier, a content and evidence. *)
Between(a, b) == {p \in Paths : a # b /\ p.from = a /\ p.to = b}

InWindow(e, w) == w.start <= e.at /\ e.at < w.end

Precedes(e, f) == e.at < f.at \/ (e.at = f.at /\ e.id < f.id)

(* Of more entries than the limit the newest are kept.                     *)
Newest(events, limit) ==
  {e \in events : Cardinality({f \in events : Precedes(e, f)}) < limit}

Timeline(events, r) ==
  LET selected == {e \in events : InWindow(e, r)}
  IN [entries |-> {e.id : e \in Newest(selected, r.limit)},
      truncated |-> Cardinality(selected) > r.limit]

Observed(c) == {s.at : s \in c.signals} \ {NoInstant}

\* Mutant: the latest signal is taken for the earliest.
LatestObserved(c) == Max(Observed(c))

EarliestObserved(c) == Min(Observed(c))

(* The topology is asked only about targets that are not the same; a path  *)
(* identifier that stands for two contents is dropped.                     *)
Relations(e, c) ==
  UNION {Between(a, b) : a \in e.targets,
                         b \in c.targets \cup UNION {s.targets : s \in c.signals}}
Unambiguous(found) == {p \in found : \A q \in found : q.id = p.id => q.content = p.content}

Association(e, c, target, paths) ==
  [change |-> e.id, candidate |-> c.id, lead |-> EarliestObserved(c) - e.at, target |-> target,
   paths |-> {p.id : p \in paths}, evidence |-> e.evidence \cup UNION {p.evidence : p \in paths}]

Explain(e, c) ==
  LET exact == e.targets \cap c.targets
      paths == IF exact = {} THEN Unambiguous(Relations(e, c)) ELSE {}
  IN IF exact = {} /\ paths = {} THEN {}
     ELSE {Association(e, c, IF exact = {} THEN "none" ELSE CHOOSE t \in exact : TRUE, paths)}

(* What one candidate contributes.  Its scope contains every event's.      *)
Associate(events, c, lookback) ==
  IF Observed(c) = {} THEN {}
  ELSE UNION {Explain(e, c) :
                e \in {f \in events : /\ f.at < EarliestObserved(c)
                                      /\ EarliestObserved(c) - f.at <= lookback}}

(* The counts; one that no event contributes to is left out.               *)
Metric(key, events) ==
  IF UNION {e.evidence : e \in events} = {} THEN {}
  ELSE {[key |-> key, value |-> Cardinality(events), evidence |-> UNION {e.evidence : e \in events}]}
Metrics(events, associations) ==
  Metric("changes_in_window", events)
    \cup Metric("associated_changes", {e \in events : \E a \in associations : a.change = e.id})
    \cup UNION {Metric(s, {e \in events : e.source = s}) : s \in {e.source : e \in events}}
=============================================================================
