---------------------------- MODULE Correlation ----------------------------
(***************************************************************************)
(* Signal correlation over time (app/correlation.rs, correlation/mod.rs,   *)
(* aggregate.rs): adapters turn recorded fixtures into signals or report   *)
(* their source; a range of event time is evaluated again and again, each  *)
(* time given the window of the evaluation before or none, and each builds *)
(* one whole snapshot or none: suppression, logical identity, membership,  *)
(* grouping, candidates, and a closure check over all the snapshot names.  *)
(***************************************************************************)
EXTENDS SignalGrouping, SignalAdapters

CONSTANTS
  Earlier,        \* what may have been taken in before anything is evaluated
  Arrivals,       \* what the adapters may take in meanwhile
  Rules, Windows, \* the suppression policy: rules and maintenance windows
  Start, End, Lateness,
  KeyRank(_),     \* the order of the opaque keys and identifiers
  PathEvidence,   \* the evidence of topology paths that the caller passes along
  LastTick        \* bound: when the clock stops

\* Finitely many fixtures are recorded, each of a number that orders it, and
\* each names targets that the order of targets lists.
ASSUME FixturesAssumption ==
  /\ IsFiniteSet(Earlier) /\ TargetOrder \in Seq(ToSet(TargetOrder))
  /\ \A f \in Earlier \cup Arrivals : f.id \in Nat /\ f.targets \subseteq ToSet(TargetOrder)

ASSUME TimesAssumption == {Start, End, Lateness, LastTick} \subseteq Nat /\ Start < End

VARIABLES
  clock,
  handed,     \* the fixtures recorded so far
  ledger, signals, rejected,  \* what the adapters made of them: rows, signals, sources
  prior,      \* the window the caller keeps from its last evaluation
  snapshot,   \* what the last evaluation answered
  before,     \* history: what the evaluation before it answered
  given,      \* history: the fixtures that had been handed in by then
  everLate    \* history: the signals some evaluation of the chain called late
intake == <<handed, ledger, signals, rejected>>
vars == <<clock, intake, prior, snapshot, before, given, everLate>>

Nothing == [kind |-> "nothing"]
Refused == [kind |-> "refused"]    \* the input contradicts itself or its window does not fit
Broken == [kind |-> "broken"]      \* the snapshot failed its own closure

Request == [start |-> Start, end |-> End, lateness |-> Lateness, at |-> clock]

-----------------------------------------------------------------------------
(* Event-time windows (correlation/window.rs): which retained signals one  *)
(* evaluation of the half-open range may group, the state the range is in  *)
(* at its explicit evaluation time, and what the evaluation before it      *)
(* makes of signals that arrive after the range was finalized.             *)

NoWindow == [state |-> "none"]

Finalization(req) == req.end + req.lateness

(* A request names a window that is not empty and is not evaluated before  *)
(* it starts; a prior evaluation must be of the same range and not later.  *)
Acceptable(req, last) ==
  /\ req.start < req.end /\ req.at >= req.start
  /\ last # NoWindow =>
       /\ last.start = req.start /\ last.end = req.end /\ last.lateness = req.lateness
       /\ req.at >= last.at

(* Membership is by the time of the event alone.                           *)
InRange(signal, req) ==
  signal.observed # NoTime /\ signal.observed >= req.start /\ signal.observed < req.end

EligibleIn(retained, req) == {s \in retained : InRange(s, req)}

\* Mutant: late is what came in since the evaluation before.
LateSincePrior(retained, req, last) ==
  IF last = NoWindow \/ req.at <= last.at \/ last.state \notin {"finalized", "reopened"}
  THEN {}
  ELSE {s \in EligibleIn(retained, req) : s.ingested # NoTime /\ s.ingested > last.at}

(* A signal is late when a finalized evaluation lies before this one and   *)
(* it was taken in after the finalization.                                 *)
LateIn(retained, req, last) ==
  IF last = NoWindow \/ req.at <= last.at \/ last.state \notin {"finalized", "reopened"}
  THEN {}
  ELSE {s \in EligibleIn(retained, req) : s.ingested # NoTime /\ s.ingested > Finalization(req)}

BuiltState(req, late) ==
  IF late # {} /\ req.at >= Finalization(req) THEN "reopened"
  ELSE IF req.at < req.end THEN "open"
  ELSE IF req.at < Finalization(req) THEN "ready_to_finalize"
  ELSE "finalized"

\* Mutant: an evaluation without late signals forgets the reopening.
StateForgotten(req, late, last) == BuiltState(req, late)

(* A reopened range stays reopened.                                        *)
StateOf(req, late, last) ==
  IF late = {} /\ last.state = "reopened" /\ BuiltState(req, late) = "finalized"
  THEN "reopened" ELSE BuiltState(req, late)

WindowOf(req, late, last) ==
  [start |-> req.start, end |-> req.end, lateness |-> req.lateness, at |-> req.at,
   state |-> StateOf(req, late, last)]

-----------------------------------------------------------------------------
(* Candidates. *)

Lowest(ranks) == CHOOSE r \in ranks : \A q \in ranks : r <= q

(* The smallest opaque key, or the first signal when none has an identity. *)
Anchor(members) ==
  LET named == {s \in members : Identity(s) # Unidentified}
  IN IF named # {} THEN Lowest({KeyRank(Identity(s)) : s \in named})
     ELSE Lowest({s.id : s \in members})

TargetsOf(component) == {r.target : r \in component.reasons} \ {NoPath}
PathsOf(component) == {r.path : r \in component.reasons} \ {""}

CandidateId(component, members) ==
  [targets |-> TargetsOf(component), paths |-> PathsOf(component), anchor |-> Anchor(members)]

StatusOf(members, late, window) ==
  IF \A s \in members : Suppressed(s, Rules, Windows) THEN "suppressed"
  ELSE IF late # {} \/ window.state = "reopened" THEN "provisional" ELSE "active"

Candidate(component, window, late) ==
  LET members == {s \in signals : s.id \in component.ids}
      mine == late \cap component.ids
  IN [id |-> CandidateId(component, members), ids |-> component.ids,
      status |-> StatusOf(members, mine, window), late |-> mine,
      explained |-> UNION {r.ids : r \in component.reasons}]

(* The closure check: every member is explained, identifiers are unique,   *)
(* and the evidence of every path is among the snapshot's.                 *)
Closed(candidates, paths) ==
  /\ \A c \in candidates : c.explained = c.ids
  /\ \A c, d \in candidates : c.id = d.id => c = d
  /\ \A p \in paths : p.evidence \in PathEvidence

(* Sources are reported when a fixture of theirs was rejected, and the     *)
(* topology when an answer was missing or contradicted.                    *)
Reported(grouping) ==
  rejected \cup (IF grouping.status = "fresh" THEN {} ELSE {"topology"})

Evaluated(previous) ==
  LET late == {s.id : s \in LateIn(signals, Request, previous)}
      window == WindowOf(Request, late, previous)
      grouping == Grouping(EligibleIn(signals, Request))
      candidates == {Candidate(c, window, late) : c \in grouping.components}
  IN IF ~Acceptable(Request, previous) \/ ~Deduplicable(signals) THEN Refused
     ELSE IF ~Closed(candidates, grouping.paths) THEN Broken
     ELSE [kind |-> "snapshot", window |-> window, candidates |-> candidates, late |-> late,
           eligible |-> {s.id : s \in EligibleIn(signals, Request)},
           uncorrelated |-> {s.id : s \in signals} \ UNION {c.ids : c \in candidates},
           reported |-> Reported(grouping)]

-----------------------------------------------------------------------------
Init ==
  /\ clock = 0
  /\ handed \in SUBSET Earlier
  /\ LET taken == {Intake(f, {}, 0) : f \in handed}
     IN /\ ledger = UNION {t.rows : t \in taken} /\ signals = UNION {t.signals : t \in taken}
        /\ rejected = UNION {t.rejected : t \in taken}
  /\ prior = NoWindow /\ snapshot = Nothing /\ before = Nothing
  /\ given = {} /\ everLate = {}

Tick == /\ clock < LastTick /\ clock' = clock + 1
        /\ UNCHANGED <<intake, prior, snapshot, before, given, everLate>>

(* A recorded fixture goes through the adapter of its source.              *)
TakeIn(f) ==
  /\ f \notin handed
  /\ handed' = handed \cup {f}
  /\ LET taken == Intake(f, ledger, clock)
     IN /\ ledger' = ledger \cup taken.rows
        /\ signals' = signals \cup taken.signals
        /\ rejected' = rejected \cup taken.rejected
  /\ UNCHANGED <<clock, prior, snapshot, before, given, everLate>>

(* The caller evaluates the range, continuing its chain or starting anew.  *)
Evaluate(previous) ==
  /\ snapshot' = Evaluated(previous)
  /\ IF snapshot'.kind = "snapshot"
     THEN /\ prior' = snapshot'.window /\ given' = handed
          /\ before' = IF previous = NoWindow THEN Nothing ELSE snapshot
          /\ everLate' = (IF previous = NoWindow THEN {} ELSE everLate) \cup snapshot'.late
     ELSE UNCHANGED <<prior, before, given, everLate>>
  /\ UNCHANGED <<clock, intake>>

Next ==
  \/ Tick
  \/ \E f \in Arrivals : TakeIn(f)
  \/ \E previous \in {NoWindow, prior} : Evaluate(previous)

Spec == Init /\ [][Next]_vars

-----------------------------------------------------------------------------
(* Two signals are in one candidate exactly when a chain joins them of     *)
(* shared targets and of paths that no later answer contradicts, and what  *)
(* joins the whole of it does not join others elsewhere; and every other   *)
(* signal retained is counted as uncorrelated.  A snapshot speaks of the   *)
(* fixtures handed in when it was built.                                   *)
CandidatesAreClasses ==
  snapshot.kind = "snapshot" /\ given = handed =>
    LET seen == {s \in signals : s.id \in snapshot.eligible}
        groups == ReferenceGroups(seen)
  IN /\ {c.ids : c \in snapshot.candidates} = groups
       /\ snapshot.uncorrelated \cap UNION groups = {}
       /\ snapshot.eligible \subseteq snapshot.uncorrelated \cup UNION groups

(* In a chain of evaluations a candidate that holds a signal once called   *)
(* late is never shown as an ordinary active one again.                    *)
LateStaysMarked ==
  snapshot.kind = "snapshot" =>
    \A c \in snapshot.candidates : c.ids \cap everLate # {} => c.status # "active"

(* A finalized range whose eligible signals change is reopened, unless     *)
(* what came in carries no time of intake or one not after finalization.   *)
(* A snapshot speaks of the fixtures handed in when it was built.          *)
FinalizedChangesOpenly ==
  (/\ before.kind = "snapshot" /\ snapshot.kind = "snapshot" /\ given = handed
   /\ before.window.state = "finalized" /\ snapshot.window.state = "finalized"
   /\ snapshot.window.at > before.window.at) =>
    \A s \in signals : s.id \in snapshot.eligible \ before.eligible =>
      s.ingested = NoTime \/ s.ingested <= End + Lateness
=============================================================================
