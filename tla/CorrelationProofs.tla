------------------------- MODULE CorrelationProofs -------------------------
(***************************************************************************)
(* What is proved of signal correlation over time, for any fixtures, rules *)
(* and windows, any topology and any range:                                *)
(*                                                                         *)
(*   WindowsChained    a range is closed only after its finalization time, *)
(*                     and once it saw a late signal stays reopened        *)
(*   LateIsMarked      in a chain of evaluations no candidate that holds a *)
(*                     signal once called late is shown as active again    *)
(*   ChangesAreOpen    a finalized range whose signals change is reopened  *)
(*   CandidatesAreGroups  the candidates are the classes of the signals    *)
(*                     that targets and paths relate, all of them that     *)
(*                     something explains, and the rest is uncorrelated    *)
(*                                                                         *)
(* The first three do not depend on how signals are grouped; the fourth is *)
(* about that.  And of the ledger of the records that correlation reads,   *)
(* for any sets of stores, workspaces and inputs and however many stores   *)
(* overlap:                                                                *)
(*                                                                         *)
(*   LedgerStaysOpen       the ledger stays loadable                       *)
(*   ReferencesStayUsable  as long as no store has written over one it did *)
(*                         not see, every reference given out stays usable *)
(***************************************************************************)
EXTENDS Correlation, SourceLedger, SequenceTheorems, FiniteSetTheorems,
        WellFoundedInduction, TLAPS

WindowStates == {"open", "ready_to_finalize", "finalized", "reopened"}
Closing == {"finalized", "reopened"}

\* The windows of the range.
RangeWindows == [start : {Start}, end : {End}, lateness : {Lateness},
                 at : Nat, state : WindowStates]

(* A range is finalized or reopened only after its finalization; it is     *)
(* reopened once the chain has seen a late signal; and the window the      *)
(* caller keeps is that of the last snapshot.                              *)
ChainInv ==
  /\ prior = NoWindow \/ prior \in RangeWindows
  /\ prior.state \in Closing => prior.at >= End + Lateness
  /\ everLate # {} => prior.state = "reopened"
  /\ snapshot.kind = "snapshot" => snapshot.window = prior

(* Signals are taken in at the time the clock then showed.                 *)
IntakeInv ==
  /\ clock \in Nat
  /\ \A s \in signals : s.ingested \in Nat \cup {NoTime}
  /\ given \subseteq handed

CorrelationInv ==
  ChainInv /\ IntakeInv /\ LateStaysMarked /\ FinalizedChangesOpenly

\* What an adapter yields was taken in now, or does not say when.
LEMMA IntakeStamped ==
  ASSUME NEW f, NEW table, NEW now \in Nat
  PROVE  \A s \in Intake(f, table, now).signals : s.ingested \in Nat \cup {NoTime}
<1>1. SignalOf(f, now).ingested \in {now, NoTime}
  BY DEF SignalOf
<1>2. Intake(f, table, now).signals \subseteq {SignalOf(f, now)}
  BY DEF Intake
<1> QED BY <1>1, <1>2

(* The window an evaluation answers with: late signals, or a range the     *)
(* chain has reopened before, leave it reopened; a finalized one has none. *)
LEMMA WindowsFollow ==
  ASSUME NEW last, NEW late, NEW at \in Nat,
         NEW req, req = [start |-> Start, end |-> End, lateness |-> Lateness, at |-> at],
         Acceptable(req, last),
         last = NoWindow \/ last \in RangeWindows,
         last.state \in Closing => last.at >= End + Lateness,
         late # {} => last # NoWindow /\ at > last.at /\ last.state \in Closing
  PROVE  /\ WindowOf(req, late, last) \in RangeWindows
         /\ WindowOf(req, late, last).at = at
         /\ WindowOf(req, late, last).state \in Closing => at >= End + Lateness
         /\ late # {} \/ last.state = "reopened"
              => WindowOf(req, late, last).state = "reopened"
<1>1. /\ Start \in Nat /\ End \in Nat /\ Lateness \in Nat
      /\ End + Lateness \in Nat /\ End <= End + Lateness
  BY TimesAssumption
<1>2. Finalization(req) = End + Lateness /\ req.end = End /\ req.at = at
  BY DEF Finalization
<1>3. last.state # "none" => last \in RangeWindows /\ last.at \in Nat
  BY DEF NoWindow, RangeWindows
<1>4. last \in RangeWindows => at >= last.at
  <2>1. last \in RangeWindows => last # NoWindow
    BY DEF RangeWindows, NoWindow, WindowStates
  <2> QED BY <1>2, <2>1 DEF Acceptable
<1>5. late # {} \/ last.state = "reopened" => at >= End + Lateness
  BY <1>1, <1>3, <1>4 DEF Closing
<1>6. BuiltState(req, late) \in WindowStates
  BY DEF BuiltState, WindowStates
<1>7. BuiltState(req, late) \in Closing => at >= End + Lateness
  BY <1>1, <1>2 DEF BuiltState, Closing
<1>8. late # {} => BuiltState(req, late) = "reopened"
  BY <1>2, <1>5 DEF BuiltState
<1>9. late = {} /\ last.state = "reopened" => BuiltState(req, late) = "finalized"
  BY <1>1, <1>2, <1>5 DEF BuiltState
<1>10. /\ StateOf(req, late, last) \in WindowStates
       /\ StateOf(req, late, last) \in Closing => at >= End + Lateness
       /\ late # {} \/ last.state = "reopened"
            => StateOf(req, late, last) = "reopened"
  BY <1>6, <1>7, <1>8, <1>9 DEF StateOf, WindowStates, Closing
<1> QED BY <1>10 DEF WindowOf, RangeWindows

\* A candidate of a reopened range is suppressed or provisional.
LEMMA ReopenedIsMarked ==
  ASSUME NEW component, NEW window, window.state = "reopened", NEW late
  PROVE  Candidate(component, window, late).status # "active"
BY DEF Candidate, StatusOf

(* A snapshot is of acceptable times and of signals that do not contradict *)
(* one another, and says what the evaluation found.                        *)
LEMMA SnapshotBuilt ==
  ASSUME NEW previous, Evaluated(previous).kind = "snapshot"
  PROVE  LET late == {s.id : s \in LateIn(signals, Request, previous)}
             window == WindowOf(Request, late, previous)
         IN /\ Acceptable(Request, previous)
            /\ \A a, b \in signals : a.id = b.id => a = b
            /\ Evaluated(previous).window = window
            /\ Evaluated(previous).late = late
            /\ \A c \in Evaluated(previous).candidates :
                  \E component : c = Candidate(component, window, late)
            /\ Evaluated(previous).eligible
                 = {s.id : s \in EligibleIn(signals, Request)}
            /\ Evaluated(previous).candidates
                 = {Candidate(c, window, late)
                    : c \in Grouping(EligibleIn(signals, Request)).components}
            /\ Evaluated(previous).uncorrelated
                 = {s.id : s \in signals} \ UNION {c.ids : c \in Evaluated(previous).candidates}
<1> DEFINE late == {s.id : s \in LateIn(signals, Request, previous)}
           window == WindowOf(Request, late, previous)
           grouping == Grouping(EligibleIn(signals, Request))
           candidates == {Candidate(c, window, late) : c \in grouping.components}
           answer ==
             [kind |-> "snapshot", window |-> window, candidates |-> candidates, late |-> late,
              eligible |-> {s.id : s \in EligibleIn(signals, Request)},
              uncorrelated |-> {s.id : s \in signals} \ UNION {c.ids : c \in candidates},
              reported |-> Reported(grouping)]
<1>1. Evaluated(previous) =
        IF ~Acceptable(Request, previous) \/ ~Deduplicable(signals) THEN Refused
        ELSE IF ~Closed(candidates, grouping.paths) THEN Broken ELSE answer
  BY DEF Evaluated
<1>2. Refused.kind # "snapshot" /\ Broken.kind # "snapshot"
  BY DEF Refused, Broken
<1>3. /\ Acceptable(Request, previous) /\ Deduplicable(signals)
      /\ Evaluated(previous) = answer
  <2> HIDE DEF answer, candidates, grouping
  <2> QED BY <1>1, <1>2
<1>4. \A a, b \in signals : a.id = b.id => a = b
  BY <1>3 DEF Deduplicable, Contradicts
<1>5. \A c \in candidates : \E component : c = Candidate(component, window, late)
  <2> HIDE DEF window, late, grouping
  <2> QED OBVIOUS
<1>6. /\ answer.window = window /\ answer.late = late
      /\ answer.candidates = candidates
      /\ answer.eligible = {s.id : s \in EligibleIn(signals, Request)}
      /\ answer.uncorrelated = {s.id : s \in signals} \ UNION {c.ids : c \in candidates}
  OBVIOUS
<1>8. candidates = {Candidate(c, window, late)
                    : c \in Grouping(EligibleIn(signals, Request)).components}
  OBVIOUS
<1> HIDE DEF answer, candidates, window, late
<1>7. /\ Evaluated(previous).window = window
      /\ Evaluated(previous).late = late
      /\ Evaluated(previous).eligible = {s.id : s \in EligibleIn(signals, Request)}
      /\ \A c \in Evaluated(previous).candidates :
            \E component : c = Candidate(component, window, late)
      /\ Evaluated(previous).candidates
           = {Candidate(c, window, late)
              : c \in Grouping(EligibleIn(signals, Request)).components}
      /\ Evaluated(previous).uncorrelated
           = {s.id : s \in signals} \ UNION {c.ids : c \in Evaluated(previous).candidates}
  BY <1>3, <1>5, <1>6, <1>8
<1> QED BY <1>3, <1>4, <1>7 DEF window, late

\* What an evaluation of a chain that holds leaves behind.
LEMMA EvaluateKeeps ==
  ASSUME CorrelationInv, NEW previous \in {NoWindow, prior}, Evaluate(previous)
  PROVE  CorrelationInv'
<1>1. CASE snapshot'.kind # "snapshot"
  <2>1. UNCHANGED <<clock, intake, prior, before, given, everLate>>
    BY <1>1 DEF Evaluate
  <2> QED BY <1>1, <2>1 DEF CorrelationInv, ChainInv, IntakeInv,
             LateStaysMarked, FinalizedChangesOpenly, intake
<1>2. CASE snapshot'.kind = "snapshot"
  <2> DEFINE late == {s.id : s \in LateIn(signals, Request, previous)}
             window == WindowOf(Request, late, previous)
  <2>1. /\ snapshot' = Evaluated(previous)
        /\ prior' = snapshot'.window /\ given' = handed
        /\ before' = IF previous = NoWindow THEN Nothing ELSE snapshot
        /\ everLate' = (IF previous = NoWindow THEN {} ELSE everLate) \cup snapshot'.late
        /\ UNCHANGED <<clock, handed, signals>>
    BY <1>2 DEF Evaluate, intake
  <2>2. /\ Acceptable(Request, previous)
        /\ \A a, b \in signals : a.id = b.id => a = b
        /\ snapshot'.window = window /\ snapshot'.late = late
        /\ \A c \in snapshot'.candidates :
              \E component : c = Candidate(component, window, late)
        /\ snapshot'.eligible = {s.id : s \in EligibleIn(signals, Request)}
    <3>1. Evaluated(previous).kind = "snapshot"
      BY <1>2, <2>1
    <3> QED BY <2>1, <3>1, SnapshotBuilt
  <2>3. clock \in Nat
    BY DEF CorrelationInv, IntakeInv
  <2>4. /\ previous = NoWindow \/ previous \in RangeWindows
        /\ previous.state \in Closing => previous.at >= End + Lateness
    BY DEF CorrelationInv, ChainInv, NoWindow, Closing
  <2>5. late # {} => previous # NoWindow /\ clock > previous.at
                                         /\ previous.state \in Closing
    <3>1. previous # NoWindow => previous.at \in Nat
      BY <2>4 DEF RangeWindows
    <3>2. late # {} => /\ previous # NoWindow /\ ~(clock <= previous.at)
                       /\ previous.state \in Closing
      BY DEF LateIn, Closing, Request
    <3> HIDE DEF late
    <3> QED BY <2>3, <3>1, <3>2
  <2> HIDE DEF late
  <2>6. /\ window \in RangeWindows
        /\ window.at = clock
        /\ window.state \in Closing => window.at >= End + Lateness
        /\ late # {} \/ previous.state = "reopened" => window.state = "reopened"
    <3>1. Request = [start |-> Start, end |-> End, lateness |-> Lateness, at |-> clock]
      BY DEF Request
    <3> HIDE DEF Request
    <3> QED BY <2>2, <2>3, <2>4, <2>5, <3>1, WindowsFollow
  <2> HIDE DEF window
  <2>7. everLate' # {} => window.state = "reopened"
    <3>1. everLate # {} /\ previous # NoWindow => previous.state = "reopened"
      BY DEF CorrelationInv, ChainInv
    <3> QED BY <2>1, <2>2, <2>6, <3>1
  <2>8. ChainInv'
    BY <2>1, <2>2, <2>6, <2>7 DEF ChainInv
  <2>9. IntakeInv'
    BY <2>1 DEF CorrelationInv, IntakeInv
  <2>10. LateStaysMarked'
    <3> SUFFICES ASSUME NEW c \in snapshot'.candidates, everLate' # {}
                 PROVE  c.status # "active"
      BY DEF LateStaysMarked
    <3> QED BY <2>2, <2>7, ReopenedIsMarked
  <2>11. FinalizedChangesOpenly'
    <3> SUFFICES ASSUME before'.kind = "snapshot",
                        before'.window.state = "finalized",
                        window.state = "finalized",
                        window.at > before'.window.at,
                        NEW s \in signals,
                        s.id \in snapshot'.eligible
                 PROVE  s.ingested = NoTime \/ s.ingested <= End + Lateness
      BY <2>1, <2>2 DEF FinalizedChangesOpenly
    <3>1. /\ previous # NoWindow /\ before' = snapshot
          /\ snapshot.kind = "snapshot" /\ previous = prior
      BY <2>1 DEF Nothing
    <3>2. previous.state = "finalized" /\ clock > previous.at
      BY <2>6, <3>1 DEF CorrelationInv, ChainInv
    <3>3. previous.at \in Nat
      BY <2>4, <3>1 DEF RangeWindows
    <3>4. ~(clock <= previous.at)
      BY <2>3, <3>2, <3>3
    <3>5. late = {}
      BY <2>6
    <3>6. s \in EligibleIn(signals, Request)
      <4>1. PICK t \in EligibleIn(signals, Request) : t.id = s.id
        BY <2>2
      <4>2. t \in signals
        BY <4>1 DEF EligibleIn
      <4> QED BY <2>2, <4>1, <4>2
    <3>7. s \notin LateIn(signals, Request, previous)
      BY <3>5 DEF late
    <3>8. Finalization(Request) = End + Lateness /\ Request.at = clock
      BY DEF Finalization, Request
    <3>9. s.ingested # NoTime => ~(s.ingested > End + Lateness)
      BY <3>1, <3>2, <3>4, <3>6, <3>7, <3>8 DEF LateIn
    <3>10. s.ingested \in Nat \cup {NoTime} /\ End + Lateness \in Nat
      BY TimesAssumption DEF CorrelationInv, IntakeInv
    <3> QED BY <3>9, <3>10
  <2> QED BY <2>8, <2>9, <2>10, <2>11 DEF CorrelationInv
<1> QED BY <1>1, <1>2

\* Whatever happens, the chain of evaluations stays sound.
LEMMA CorrelationStep == CorrelationInv /\ [Next]_vars => CorrelationInv'
<1> SUFFICES ASSUME CorrelationInv, [Next]_vars PROVE CorrelationInv'
  OBVIOUS
<1>1. CASE UNCHANGED vars
  BY <1>1 DEF vars, intake, CorrelationInv, ChainInv, IntakeInv,
              LateStaysMarked, FinalizedChangesOpenly
<1>2. CASE Tick
  <2>1. clock' \in Nat
    BY <1>2, TimesAssumption DEF Tick, CorrelationInv, IntakeInv
  <2>2. UNCHANGED <<intake, prior, snapshot, before, given, everLate>>
    BY <1>2 DEF Tick
  <2> QED BY <2>1, <2>2 DEF intake, CorrelationInv, ChainInv, IntakeInv,
             LateStaysMarked, FinalizedChangesOpenly
<1>3. ASSUME NEW f \in Arrivals, TakeIn(f) PROVE CorrelationInv'
  <2>1. /\ f \notin handed /\ handed' = handed \cup {f}
        /\ signals' = signals \cup Intake(f, ledger, clock).signals
        /\ UNCHANGED <<clock, prior, snapshot, before, given, everLate>>
    BY <1>3 DEF TakeIn
  <2>2. \A s \in Intake(f, ledger, clock).signals : s.ingested \in Nat \cup {NoTime}
    BY IntakeStamped DEF CorrelationInv, IntakeInv
  <2>3. given' # handed'
    BY <2>1 DEF CorrelationInv, IntakeInv
  <2> QED BY <2>1, <2>2, <2>3 DEF CorrelationInv, ChainInv, IntakeInv,
             LateStaysMarked, FinalizedChangesOpenly
<1> QED BY <1>1, <1>2, <1>3, EvaluateKeeps DEF Next

\* It is sound before anything is evaluated.
LEMMA CorrelationInit == Init => CorrelationInv
<1> SUFFICES ASSUME Init PROVE CorrelationInv
  OBVIOUS
<1>1. ASSUME NEW s \in signals PROVE s.ingested \in Nat \cup {NoTime}
  <2>1. PICK f \in handed : s \in Intake(f, {}, 0).signals
    BY DEF Init
  <2> QED BY <2>1, IntakeStamped
<1> QED BY <1>1 DEF Init, CorrelationInv, ChainInv, IntakeInv, Closing,
           LateStaysMarked, FinalizedChangesOpenly, NoWindow, Nothing

\* It is sound in every behaviour.
LEMMA CorrelationHolds == Spec => []CorrelationInv
BY CorrelationInit, CorrelationStep, PTL DEF Spec

\* window.rs finalizes and reopens a range only after its finalization time,
\* keeps it reopened while the chain goes on once a late signal was seen, and
\* hands the caller the window of its last snapshot.
THEOREM WindowsChained == Spec => []ChainInv
BY CorrelationHolds, PTL DEF CorrelationInv

\* aggregate.rs never shows a candidate with a signal once called late as an
\* active one, however often the range is evaluated after.
THEOREM LateIsMarked == Spec => []LateStaysMarked
BY CorrelationHolds, PTL DEF CorrelationInv

\* A finalized range whose eligible signals change is not shown as finalized
\* again: signals taken in after the finalization reopen it.
THEOREM ChangesAreOpen == Spec => []FinalizedChangesOpenly
BY CorrelationHolds, PTL DEF CorrelationInv

-----------------------------------------------------------------------------
(***************************************************************************)
(* Grouping                                                                *)
(*                                                                         *)
(* Finite sets and the two folds over them.                                *)
(***************************************************************************)

Less == {p \in Nat \X Nat : p[1] < p[2]}

\* Every non-empty set of naturals has a least element.
LEMMA LeastNatural ==
  ASSUME NEW T, T \subseteq Nat, T # {}
  PROVE  \E n \in T : \A m \in T : n <= m
<1>1. Less = OpToRel(<, Nat)
  BY DEF Less, OpToRel
<1>2. IsWellFoundedOn(Less, Nat)
  BY <1>1, NatLessThanWellFounded
<1>3. PICK n \in T : \A m \in T : <<m, n>> \notin Less
  BY <1>2, WFMin
<1>4. ASSUME NEW m \in T PROVE n <= m
  <2>1. <<m, n>> \in Less <=> m < n
    BY DEF Less
  <2>2. ~(m < n)
    BY <1>3, <2>1
  <2>3. m \in Nat /\ n \in Nat
    OBVIOUS
  <2> QED BY <2>2, <2>3
<1> QED BY <1>4

\* A set of subsets of a finite set has a smallest member.
LEMMA MinimalSet ==
  ASSUME NEW S, IsFiniteSet(S), NEW B, B \subseteq SUBSET S, B # {}
  PROVE  \E s \in B : \A x \in s : s \ {x} \notin B
<1> DEFINE T == {Cardinality(s) : s \in B}
<1>1. \A s \in B : IsFiniteSet(s) /\ Cardinality(s) \in Nat
  <2> TAKE s \in B
  <2>1. IsFiniteSet(s)
    BY FS_Subset
  <2> QED BY <2>1, FS_CardinalityType
<1>2. PICK n \in T : \A m \in T : n <= m
  <2>1. T \subseteq Nat /\ T # {}
    BY <1>1
  <2> HIDE DEF T
  <2> QED BY <2>1, LeastNatural
<1>3. PICK s \in B : Cardinality(s) = n
  OBVIOUS
<1>4. ASSUME NEW x \in s, s \ {x} \in B PROVE FALSE
  <2> DEFINE rest == s \ {x}
  <2>1. IsFiniteSet(rest) /\ Cardinality(rest) \in Nat /\ n <= Cardinality(rest)
    BY <1>1, <1>2, <1>4
  <2>2. rest \cup {x} = s /\ x \notin rest
    OBVIOUS
  <2> HIDE DEF rest
  <2>3. Cardinality(rest \cup {x}) = Cardinality(rest) + 1
    BY <2>1, <2>2, FS_AddElement
  <2>4. n = Cardinality(rest) + 1
    BY <1>3, <2>2, <2>3
  <2> QED BY <2>1, <2>4
<1> QED BY <1>4

\* What a function makes of a finite set is finite.
LEMMA ImageFinite ==
  ASSUME NEW X, IsFiniteSet(X), NEW f
  PROVE  IsFiniteSet({f[x] : x \in X})
<1> DEFINE Y == {f[x] : x \in X}
           g == [x \in X |-> f[x]]
<1>1. g \in Surjection(X, Y)
  BY DEF Surjection
<1> HIDE DEF g, Y
<1>2. IsFiniteSet(Y)
  BY <1>1, FS_Surjection
<1> QED BY <1>2 DEF Y

\* A finite set of two members and more is one with two that differ.
LEMMA TwoDiffer ==
  ASSUME NEW S, IsFiniteSet(S)
  PROVE  Cardinality(S) >= 2 <=> \E x, y \in S : x # y
<1>1. Cardinality(S) \in Nat
  BY FS_CardinalityType
<1>2. Cardinality(S) = 0 <=> S = {}
  BY FS_EmptySet
<1>3. Cardinality(S) = 1 <=> \E x : S = {x}
  BY FS_Singleton
<1>4. (\E x, y \in S : x # y) <=> ~(S = {}) /\ ~(\E x : S = {x})
  <2>1. ASSUME NEW x \in S, ~\E y \in S : x # y PROVE S = {x}
    BY <2>1
  <2> QED BY <2>1
<1> DEFINE n == Cardinality(S)
<1>5. n \in Nat /\ (n >= 2 <=> ~(n = 0) /\ ~(n = 1))
  <2>1. \A k \in Nat : k >= 2 <=> ~(k = 0) /\ ~(k = 1)
    OBVIOUS
  <2> QED BY <1>1, <2>1
<1> QED BY <1>2, <1>3, <1>4, <1>5

(* The answers are taken in the order of the questions, the sets of        *)
(* signals that belong together in any.                                    *)
Picked(kind, s) == IF kind = "asked" THEN LastAsked(s) ELSE CHOOSE x \in s : TRUE
Taken(kind, x, sofar) == IF kind = "asked" THEN Observe(sofar, x) ELSE Joined(sofar, x)
Reached(kind, base, h, s) ==
  IF s = {} THEN base ELSE Taken(kind, Picked(kind, s), h[s \ {Picked(kind, s)}])
Tabled(kind, base, S, h) == h = [s \in SUBSET S |-> Reached(kind, base, h, s)]
Table(kind, base, S) == CHOOSE h : Tabled(kind, base, S, h)
Fold(kind, base, S) == Table(kind, base, S)[S]

Pickable(kind, S) == IsFiniteSet(S) /\ \A s \in SUBSET S : s # {} => Picked(kind, s) \in s

\* So it is for every part.
LEMMA PickablePart ==
  ASSUME NEW kind, NEW S, Pickable(kind, S), NEW R \in SUBSET S
  PROVE  Pickable(kind, R)
<1>1. IsFiniteSet(R)
  BY FS_Subset DEF Pickable
<1> QED BY <1>1 DEF Pickable

\* Two tables agree where both are defined.
LEMMA TablesAgree ==
  ASSUME NEW kind, NEW base, NEW S, NEW R, NEW h, NEW k,
         Tabled(kind, base, S, h), Tabled(kind, base, R, k),
         NEW s, s \subseteq S, s \subseteq R, Pickable(kind, s)
  PROVE  h[s] = k[s]
<1> DEFINE B == {t \in SUBSET s : h[t] # k[t]}
<1>1. SUFFICES ASSUME B # {} PROVE FALSE
  OBVIOUS
<1>2. PICK t \in B : \A x \in t : t \ {x} \notin B
  <2>1. B \subseteq SUBSET s /\ IsFiniteSet(s)
    BY DEF Pickable
  <2> HIDE DEF B
  <2> QED BY <1>1, <2>1, MinimalSet
<1>3. h[t] = Reached(kind, base, h, t) /\ k[t] = Reached(kind, base, k, t)
  BY DEF Tabled
<1>4. t # {} => h[t \ {Picked(kind, t)}] = k[t \ {Picked(kind, t)}]
  <2> SUFFICES ASSUME t # {} PROVE h[t \ {Picked(kind, t)}] = k[t \ {Picked(kind, t)}]
    OBVIOUS
  <2>1. Picked(kind, t) \in t
    BY DEF Pickable
  <2> QED BY <1>2, <2>1
<1>5. Reached(kind, base, h, t) = Reached(kind, base, k, t)
  BY <1>4 DEF Reached
<1> QED BY <1>3, <1>5

\* Part of a table is a table.
LEMMA TableRestricts ==
  ASSUME NEW kind, NEW base, NEW S, NEW R, R \subseteq S, NEW h, Tabled(kind, base, S, h)
  PROVE  \E k : Tabled(kind, base, R, k)
<1> DEFINE k == [s \in SUBSET R |-> h[s]]
<1>1. ASSUME NEW s \in SUBSET R PROVE k[s] = Reached(kind, base, k, s)
  <2>1. h[s] = Reached(kind, base, h, s)
    BY DEF Tabled
  <2>2. s # {} => k[s \ {Picked(kind, s)}] = h[s \ {Picked(kind, s)}]
    OBVIOUS
  <2>3. Reached(kind, base, k, s) = Reached(kind, base, h, s)
    <3> HIDE DEF k
    <3> QED BY <2>2 DEF Reached
  <2> QED BY <2>1, <2>3
<1>2. k = [s \in SUBSET R |-> k[s]]
  OBVIOUS
<1> HIDE DEF k
<1>3. Tabled(kind, base, R, k)
  BY <1>1, <1>2 DEF Tabled
<1> QED BY <1>3

\* Over a finite set there is a table.
LEMMA TableExists ==
  ASSUME NEW kind, NEW base, NEW S, Pickable(kind, S)
  PROVE  Tabled(kind, base, S, Table(kind, base, S))
<1> DEFINE B == {s \in SUBSET S : ~\E h : Tabled(kind, base, s, h)}
<1>1. SUFFICES ASSUME B # {} PROVE FALSE
  <2> SUFFICES \E h : Tabled(kind, base, S, h)
    BY DEF Table
  <2> QED BY <1>1
<1>2. PICK s \in B : \A x \in s : s \ {x} \notin B
  <2>1. B \subseteq SUBSET S /\ IsFiniteSet(S)
    BY DEF Pickable
  <2> HIDE DEF B
  <2> QED BY <1>1, <2>1, MinimalSet
<1>3. s \in SUBSET S /\ ~\E h : Tabled(kind, base, s, h)
  OBVIOUS
<1>4. ASSUME NEW t \in SUBSET s, t # s
      PROVE  Tabled(kind, base, t, Table(kind, base, t)) /\ Pickable(kind, t)
  <2>1. PICK x \in s : t \subseteq s \ {x}
    BY <1>4
  <2>2. \E h : Tabled(kind, base, s \ {x}, h)
    BY <1>2, <1>3
  <2>3. \E h : Tabled(kind, base, t, h)
    BY <2>1, <2>2, TableRestricts
  <2>4. Pickable(kind, t)
    BY <1>3, PickablePart
  <2> QED BY <2>3, <2>4 DEF Table
<1> HIDE DEF B
<1> DEFINE total(t) == Fold(kind, base, t)
           whole(t) == IF t = {} THEN base
                       ELSE Taken(kind, Picked(kind, t), total(t \ {Picked(kind, t)}))
           h == [t \in SUBSET s |-> whole(t)]
<1>5. ASSUME NEW t \in SUBSET s, t # s PROVE total(t) = whole(t)
  <2> DEFINE rest == t \ {Picked(kind, t)}
             T == Table(kind, base, t)
  <2>1. Tabled(kind, base, t, T)
    BY <1>4, <1>5
  <2>2. total(t) = Reached(kind, base, T, t)
    BY <2>1 DEF Tabled, Fold
  <2>3. t # {} => T[rest] = total(rest)
    <3> SUFFICES ASSUME t # {} PROVE T[rest] = total(rest)
      OBVIOUS
    <3>1. rest \in SUBSET s /\ rest # s /\ rest \subseteq t
      BY <1>5
    <3>2. Tabled(kind, base, rest, Table(kind, base, rest)) /\ Pickable(kind, rest)
      BY <1>4, <3>1
    <3> HIDE DEF rest, T
    <3> QED BY <2>1, <3>1, <3>2, TablesAgree DEF Fold
  <2> HIDE DEF T
  <2> QED BY <2>2, <2>3 DEF Reached
<1>6. ASSUME NEW t \in SUBSET s PROVE h[t] = Reached(kind, base, h, t)
  <2> DEFINE rest == t \ {Picked(kind, t)}
  <2>1. h[t] = whole(t)
    OBVIOUS
  <2>2. t # {} => h[rest] = total(rest)
    <3> SUFFICES ASSUME t # {} PROVE h[rest] = total(rest)
      OBVIOUS
    <3>1. Picked(kind, t) \in t
      BY <1>3 DEF Pickable
    <3>2. rest \in SUBSET s /\ rest # s
      BY <3>1
    <3>3. total(rest) = whole(rest)
      BY <1>5, <3>2
    <3>4. h[rest] = whole(rest)
      BY <3>2
    <3> QED BY <3>3, <3>4
  <2> HIDE DEF h, total
  <2> QED BY <2>1, <2>2 DEF Reached
<1>7. h = [t \in SUBSET s |-> h[t]]
  OBVIOUS
<1> HIDE DEF h
<1>8. Tabled(kind, base, s, h)
  BY <1>6, <1>7 DEF Tabled
<1> QED BY <1>3, <1>8

\* A fold takes the member it picks, after all others.
LEMMA FoldUnfolds ==
  ASSUME NEW kind, NEW base, NEW S, Pickable(kind, S)
  PROVE  Fold(kind, base, S) =
            IF S = {} THEN base
            ELSE Taken(kind, Picked(kind, S), Fold(kind, base, S \ {Picked(kind, S)}))
<1> DEFINE rest == S \ {Picked(kind, S)}
           T == Table(kind, base, S)
<1>1. Pickable(kind, rest) /\ rest \subseteq S
  BY PickablePart
<1>2. Tabled(kind, base, S, T) /\ Tabled(kind, base, rest, Table(kind, base, rest))
  BY <1>1, TableExists
<1> HIDE DEF rest, T
<1>3. T[rest] = Fold(kind, base, rest)
  BY <1>1, <1>2, TablesAgree DEF Fold
<1>4. T[S] = Reached(kind, base, T, S)
  BY <1>2 DEF Tabled
<1>5. Fold(kind, base, S) = T[S]
  BY DEF Fold, T
<1> QED BY <1>3, <1>4, <1>5 DEF Reached, rest

\* What has been seen after some questions is such a fold.
LEMMA AfterIsFold ==
  ASSUME NEW asked, Pickable("asked", asked)
  PROVE  After(asked) = Fold("asked", NothingSeen, asked)
<1> DEFINE P(h) == h = [sofar \in SUBSET asked |->
                          IF sofar = {} THEN NothingSeen
                          ELSE Observe(h[sofar \ {LastAsked(sofar)}], LastAsked(sofar))]
           k == CHOOSE h : P(h)
<1>1. After(asked) = k[asked]
  BY DEF After
<1>2. \A h : P(h) <=> Tabled("asked", NothingSeen, asked, h)
  <2> TAKE h
  <2>1. \A s : Reached("asked", NothingSeen, h, s) =
                 IF s = {} THEN NothingSeen ELSE Observe(h[s \ {LastAsked(s)}], LastAsked(s))
    BY DEF Reached, Taken, Picked
  <2> QED BY <2>1 DEF Tabled
<1>3. Tabled("asked", NothingSeen, asked, Table("asked", NothingSeen, asked))
  BY TableExists
<1>4. \E h : P(h)
  BY <1>2, <1>3
<1>5. P(k)
  <2> HIDE DEF P
  <2> QED BY <1>4
<1>6. Tabled("asked", NothingSeen, asked, k)
  BY <1>2, <1>5
<1> HIDE DEF k
<1>7. k[asked] = Table("asked", NothingSeen, asked)[asked]
  BY <1>3, <1>6, TablesAgree
<1> QED BY <1>1, <1>7 DEF Fold

\* The sets of signals that are joined.
Members(S, seen) ==
  {Holders(S, t) : t \in SharedTargets(S)} \cup {{l[1], l[2]} : l \in Standing(seen)}

\* And so are the classes.
LEMMA ClassesAreFold ==
  ASSUME NEW S, NEW seen, Pickable("joined", Members(S, seen))
  PROVE  Classes(S, seen) = Fold("joined", {{s.id} : s \in S}, Members(S, seen))
<1> DEFINE M == Members(S, seen)
           base == {{s.id} : s \in S}
           pick(s) == CHOOSE x \in s : TRUE
           P(h) == h = [s \in SUBSET M |-> IF s = {} THEN base
                                           ELSE Joined(h[s \ {pick(s)}], pick(s))]
           k == CHOOSE h : P(h)
<1>1. Classes(S, seen) = k[M]
  BY DEF Classes, FoldSet, MapThenFoldSet, Members
<1>2. \A h : P(h) <=> Tabled("joined", base, M, h)
  <2> TAKE h
  <2>1. \A s : Reached("joined", base, h, s) =
                 IF s = {} THEN base ELSE Joined(h[s \ {pick(s)}], pick(s))
    BY DEF Reached, Taken, Picked
  <2> HIDE DEF base, M
  <2> QED BY <2>1 DEF Tabled
<1>3. Tabled("joined", base, M, Table("joined", base, M))
  BY TableExists
<1>4. \E h : P(h)
  <2> HIDE DEF P, M, base
  <2> QED BY <1>2, <1>3
<1>5. P(k)
  <2> HIDE DEF P
  <2> QED BY <1>4
<1>6. Tabled("joined", base, M, k)
  BY <1>2, <1>5
<1> HIDE DEF k, M, base
<1>7. Pickable("joined", M)
  BY DEF M
<1>8. k[M] = Table("joined", base, M)[M]
  BY <1>3, <1>6, <1>7, TablesAgree
<1> QED BY <1>1, <1>8 DEF Fold, M, base

-----------------------------------------------------------------------------
(* What the answers leave.                                                 *)

\* Questions in an order.
Ordered(asked) ==
  /\ \A q \in asked : ~Before(q, q)
  /\ \A q, r \in asked : q # r => Before(q, r) \/ Before(r, q)
  /\ \A q, r, p \in asked : Before(q, r) /\ Before(r, p) => Before(q, p)

\* Of finitely many in an order one is asked last.
LEMMA LastThere ==
  ASSUME NEW asked, IsFiniteSet(asked), Ordered(asked)
  PROVE  \A s \in SUBSET asked :
           s # {} => LastAsked(s) \in s /\ \A r \in s : ~Before(LastAsked(s), r)
<1> DEFINE Has(s) == \E q \in s : \A r \in s : ~Before(q, r)
           B == {s \in SUBSET asked : s # {} /\ ~Has(s)}
<1>1. B = {}
  <2> SUFFICES ASSUME B # {} PROVE FALSE
    OBVIOUS
  <2>1. PICK s \in B : \A x \in s : s \ {x} \notin B
    <3>1. B \subseteq SUBSET asked
      OBVIOUS
    <3> HIDE DEF B
    <3> QED BY <3>1, MinimalSet
  <2>2. PICK x \in s : TRUE
    OBVIOUS
  <2>3. s \ {x} # {}
    <3> SUFFICES ASSUME s \ {x} = {} PROVE FALSE
      OBVIOUS
    <3>1. s = {x} /\ x \in asked
      OBVIOUS
    <3> QED BY <3>1 DEF Ordered
  <2>4. PICK q \in s \ {x} : \A r \in s \ {x} : ~Before(q, r)
    BY <2>1, <2>3
  <2>5. CASE ~Before(q, x)
    BY <2>4, <2>5
  <2>6. CASE Before(q, x)
    <3>1. ASSUME NEW r \in s, Before(x, r) PROVE FALSE
      <4>1. q \in asked /\ x \in asked /\ r \in asked
        OBVIOUS
      <4>2. Before(q, r)
        BY <2>6, <3>1, <4>1 DEF Ordered
      <4>3. r = x
        BY <2>4, <4>2
      <4> QED BY <3>1, <4>1, <4>3 DEF Ordered
    <3> QED BY <3>1
  <2> QED BY <2>5, <2>6
<1>2. ASSUME NEW s \in SUBSET asked, s # {} PROVE Has(s)
  BY <1>1, <1>2
<1> QED BY <1>2 DEF LastAsked

\* Parts are in the same order, and can be taken from the end.
LEMMA OrderedPickable ==
  ASSUME NEW asked, IsFiniteSet(asked), Ordered(asked), NEW s \in SUBSET asked
  PROVE  IsFiniteSet(s) /\ Ordered(s) /\ Pickable("asked", s)
<1>1. IsFiniteSet(s)
  BY FS_Subset
<1>2. Ordered(s)
  BY DEF Ordered
<1> QED BY <1>1, <1>2, LastThere DEF Pickable, Picked

\* What was seen after some questions is what the last of them adds.
LEMMA AfterUnfolds ==
  ASSUME NEW asked, IsFiniteSet(asked), Ordered(asked)
  PROVE  After(asked) = IF asked = {} THEN NothingSeen
                        ELSE Observe(After(asked \ {LastAsked(asked)}), LastAsked(asked))
<1> DEFINE rest == asked \ {LastAsked(asked)}
<1>1. Pickable("asked", asked) /\ Pickable("asked", rest)
  BY OrderedPickable
<1>2. After(asked) = Fold("asked", NothingSeen, asked)
  BY <1>1, AfterIsFold
<1>3. After(rest) = Fold("asked", NothingSeen, rest)
  <2> HIDE DEF rest
  <2> QED BY <1>1, AfterIsFold
<1>4. Fold("asked", NothingSeen, asked) =
        IF asked = {} THEN NothingSeen
        ELSE Taken("asked", Picked("asked", asked),
                   Fold("asked", NothingSeen, asked \ {Picked("asked", asked)}))
  BY <1>1, FoldUnfolds
<1> QED BY <1>2, <1>3, <1>4 DEF Taken, Picked

Link(q) == <<q.a.id, q.b.id, Answer(q).id>>

(* After some questions the paths are those that link, the ambiguous       *)
(* identifiers those that were overruled, and the links are of questions   *)
(* whose path connects, with all that link among them.                     *)
Recorded(A, s) ==
  /\ DOMAIN A = {"paths", "ambiguous", "links", "status"}
  /\ A.ambiguous = {Answer(q).id : q \in {x \in s : Connects(x) /\ Overruled(s, Answer(x).id)}}
  /\ A.paths = {Answer(q) : q \in Linking(s)}
  /\ \A l \in A.links : \E q \in s : Connects(q) /\ l = Link(q)
  /\ \A q \in Linking(s) : Link(q) \in A.links

\* Nothing asked, nothing seen.
LEMMA RecordedNothing == Recorded(NothingSeen, {})
BY DEF Recorded, NothingSeen, Linking

\* One more answer overrules only what it contradicts.
LEMMA OverruledBy ==
  ASSUME NEW s, NEW m, \A q \in s \cup {m} : ~Before(m, q), \A q \in s : Before(q, m), NEW id
  PROVE  Overruled(s \cup {m}, id) <=>
           \/ Overruled(s, id)
           \/ IsPath(m) /\ Answer(m).id = id
                /\ \E p \in s : Connects(p) /\ Answer(p).id = id /\ Answer(m) # Answer(p)
<1>1. ASSUME NEW p \in s \cup {m}, NEW r \in s \cup {m}, Connects(p), Answer(p).id = id, Overrules(r, p)
      PROVE  \/ Overruled(s, id)
             \/ IsPath(m) /\ Answer(m).id = id
                  /\ \E x \in s : Connects(x) /\ Answer(x).id = id /\ Answer(m) # Answer(x)
  <2>1. p \in s
    BY <1>1 DEF Overrules
  <2>2. CASE r \in s
    BY <1>1, <2>1, <2>2 DEF Overruled
  <2>3. CASE r = m
    BY <1>1, <2>1, <2>3 DEF Overrules
  <2> QED BY <2>2, <2>3
<1>2. Overruled(s, id) => Overruled(s \cup {m}, id)
  BY DEF Overruled
<1>3. ASSUME NEW p \in s, IsPath(m), Answer(m).id = id, Connects(p), Answer(p).id = id,
             Answer(m) # Answer(p)
      PROVE  Overruled(s \cup {m}, id)
  BY <1>3 DEF Overruled, Overrules
<1>4. Overruled(s \cup {m}, id) =>
        \E p, r \in s \cup {m} : Connects(p) /\ Answer(p).id = id /\ Overrules(r, p)
  BY DEF Overruled
<1> QED BY <1>1, <1>2, <1>3, <1>4

\* What one answer does to the record.
LEMMA RecordedStep ==
  ASSUME NEW s, NEW m, \A q \in s \cup {m} : ~Before(m, q), \A q \in s : Before(q, m),
         NEW A, Recorded(A, s)
  PROVE  Recorded(Observe(A, m), s \cup {m})
<1> DEFINE S == s \cup {m}
           x == Answer(m)
           O == Observe(A, m)
           Against(p) == Connects(p) /\ Answer(p).id = x.id /\ x # Answer(p)
<1>1. \A id : Overruled(S, id) <=>
        Overruled(s, id) \/ (IsPath(m) /\ x.id = id /\ \E p \in s : Against(p))
  BY OverruledBy
<1>2. /\ DOMAIN A = {"paths", "ambiguous", "links", "status"}
      /\ A.ambiguous = {Answer(q).id : q \in {y \in s : Connects(y) /\ Overruled(s, Answer(y).id)}}
      /\ A.paths = {Answer(q) : q \in Linking(s)}
      /\ \A l \in A.links : \E q \in s : Connects(q) /\ l = Link(q)
      /\ \A q \in Linking(s) : Link(q) \in A.links
  BY DEF Recorded
<1> DEFINE Like(B) == /\ DOMAIN B = {"paths", "ambiguous", "links", "status"}
                      /\ B.ambiguous = A.ambiguous /\ B.paths = A.paths /\ B.links = A.links
<1>3. ASSUME Like(O), \A id : Overruled(S, id) <=> Overruled(s, id),
             Connects(m) => Overruled(s, x.id)
      PROVE  Recorded(O, S)
  <2>1. Linking(S) = Linking(s)
    BY <1>3 DEF Linking
  <2>2. {Answer(q).id : q \in {y \in S : Connects(y) /\ Overruled(S, Answer(y).id)}}
          = {Answer(q).id : q \in {y \in s : Connects(y) /\ Overruled(s, Answer(y).id)}}
    <3>1. Connects(m) => \E q \in s : Connects(q) /\ Answer(q).id = x.id
      BY <1>3 DEF Overruled
    <3>2. Connects(m) => \E q \in s : Connects(q) /\ Answer(q).id = x.id /\ Overruled(s, Answer(q).id)
      BY <1>3, <3>1
    <3> QED BY <1>3, <3>2
  <2> HIDE DEF O, S
  <2>3. S = s \cup {m}
    BY DEF S
  <2> QED BY <1>2, <1>3, <2>1, <2>2, <2>3 DEF Recorded
<1>4. CASE ~IsPath(m)
  <2>1. Like(O)
    BY <1>2, <1>4 DEF Observe, IsPath
  <2>2. ~Connects(m)
    BY <1>4 DEF Connects
  <2> QED BY <1>1, <1>3, <1>4, <2>1, <2>2
<1>5. CASE IsPath(m) /\ x.id \in A.ambiguous
  <2>1. Overruled(s, x.id)
    BY <1>2, <1>5
  <2>2. Like(O)
    BY <1>2, <1>5 DEF Observe, IsPath, Admitted
  <2> QED BY <1>1, <1>3, <2>1, <2>2
<1>6. CASE IsPath(m) /\ x.id \notin A.ambiguous /\ \E p \in A.paths : p.id = x.id /\ p # x
  <2>1. PICK q \in Linking(s) : Answer(q).id = x.id /\ Answer(q) # x
    BY <1>2, <1>6
  <2>2. q \in s /\ Against(q)
    BY <2>1 DEF Linking
  <2>3. \A id : Overruled(S, id) <=> Overruled(s, id) \/ id = x.id
    BY <1>1, <1>6, <2>2
  <2>4. Linking(S) = {r \in Linking(s) : Answer(r).id # x.id}
    BY <2>3 DEF Linking
  <2>5. /\ DOMAIN O = DOMAIN A
        /\ O.paths = {p \in A.paths : p.id # x.id}
        /\ O.ambiguous = A.ambiguous \cup {x.id}
        /\ O.links = A.links
    BY <1>2, <1>6 DEF Observe, IsPath, Admitted
  <2>6. O.ambiguous = {Answer(r).id : r \in {y \in S : Connects(y) /\ Overruled(S, Answer(y).id)}}
    <3> DEFINE R == {Answer(r).id : r \in {y \in S : Connects(y) /\ Overruled(S, Answer(y).id)}}
    <3>1. x.id \in R
      BY <2>2, <2>3
    <3>2. A.ambiguous \subseteq R
      BY <1>2, <2>3
    <3>3. ASSUME NEW y \in S, Connects(y), Overruled(S, Answer(y).id)
          PROVE  Answer(y).id \in A.ambiguous \cup {x.id}
      BY <1>2, <2>3, <3>3
    <3>4. R \subseteq A.ambiguous \cup {x.id}
      BY <3>3
    <3> HIDE DEF R
    <3>5. O.ambiguous = R
      BY <2>5, <3>1, <3>2, <3>4
    <3> QED BY <3>5 DEF R
  <2>7. O.paths = {Answer(r) : r \in Linking(S)}
    <3> HIDE DEF O, S
    <3>1. \A p : p \in O.paths <=> p.id # x.id /\ \E r \in Linking(s) : p = Answer(r)
      BY <1>2, <2>5
    <3>2. \A r : r \in Linking(S) <=> r \in Linking(s) /\ Answer(r).id # x.id
      BY <2>4
    <3> QED BY <3>1, <3>2
  <2>8. /\ \A l \in O.links : \E r \in S : Connects(r) /\ l = Link(r)
        /\ \A r \in Linking(S) : Link(r) \in O.links
    BY <1>2, <2>4, <2>5
  <2> QED BY <1>2, <2>5, <2>6, <2>7, <2>8 DEF Recorded
<1>7. CASE IsPath(m) /\ x.id \notin A.ambiguous /\ ~\E p \in A.paths : p.id = x.id /\ p # x
  <2>1. ~Overruled(s, x.id)
    <3> SUFFICES ASSUME Overruled(s, x.id) PROVE FALSE
      OBVIOUS
    <3>1. PICK p \in s : Connects(p) /\ Answer(p).id = x.id
      BY DEF Overruled
    <3>2. x.id \in A.ambiguous
      BY <1>2, <3>1
    <3> QED BY <1>7, <3>2
  <2>2. ~\E p \in s : Against(p)
    <3> SUFFICES ASSUME NEW p \in s, Against(p) PROVE FALSE
      OBVIOUS
    <3>1. p \in Linking(s)
      BY <2>1 DEF Linking
    <3>2. Answer(p) \in A.paths
      BY <1>2, <3>1
    <3> QED BY <1>7, <3>2
  <2>3. \A id : Overruled(S, id) <=> Overruled(s, id)
    BY <1>1, <2>2
  <2>4. CASE ~Connects(m)
    <3>1. Like(O)
      BY <1>2, <1>7, <2>4 DEF Observe, IsPath, Admitted, Connects
    <3> QED BY <1>3, <2>3, <2>4, <3>1
  <2>5. CASE Connects(m)
    <3>1. Linking(S) = Linking(s) \cup {m}
      BY <2>1, <2>3, <2>5 DEF Linking
    <3>2. /\ DOMAIN O = DOMAIN A
          /\ O.paths = A.paths \cup {x}
          /\ O.links = A.links \cup {Link(m)}
          /\ O.ambiguous = A.ambiguous
      <4>1. O = Accepted(A, m, x)
        BY <1>7, <2>5 DEF Observe, IsPath, Admitted, Connects
      <4> QED BY <1>2, <4>1 DEF Accepted, Link
    <3>3. {Answer(q).id : q \in {y \in S : Connects(y) /\ Overruled(S, Answer(y).id)}}
            = {Answer(q).id : q \in {y \in s : Connects(y) /\ Overruled(s, Answer(y).id)}}
      BY <2>1, <2>3
    <3> HIDE DEF O
    <3>4. O.paths = {Answer(r) : r \in Linking(S)}
      BY <1>2, <3>1, <3>2
    <3>5. /\ \A l \in O.links : \E r \in S : Connects(r) /\ l = Link(r)
          /\ \A r \in Linking(S) : Link(r) \in O.links
      BY <1>2, <2>5, <3>1, <3>2
    <3> HIDE DEF S
    <3>6. Recorded(O, S)
      BY <1>2, <3>2, <3>3, <3>4, <3>5 DEF Recorded
    <3> QED BY <3>6 DEF O, S
  <2> QED BY <2>4, <2>5
<1> QED BY <1>4, <1>5, <1>6, <1>7

\* So the record is of all questions, whatever their order was.
LEMMA AllRecorded ==
  ASSUME NEW asked, IsFiniteSet(asked), Ordered(asked)
  PROVE  Recorded(After(asked), asked)
<1> DEFINE B == {s \in SUBSET asked : ~Recorded(After(s), s)}
<1>1. SUFFICES ASSUME B # {} PROVE FALSE
  OBVIOUS
<1>2. PICK s \in B : \A x \in s : s \ {x} \notin B
  <2>1. B \subseteq SUBSET asked
    OBVIOUS
  <2> HIDE DEF B
  <2> QED BY <1>1, <2>1, MinimalSet
<1>3. s \in SUBSET asked /\ ~Recorded(After(s), s)
  OBVIOUS
<1>4. IsFiniteSet(s) /\ Ordered(s)
  BY <1>3, OrderedPickable
<1> DEFINE m == LastAsked(s)
           t == s \ {m}
<1>5. After(s) = IF s = {} THEN NothingSeen ELSE Observe(After(t), m)
  BY <1>4, AfterUnfolds
<1>6. CASE s = {}
  BY <1>3, <1>5, <1>6, RecordedNothing
<1>7. CASE s # {}
  <2>1. m \in s /\ \A r \in s : ~Before(m, r)
    BY <1>3, <1>7, LastThere
  <2>2. Recorded(After(t), t)
    BY <1>2, <1>3, <2>1
  <2> HIDE DEF m
  <2>3. t \cup {m} = s
    BY <2>1
  <2>4. \A q \in t : Before(q, m)
    BY <1>4, <2>1 DEF Ordered
  <2> HIDE DEF t
  <2>5. Recorded(Observe(After(t), m), t \cup {m})
    BY <2>1, <2>2, <2>3, <2>4, RecordedStep
  <2> QED BY <1>3, <1>5, <1>7, <2>3, <2>5
<1> QED BY <1>6, <1>7

\* The links that stand are those of the questions that link.
LEMMA StandingAre ==
  ASSUME NEW A, NEW asked, Recorded(A, asked)
  PROVE  Standing(A) = {Link(q) : q \in Linking(asked)}
<1>1. ASSUME NEW l \in A.links, l[3] \in {p.id : p \in A.paths}
      PROVE  l \in {Link(q) : q \in Linking(asked)}
  <2>1. PICK q \in asked : Connects(q) /\ l = Link(q)
    BY DEF Recorded
  <2>2. PICK r \in Linking(asked) : Answer(r).id = l[3]
    BY <1>1 DEF Recorded
  <2>3. Answer(q).id = Answer(r).id
    BY <2>1, <2>2 DEF Link
  <2>4. q \in Linking(asked)
    BY <2>1, <2>2, <2>3 DEF Linking
  <2> QED BY <2>1, <2>4
<1>2. ASSUME NEW q \in Linking(asked)
      PROVE  Link(q) \in A.links /\ Link(q)[3] \in {p.id : p \in A.paths}
  BY DEF Recorded, Link
<1> QED BY <1>1, <1>2 DEF Standing

-----------------------------------------------------------------------------
(* Classes.                                                                *)

\* No member set leads out of g.
Wholly(D, g) == \A m \in D : m \subseteq g \/ m \cap g = {}

(* The classes after some sets have been joined: each of those lies in one *)
(* of them, and they are no larger than that takes.                        *)
Classed(C, ids, D) ==
  /\ UNION C = ids /\ {} \notin C
  /\ \A c, d \in C : c \cap d # {} => c = d
  /\ \A m \in D : \E c \in C : m \subseteq c
  /\ \A g \in SUBSET ids : Wholly(D, g) => \A c \in C : c \subseteq g \/ c \cap g = {}

\* Joining one more set.
LEMMA ClassedStep ==
  ASSUME NEW C, NEW ids, NEW D, Classed(C, ids, D), NEW m, m \subseteq ids, m # {}
  PROVE  Classed(Joined(C, m), ids, D \cup {m})
<1> DEFINE hit == {c \in C : c \cap m # {}}
           U == UNION hit
           J == (C \ hit) \cup {U}
<1>1. PICK i \in m : TRUE
  OBVIOUS
<1>2. PICK h \in C : i \in h
  BY DEF Classed
<1>3. h \in hit
  BY <1>1, <1>2
<1>4. Joined(C, m) = J
  BY <1>3 DEF Joined
<1>5. UNION J = ids
  <2>1. UNION J \subseteq UNION C
    OBVIOUS
  <2>2. UNION C \subseteq UNION J
    <3> SUFFICES ASSUME NEW c \in C, NEW y \in c PROVE y \in UNION J
      OBVIOUS
    <3>1. c \in hit => y \in U
      OBVIOUS
    <3>2. c \notin hit => c \in J
      OBVIOUS
    <3>3. U \in J
      OBVIOUS
    <3> QED BY <3>1, <3>2, <3>3
  <2> QED BY <2>1, <2>2 DEF Classed
<1>6. U # {}
  BY <1>2, <1>3
<1>7. m \subseteq U
  BY DEF Classed
<1>8. ASSUME NEW c \in C \ hit PROVE c \cap U = {}
  <2>1. ASSUME NEW y \in c, NEW d \in hit, y \in d PROVE FALSE
    <3>1. c = d
      BY <2>1 DEF Classed
    <3> QED BY <3>1
  <2> QED BY <2>1
<1>9. \A c, d \in J : c \cap d # {} => c = d
  BY <1>8 DEF Classed
<1>10. ASSUME NEW k \in D PROVE \E c \in J : k \subseteq c
  <2>1. PICK c \in C : k \subseteq c
    BY <1>10 DEF Classed
  <2>2. c \in hit => k \subseteq U
    BY <2>1
  <2> QED BY <2>1, <2>2
<1>11. ASSUME NEW g \in SUBSET ids, Wholly(D \cup {m}, g)
       PROVE  \A c \in J : c \subseteq g \/ c \cap g = {}
  <2>1. \A c \in C : c \subseteq g \/ c \cap g = {}
    BY <1>11 DEF Wholly, Classed
  <2>2. CASE m \subseteq g
    <3>1. \A d \in hit : d \subseteq g
      BY <2>1, <2>2
    <3> QED BY <2>1, <3>1
  <2>3. CASE m \cap g = {}
    <3>1. \A d \in hit : d \cap g = {}
      BY <2>1, <2>3
    <3> QED BY <2>1, <3>1
  <2> QED BY <1>11, <2>2, <2>3 DEF Wholly
<1>12. {} \notin J
  BY <1>6 DEF Classed
<1> HIDE DEF J
<1>13. \E c \in J : m \subseteq c
  BY <1>7 DEF J
<1> HIDE DEF U, hit
<1>14. \A k \in D \cup {m} : \E c \in J : k \subseteq c
  BY <1>10, <1>13
<1>15. \A g \in SUBSET ids : Wholly(D \cup {m}, g) => \A c \in J : c \subseteq g \/ c \cap g = {}
  BY <1>11
<1>16. Classed(J, ids, D \cup {m})
  BY <1>5, <1>9, <1>12, <1>14, <1>15 DEF Classed
<1> QED BY <1>4, <1>16

\* Sets can be joined in any order.
LEMMA JoinedPickable ==
  ASSUME NEW M, IsFiniteSet(M)
  PROVE  Pickable("joined", M)
BY DEF Pickable, Picked

\* Whatever the order, the sets end in classes.
LEMMA AllClassed ==
  ASSUME NEW M, IsFiniteSet(M), NEW C, NEW ids, Classed(C, ids, {}),
         \A m \in M : m \subseteq ids /\ m # {}
  PROVE  Classed(Fold("joined", C, M), ids, M)
<1> DEFINE B == {s \in SUBSET M : ~Classed(Fold("joined", C, s), ids, s)}
<1>1. SUFFICES ASSUME B # {} PROVE FALSE
  OBVIOUS
<1>2. PICK s \in B : \A x \in s : s \ {x} \notin B
  <2>1. B \subseteq SUBSET M
    OBVIOUS
  <2> HIDE DEF B
  <2> QED BY <1>1, <2>1, MinimalSet
<1>3. s \in SUBSET M /\ ~Classed(Fold("joined", C, s), ids, s)
  OBVIOUS
<1> DEFINE m == Picked("joined", s)
           t == s \ {m}
<1>4. Pickable("joined", s)
  BY <1>3, FS_Subset, JoinedPickable
<1>5. Fold("joined", C, s) = IF s = {} THEN C ELSE Taken("joined", m, Fold("joined", C, t))
  BY <1>4, FoldUnfolds
<1>6. CASE s = {}
  BY <1>3, <1>5, <1>6
<1>7. CASE s # {}
  <2>1. m \in s
    BY <1>4, <1>7 DEF Pickable
  <2>2. Classed(Fold("joined", C, t), ids, t)
    BY <1>2, <1>3, <2>1
  <2>3. m \subseteq ids /\ m # {}
    BY <1>3, <2>1
  <2>4. Taken("joined", m, Fold("joined", C, t)) = Joined(Fold("joined", C, t), m)
    BY DEF Taken
  <2> HIDE DEF m
  <2>5. t \cup {m} = s
    BY <2>1
  <2> HIDE DEF t
  <2>6. Classed(Joined(Fold("joined", C, t), m), ids, t \cup {m})
    BY <2>2, <2>3, ClassedStep
  <2> QED BY <1>3, <1>5, <1>7, <2>4, <2>5, <2>6
<1> QED BY <1>6, <1>7

\* One by one they are classes of nothing joined.
LEMMA SinglesClassed ==
  ASSUME NEW ids
  PROVE  Classed({{i} : i \in ids}, ids, {})
BY DEF Classed, Wholly

\* Classes are the smallest sets that nothing joined leads out of.
LEMMA ClassesAreSmallest ==
  ASSUME NEW C, NEW ids, NEW D, Classed(C, ids, D)
  PROVE  LET whole == {g \in SUBSET ids : g # {} /\ Wholly(D, g)}
         IN C = {g \in whole : ~\E h \in whole : h # g /\ h \subseteq g}
<1> DEFINE whole == {g \in SUBSET ids : g # {} /\ Wholly(D, g)}
<1>1. ASSUME NEW c \in C PROVE c \in whole
  <2>1. c \in SUBSET ids /\ c # {}
    BY DEF Classed
  <2>2. ASSUME NEW m \in D PROVE m \subseteq c \/ m \cap c = {}
    <3>1. PICK d \in C : m \subseteq d
      BY DEF Classed
    <3>2. d = c \/ d \cap c = {}
      BY DEF Classed
    <3> QED BY <3>1, <3>2
  <2> QED BY <2>1, <2>2 DEF Wholly
<1>2. ASSUME NEW c \in C, NEW h \in whole, h \subseteq c PROVE h = c
  <2>1. c \subseteq h \/ c \cap h = {}
    BY DEF Classed
  <2> QED BY <1>2, <2>1
<1>3. ASSUME NEW g \in whole, ~\E h \in whole : h # g /\ h \subseteq g PROVE g \in C
  <2>1. PICK y \in g : TRUE
    OBVIOUS
  <2>2. PICK c \in C : y \in c
    BY DEF Classed
  <2>3. c \subseteq g
    BY <2>1, <2>2 DEF Classed
  <2>4. c \in whole
    BY <1>1
  <2>5. c = g
    BY <1>3, <2>3, <2>4
  <2> QED BY <2>5
<1> HIDE DEF whole
<1>4. C = {g \in whole : ~\E h \in whole : h # g /\ h \subseteq g}
  BY <1>1, <1>2, <1>3
<1> QED BY <1>4 DEF whole

-----------------------------------------------------------------------------
(* The signals of an evaluation.                                           *)

\* Finitely many signals, each of a number of its own, over known targets.
Signalled(S) ==
  /\ IsFiniteSet(S)
  /\ \A s \in S : s.id \in Nat /\ s.targets \subseteq ToSet(TargetOrder)
  /\ \A x, y \in S : x.id = y.id => x = y

\* There are finitely many targets, and each has its rank.
LEMMA TargetsKnown ==
  /\ IsFiniteSet(ToSet(TargetOrder))
  /\ \A t \in ToSet(TargetOrder) : RankIn(t) \in Nat /\ TargetOrder[RankIn(t)] = t
<1>1. TargetOrder \in Seq(ToSet(TargetOrder))
  BY FixturesAssumption
<1> DEFINE T == ToSet(TargetOrder)
<1>2. /\ Len(TargetOrder) \in Nat /\ DOMAIN TargetOrder = 1..Len(TargetOrder)
  BY <1>1, LenProperties
<1>3. T = {TargetOrder[i] : i \in DOMAIN TargetOrder}
  BY DEF ToSet
<1>4. IsFiniteSet(DOMAIN TargetOrder)
  BY <1>2, FS_Interval
<1>5. IsFiniteSet(T)
  BY <1>3, <1>4, ImageFinite
<1>6. ASSUME NEW t \in T PROVE RankIn(t) \in Nat /\ TargetOrder[RankIn(t)] = t
  <2>1. \E i \in DOMAIN TargetOrder : TargetOrder[i] = t
    BY <1>3, <1>6
  <2>2. RankIn(t) \in DOMAIN TargetOrder /\ TargetOrder[RankIn(t)] = t
    BY <2>1 DEF RankIn
  <2>3. \A n \in Nat : \A i \in 1..n : i \in Nat
    OBVIOUS
  <2> QED BY <1>2, <2>2, <2>3
<1> QED BY <1>5, <1>6

\* What a question is about.
LEMMA QuestionIs ==
  ASSUME NEW S, Signalled(S), NEW q \in Questions(S)
  PROVE  /\ q.a \in S /\ q.b \in S /\ q.l \in ToSet(TargetOrder) /\ q.r \in ToSet(TargetOrder)
         /\ q = [a |-> q.a, b |-> q.b, l |-> q.l, r |-> q.r]
<1>1. PICK p \in S \X S : \E t \in p[1].targets \X p[2].targets :
        q = [a |-> p[1], b |-> p[2], l |-> t[1], r |-> t[2]]
  BY DEF Questions
<1>2. PICK t \in p[1].targets \X p[2].targets :
        q = [a |-> p[1], b |-> p[2], l |-> t[1], r |-> t[2]]
  BY <1>1
<1> QED BY <1>1, <1>2 DEF Signalled

\* There are finitely many questions.
LEMMA QuestionsFinite ==
  ASSUME NEW S, Signalled(S)
  PROVE  IsFiniteSet(Questions(S))
<1> DEFINE T == ToSet(TargetOrder)
           X == (S \X S) \X (T \X T)
           f == [x \in X |-> [a |-> x[1][1], b |-> x[1][2], l |-> x[2][1], r |-> x[2][2]]]
           Y == {f[x] : x \in X}
<1>1. IsFiniteSet(S) /\ IsFiniteSet(T)
  BY TargetsKnown DEF Signalled
<1>2. IsFiniteSet(S \X S) /\ IsFiniteSet(T \X T)
  BY <1>1, FS_Product
<1>3. IsFiniteSet(X)
  BY <1>2, FS_Product
<1>4. IsFiniteSet(Y)
  <2> HIDE DEF f, X
  <2> QED BY <1>3, ImageFinite
<1>5. ASSUME NEW q \in Questions(S) PROVE q \in Y
  <2> DEFINE x == <<<<q.a, q.b>>, <<q.l, q.r>>>>
  <2>1. x \in X /\ q = [a |-> q.a, b |-> q.b, l |-> q.l, r |-> q.r]
    BY QuestionIs
  <2>2. f[x] = [a |-> q.a, b |-> q.b, l |-> q.l, r |-> q.r]
    BY <2>1
  <2> QED BY <2>1, <2>2
<1> HIDE DEF Y
<1>6. Questions(S) \in SUBSET Y
  BY <1>5
<1> QED BY <1>4, <1>6, FS_Subset

\* And they are put in an order.
LEMMA QuestionsOrdered ==
  ASSUME NEW S, Signalled(S)
  PROVE  Ordered(Questions(S))
<1> DEFINE Q == Questions(S)
           A(q) == q.a.id
           B(q) == q.b.id
           L(q) == RankIn(q.l)
           R(q) == RankIn(q.r)
<1>1. \A q \in Q : A(q) \in Nat /\ B(q) \in Nat /\ L(q) \in Nat /\ R(q) \in Nat
  <2> TAKE q \in Q
  <2>1. q.a \in S /\ q.b \in S /\ q.l \in ToSet(TargetOrder) /\ q.r \in ToSet(TargetOrder)
    BY QuestionIs
  <2> QED BY <2>1, TargetsKnown DEF Signalled
<1>2. \A q, r \in Q : q.l = r.l <=> L(q) = L(r)
  <2> TAKE q, r \in Q
  <2>1. q.l \in ToSet(TargetOrder) /\ r.l \in ToSet(TargetOrder)
    BY QuestionIs
  <2> QED BY <2>1, TargetsKnown
<1>3. \A q, r \in Q : q.r = r.r <=> R(q) = R(r)
  <2> TAKE q, r \in Q
  <2>1. q.r \in ToSet(TargetOrder) /\ r.r \in ToSet(TargetOrder)
    BY QuestionIs
  <2> QED BY <2>1, TargetsKnown
<1>4. \A q, r \in Q : A(q) = A(r) /\ B(q) = B(r) /\ L(q) = L(r) /\ R(q) = R(r) => q = r
  <2> SUFFICES ASSUME NEW q \in Q, NEW r \in Q,
                      A(q) = A(r), B(q) = B(r), L(q) = L(r), R(q) = R(r)
               PROVE  q = r
    OBVIOUS
  <2>1. q.a = r.a /\ q.b = r.b
    BY QuestionIs DEF Signalled
  <2>2. q.l = r.l /\ q.r = r.r
    BY <1>2, <1>3
  <2>3. /\ q = [a |-> q.a, b |-> q.b, l |-> q.l, r |-> q.r]
        /\ r = [a |-> r.a, b |-> r.b, l |-> r.l, r |-> r.r]
    BY QuestionIs
  <2> QED BY <2>1, <2>2, <2>3
<1>5. \A q, r \in Q : Before(q, r) <=>
        \/ A(q) < A(r)
        \/ A(q) = A(r) /\ B(q) < B(r)
        \/ A(q) = A(r) /\ B(q) = B(r) /\ L(q) < L(r)
        \/ A(q) = A(r) /\ B(q) = B(r) /\ L(q) = L(r) /\ R(q) < R(r)
  BY <1>2 DEF Before
<1> HIDE DEF Q, A, B, L, R
<1>6. \A q \in Q : ~Before(q, q)
  BY <1>1, <1>5
<1>7. \A q, r \in Q : q # r => Before(q, r) \/ Before(r, q)
  BY <1>1, <1>4, <1>5
<1>8. \A q, r, p \in Q : Before(q, r) /\ Before(r, p) => Before(q, p)
  BY <1>1, <1>5
<1>9. Ordered(Q)
  BY <1>6, <1>7, <1>8 DEF Ordered
<1> QED BY <1>9 DEF Q

-----------------------------------------------------------------------------
(* Groups.                                                                 *)

Numbers(S) == {s.id : s \in S}

\* A target is shared when two signals have it and it is exact.
LEMMA SharedIs ==
  ASSUME NEW S, Signalled(S), NEW t
  PROVE  t \in SharedTargets(S) <=>
           \E x, y \in S : x # y /\ t \in ExactTargets(x) /\ t \in y.targets
<1> DEFINE H == {s \in S : t \in s.targets}
<1>1. IsFiniteSet(H)
  BY FS_Subset DEF Signalled
<1>2. Cardinality(H) >= 2 <=> \E x, y \in H : x # y
  <2> HIDE DEF H
  <2> QED BY <1>1, TwoDiffer
<1>3. t \in SharedTargets(S) <=>
        (\E s \in S : t \in ExactTargets(s)) /\ \E x, y \in H : x # y
  BY <1>2 DEF SharedTargets
<1>4. \A s \in S : t \in ExactTargets(s) <=> t \in s.targets /\ t.kind \in ExactKinds
  BY DEF ExactTargets
<1> QED BY <1>3, <1>4

\* Signals that share are held together, and who is held together shares.
LEMMA SharersHeld ==
  ASSUME NEW S, Signalled(S), NEW x \in S, NEW y \in S
  PROVE  /\ x # y /\ SharesExact(x, y) =>
              \E t \in SharedTargets(S) : {x.id, y.id} \subseteq Holders(S, t)
         /\ \A t \in SharedTargets(S) : {x.id, y.id} \subseteq Holders(S, t) => SharesExact(x, y)
<1>1. ASSUME NEW t PROVE x.id \in Holders(S, t) <=> t \in x.targets
  BY DEF Holders, Signalled
<1>2. ASSUME NEW t PROVE y.id \in Holders(S, t) <=> t \in y.targets
  BY DEF Holders, Signalled
<1>3. ASSUME x # y, SharesExact(x, y)
      PROVE  \E t \in SharedTargets(S) : {x.id, y.id} \subseteq Holders(S, t)
  <2>1. PICK t : t \in ExactTargets(x) /\ t \in y.targets
    BY <1>3 DEF SharesExact
  <2>2. t \in SharedTargets(S) /\ t \in x.targets
    BY <1>3, <2>1, SharedIs DEF ExactTargets
  <2> QED BY <1>1, <1>2, <2>1, <2>2
<1>4. ASSUME NEW t \in SharedTargets(S), {x.id, y.id} \subseteq Holders(S, t)
      PROVE  SharesExact(x, y)
  <2>1. t.kind \in ExactKinds
    BY SharedIs DEF ExactTargets
  <2>2. t \in x.targets /\ t \in y.targets
    BY <1>1, <1>2, <1>4
  <2> QED BY <2>1, <2>2 DEF SharesExact, ExactTargets
<1> QED BY <1>3, <1>4

\* The sets that are joined: the holders of a shared target, and the ends of
\* a question that links.
LEMMA MembersAre ==
  ASSUME NEW S, Signalled(S)
  PROVE  /\ Members(S, Seen(S)) = {Holders(S, t) : t \in SharedTargets(S)}
                                    \cup {{q.a.id, q.b.id} : q \in Linking(Questions(S))}
         /\ IsFiniteSet(Members(S, Seen(S)))
         /\ \A m \in Members(S, Seen(S)) : m \subseteq Numbers(S) /\ m # {}
<1> DEFINE Q == Questions(S)
           K == Linking(Q)
           T == ToSet(TargetOrder)
           F == SharedTargets(S)
           held == [t \in F |-> Holders(S, t)]
           ends == [q \in K |-> {q.a.id, q.b.id}]
           X == {held[t] : t \in F}
           Y == {ends[q] : q \in K}
<1>1. IsFiniteSet(Q) /\ Ordered(Q)
  BY QuestionsFinite, QuestionsOrdered
<1>2. Standing(Seen(S)) = {Link(q) : q \in K}
  BY <1>1, AllRecorded, StandingAre DEF Seen
<1>3. {{l[1], l[2]} : l \in Standing(Seen(S))} = Y
  <2>1. \A q \in K : Link(q)[1] = q.a.id /\ Link(q)[2] = q.b.id
    BY DEF Link
  <2> HIDE DEF K
  <2> QED BY <1>2, <2>1
<1>4. Members(S, Seen(S)) = X \cup Y
  BY <1>3 DEF Members
<1>5. IsFiniteSet(F)
  <2>1. F \in SUBSET T
    BY SharedIs DEF Signalled
  <2> HIDE DEF F, T
  <2>2. IsFiniteSet(T)
    BY TargetsKnown DEF T
  <2> QED BY <2>1, <2>2, FS_Subset
<1>6. IsFiniteSet(K)
  <2>1. K \in SUBSET Q
    BY DEF Linking
  <2> HIDE DEF K, Q
  <2> QED BY <1>1, <2>1, FS_Subset
<1>7. IsFiniteSet(X) /\ IsFiniteSet(Y)
  <2> HIDE DEF F, K, held, ends
  <2> QED BY <1>5, <1>6, ImageFinite
<1>8. IsFiniteSet(X \cup Y)
  <2> HIDE DEF X, Y
  <2> QED BY <1>7, FS_Union
<1>9. \A t \in F : Holders(S, t) \subseteq Numbers(S) /\ Holders(S, t) # {}
  <2> TAKE t \in F
  <2>1. PICK y \in S : t \in y.targets
    BY SharedIs
  <2> QED BY <2>1 DEF Holders, Numbers
<1>10. \A q \in K : {q.a.id, q.b.id} \subseteq Numbers(S) /\ {q.a.id, q.b.id} # {}
  <2> TAKE q \in K
  <2>1. q.a \in S /\ q.b \in S
    BY QuestionIs DEF Linking
  <2> QED BY <2>1 DEF Numbers
<1>11. X = {Holders(S, t) : t \in F} /\ Y = {{q.a.id, q.b.id} : q \in K}
  OBVIOUS
<1> HIDE DEF X, Y, F, K
<1>12. \A m \in X \cup Y : m \subseteq Numbers(S) /\ m # {}
  BY <1>9, <1>10, <1>11
<1> QED BY <1>4, <1>8, <1>11, <1>12 DEF F, K

\* The classes of grouping are those of the sets joined.
LEMMA GroupingClassed ==
  ASSUME NEW S, Signalled(S)
  PROVE  Classed(Classes(S, Seen(S)), Numbers(S), Members(S, Seen(S)))
<1> DEFINE M == Members(S, Seen(S))
           singles == {{s.id} : s \in S}
<1>1. IsFiniteSet(M) /\ \A m \in M : m \subseteq Numbers(S) /\ m # {}
  BY MembersAre
<1>2. singles = {{i} : i \in Numbers(S)}
  BY DEF Numbers
<1>3. Pickable("joined", M)
  <2> HIDE DEF M
  <2> QED BY <1>1, JoinedPickable
<1>4. Classes(S, Seen(S)) = Fold("joined", singles, M)
  BY <1>3, ClassesAreFold
<1> HIDE DEF M, singles
<1>5. Classed(singles, Numbers(S), {})
  BY <1>2, SinglesClassed
<1>6. Classed(Fold("joined", singles, M), Numbers(S), M)
  BY <1>1, <1>5, AllClassed
<1> QED BY <1>4, <1>6 DEF M

RelatedIn(S) == Related(S, Linking(Questions(S)))

\* What no relation leads out of, no set joined leads out of.
LEMMA WhollyIsWhole ==
  ASSUME NEW S, Signalled(S), NEW g \in SUBSET Numbers(S)
  PROVE  Wholly(Members(S, Seen(S)), g) <=> \A r \in RelatedIn(S) : r[1] \in g <=> r[2] \in g
<1> DEFINE K == Linking(Questions(S))
           M == Members(S, Seen(S))
<1>1. M = {Holders(S, t) : t \in SharedTargets(S)} \cup {{q.a.id, q.b.id} : q \in K}
  BY MembersAre
<1>2. RelatedIn(S) = {<<p[1].id, p[2].id>> : p \in {x \in S \X S : SharesExact(x[1], x[2])}}
                        \cup {<<q.a.id, q.b.id>> : q \in K}
  BY DEF RelatedIn, Related
<1> HIDE DEF K, M
<1>3. ASSUME Wholly(M, g), NEW r \in RelatedIn(S) PROVE r[1] \in g <=> r[2] \in g
  <2>1. CASE r \in {<<q.a.id, q.b.id>> : q \in K}
    <3>1. PICK q \in K : r = <<q.a.id, q.b.id>>
      BY <2>1
    <3>2. {q.a.id, q.b.id} \in M
      BY <1>1
    <3>3. {q.a.id, q.b.id} \subseteq g \/ {q.a.id, q.b.id} \cap g = {}
      BY <1>3, <3>2 DEF Wholly
    <3> QED BY <3>1, <3>3
  <2>2. CASE r \notin {<<q.a.id, q.b.id>> : q \in K}
    <3>1. PICK p \in S \X S : SharesExact(p[1], p[2]) /\ r = <<p[1].id, p[2].id>>
      BY <1>2, <2>2
    <3>2. CASE p[1] = p[2]
      BY <3>1, <3>2
    <3>3. CASE p[1] # p[2]
      <4>1. p[1] \in S /\ p[2] \in S
        OBVIOUS
      <4>2. PICK t \in SharedTargets(S) : {p[1].id, p[2].id} \subseteq Holders(S, t)
        BY <3>1, <3>3, <4>1, SharersHeld
      <4>3. Holders(S, t) \subseteq g \/ Holders(S, t) \cap g = {}
        BY <1>1, <1>3 DEF Wholly
      <4> QED BY <3>1, <4>2, <4>3
    <3> QED BY <3>2, <3>3
  <2> QED BY <2>1, <2>2
<1>4. ASSUME \A r \in RelatedIn(S) : r[1] \in g <=> r[2] \in g, NEW m \in M
      PROVE  m \subseteq g \/ m \cap g = {}
  <2>1. CASE m \in {{q.a.id, q.b.id} : q \in K}
    <3>1. PICK q \in K : m = {q.a.id, q.b.id}
      BY <2>1
    <3>2. <<q.a.id, q.b.id>> \in RelatedIn(S)
      BY <1>2
    <3>3. q.a.id \in g <=> q.b.id \in g
      BY <1>4, <3>2
    <3> QED BY <3>1, <3>3
  <2>2. CASE m \notin {{q.a.id, q.b.id} : q \in K}
    <3>1. PICK t \in SharedTargets(S) : m = Holders(S, t)
      BY <1>1, <2>2
    <3>2. ASSUME NEW i \in m, i \in g, NEW j \in m PROVE j \in g
      <4>1. PICK x \in S : x.id = i
        BY <3>1 DEF Holders
      <4>2. PICK y \in S : y.id = j
        BY <3>1 DEF Holders
      <4>3. SharesExact(x, y)
        BY <3>1, <4>1, <4>2, SharersHeld
      <4>4. <<x, y>> \in {z \in S \X S : SharesExact(z[1], z[2])}
        BY <4>3
      <4>5. <<x.id, y.id>> \in RelatedIn(S)
        BY <1>2, <4>4
      <4>6. x.id \in g <=> y.id \in g
        BY <1>4, <4>5
      <4> QED BY <3>2, <4>1, <4>2, <4>6
    <3> QED BY <3>2
  <2> QED BY <2>1, <2>2
<1>5. Wholly(M, g) <=> \A m \in M : m \subseteq g \/ m \cap g = {}
  BY DEF Wholly
<1>6. Wholly(M, g) <=> \A r \in RelatedIn(S) : r[1] \in g <=> r[2] \in g
  BY <1>3, <1>4, <1>5
<1> QED BY <1>6 DEF M

\* The signals that the standing links of a path name.
JoinedBy(S, p) == UNION {{l[1], l[2]} : l \in {x \in Standing(Seen(S)) : x[3] = p}}

\* A class that holds a reason is one that something explains.
LEMMA ReasonsExplain ==
  ASSUME NEW S, Signalled(S), NEW c \in Classes(S, Seen(S))
  PROVE  (\E r \in ExactReasons(S) \cup TopologyReasons(Seen(S)) : r.ids \subseteq c)
           <=> Explained(S, Linking(Questions(S)), c)
<1> DEFINE K == Linking(Questions(S))
           P == {l[3] : l \in Standing(Seen(S))}
<1>1. Standing(Seen(S)) = {Link(q) : q \in K}
  BY QuestionsFinite, QuestionsOrdered, AllRecorded, StandingAre DEF Seen
<1>2. Classed(Classes(S, Seen(S)), Numbers(S), Members(S, Seen(S)))
  BY GroupingClassed
<1>3. (\E r \in ExactReasons(S) : r.ids \subseteq c)
        <=> \E t \in SharedTargets(S) : Holders(S, t) \subseteq c
  <2>1. ASSUME NEW r \in ExactReasons(S), r.ids \subseteq c
        PROVE  \E t \in SharedTargets(S) : Holders(S, t) \subseteq c
    <3>1. PICK t \in SharedTargets(S) : r = [target |-> t, path |-> "", ids |-> Holders(S, t)]
      BY DEF ExactReasons
    <3>2. r.ids = Holders(S, t)
      BY <3>1
    <3> QED BY <2>1, <3>2
  <2>2. ASSUME NEW t \in SharedTargets(S), Holders(S, t) \subseteq c
        PROVE  \E r \in ExactReasons(S) : r.ids \subseteq c
    <3> DEFINE r == [target |-> t, path |-> "", ids |-> Holders(S, t)]
    <3>1. r \in ExactReasons(S)
      BY DEF ExactReasons
    <3>2. r.ids \subseteq c
      BY <2>2
    <3> HIDE DEF r
    <3> QED BY <3>1, <3>2
  <2> QED BY <2>1, <2>2
<1>4. (\E t \in SharedTargets(S) : Holders(S, t) \subseteq c)
        <=> \E x, y \in S : x # y /\ {x.id, y.id} \subseteq c /\ SharesExact(x, y)
  <2>1. ASSUME NEW t \in SharedTargets(S), Holders(S, t) \subseteq c
        PROVE  \E x, y \in S : x # y /\ {x.id, y.id} \subseteq c /\ SharesExact(x, y)
    <3>1. PICK x \in S, y \in S : x # y /\ t \in ExactTargets(x) /\ t \in y.targets
      BY SharedIs
    <3>2. t \in x.targets
      BY <3>1 DEF ExactTargets
    <3>3. {x.id, y.id} \subseteq Holders(S, t)
      BY <3>1, <3>2 DEF Holders
    <3>4. SharesExact(x, y)
      BY <3>3, SharersHeld
    <3> QED BY <2>1, <3>1, <3>3, <3>4
  <2>2. ASSUME NEW x \in S, NEW y \in S, x # y, {x.id, y.id} \subseteq c, SharesExact(x, y)
        PROVE  \E t \in SharedTargets(S) : Holders(S, t) \subseteq c
    <3>1. PICK t \in SharedTargets(S) : {x.id, y.id} \subseteq Holders(S, t)
      BY <2>2, SharersHeld
    <3>2. Holders(S, t) \in Members(S, Seen(S))
      BY DEF Members
    <3>3. PICK d \in Classes(S, Seen(S)) : Holders(S, t) \subseteq d
      BY <1>2, <3>2 DEF Classed
    <3>4. d \cap c # {}
      BY <2>2, <3>1, <3>3
    <3>5. d = c
      BY <1>2, <3>4 DEF Classed
    <3> QED BY <3>3, <3>5
  <2> QED BY <2>1, <2>2
<1>5. ASSUME NEW p
      PROVE  JoinedBy(S, p) \subseteq c <=> \A r \in K : Answer(r).id = p => {r.a.id, r.b.id} \subseteq c
  <2>1. \A r \in K : Link(r)[1] = r.a.id /\ Link(r)[2] = r.b.id /\ Link(r)[3] = Answer(r).id
    BY DEF Link
  <2> HIDE DEF K
  <2>2. ASSUME JoinedBy(S, p) \subseteq c, NEW r \in K, Answer(r).id = p PROVE {r.a.id, r.b.id} \subseteq c
    <3>1. Link(r) \in {x \in Standing(Seen(S)) : x[3] = p}
      BY <1>1, <2>1, <2>2
    <3>2. {Link(r)[1], Link(r)[2]} \subseteq JoinedBy(S, p)
      BY <3>1 DEF JoinedBy
    <3> QED BY <2>1, <2>2, <3>2
  <2>3. ASSUME \A r \in K : Answer(r).id = p => {r.a.id, r.b.id} \subseteq c, NEW i \in JoinedBy(S, p)
        PROVE  i \in c
    <3>1. PICK l \in Standing(Seen(S)) : l[3] = p /\ i \in {l[1], l[2]}
      BY DEF JoinedBy
    <3>2. PICK r \in K : l = Link(r)
      BY <1>1
    <3> QED BY <2>1, <2>3, <3>1, <3>2
  <2> QED BY <2>2, <2>3
<1>6. (\E r \in TopologyReasons(Seen(S)) : r.ids \subseteq c)
        <=> \E p \in P : JoinedBy(S, p) \subseteq c
  <2>1. TopologyReasons(Seen(S))
          = {[target |-> NoPath, path |-> p, ids |-> JoinedBy(S, p)] : p \in P}
    BY DEF TopologyReasons, JoinedBy
  <2> HIDE DEF P
  <2>2. ASSUME NEW r \in TopologyReasons(Seen(S)), r.ids \subseteq c
        PROVE  \E p \in P : JoinedBy(S, p) \subseteq c
    <3>1. PICK p \in P : r = [target |-> NoPath, path |-> p, ids |-> JoinedBy(S, p)]
      BY <2>1
    <3>2. r.ids = JoinedBy(S, p)
      BY <3>1
    <3> QED BY <2>2, <3>2
  <2>3. ASSUME NEW p \in P, JoinedBy(S, p) \subseteq c
        PROVE  \E r \in TopologyReasons(Seen(S)) : r.ids \subseteq c
    <3> DEFINE r == [target |-> NoPath, path |-> p, ids |-> JoinedBy(S, p)]
    <3>1. r \in TopologyReasons(Seen(S))
      BY <2>1
    <3>2. r.ids \subseteq c
      BY <2>3
    <3> HIDE DEF r
    <3> QED BY <3>1, <3>2
  <2> QED BY <2>2, <2>3
<1>7. P = {Answer(q).id : q \in K}
  <2>1. \A q \in K : Link(q)[3] = Answer(q).id
    BY DEF Link
  <2> HIDE DEF K
  <2> QED BY <1>1, <2>1
<1>8. (\E r \in TopologyReasons(Seen(S)) : r.ids \subseteq c)
        <=> \E q \in K : \A r \in K : Answer(r).id = Answer(q).id => {r.a.id, r.b.id} \subseteq c
  <2> HIDE DEF K, P
  <2>1. (\E p \in P : JoinedBy(S, p) \subseteq c)
          <=> \E q \in K : JoinedBy(S, Answer(q).id) \subseteq c
    BY <1>7
  <2>2. \A q \in K : JoinedBy(S, Answer(q).id) \subseteq c
                      <=> \A r \in K : Answer(r).id = Answer(q).id => {r.a.id, r.b.id} \subseteq c
    BY <1>5
  <2> QED BY <1>6, <2>1, <2>2
<1>9. Explained(S, K, c) <=>
        \/ \E x, y \in S : x # y /\ {x.id, y.id} \subseteq c /\ SharesExact(x, y)
        \/ \E q \in K : \A r \in K : Answer(r).id = Answer(q).id => {r.a.id, r.b.id} \subseteq c
  BY DEF Explained
<1> HIDE DEF K
<1>10. (\E r \in ExactReasons(S) \cup TopologyReasons(Seen(S)) : r.ids \subseteq c)
         <=> (\E r \in ExactReasons(S) : r.ids \subseteq c)
               \/ (\E r \in TopologyReasons(Seen(S)) : r.ids \subseteq c)
  OBVIOUS
<1>11. (\E r \in ExactReasons(S) \cup TopologyReasons(Seen(S)) : r.ids \subseteq c)
         <=> Explained(S, K, c)
  BY <1>3, <1>4, <1>8, <1>9, <1>10
<1> QED BY <1>11 DEF K

\* The components of grouping are the groups that its meaning gives.
LEMMA ComponentsAreGroups ==
  ASSUME NEW S, Signalled(S)
  PROVE  {x.ids : x \in Grouping(S).components} = ReferenceGroups(S)
<1> DEFINE A == Seen(S)
           C == Classes(S, A)
           K == Linking(Questions(S))
           ids == Numbers(S)
           whole == Whole(ids, RelatedIn(S))
           Some(c) == \E r \in ExactReasons(S) \cup TopologyReasons(A) : r.ids \subseteq c
<1>1. whole = {g \in SUBSET ids : g # {} /\ Wholly(Members(S, A), g)}
  BY WhollyIsWhole DEF Whole
<1>2. C = {g \in whole : ~\E h \in whole : h # g /\ h \subseteq g}
  <2>1. Classed(C, ids, Members(S, A))
    BY GroupingClassed
  <2> HIDE DEF C, ids, A
  <2>2. C = {g \in {f \in SUBSET ids : f # {} /\ Wholly(Members(S, A), f)} :
              ~\E h \in {f \in SUBSET ids : f # {} /\ Wholly(Members(S, A), f)} :
                  h # g /\ h \subseteq g}
    BY <2>1, ClassesAreSmallest
  <2> HIDE DEF whole
  <2> QED BY <1>1, <2>2
<1>3. {x.ids : x \in Grouping(S).components} = {c \in C : Cardinality(c) >= 2 /\ Some(c)}
  <2>1. Grouping(S).components = Components(S, A)
    BY DEF Grouping
  <2>2. Components(S, A) = {[ids |-> c, reasons |-> {r \in ExactReasons(S) \cup TopologyReasons(A) :
                                                       r.ids \subseteq c}]
                             : c \in {x \in C : Cardinality(x) >= 2 /\ Some(x)}}
    BY DEF Components
  <2> DEFINE D == {x \in C : Cardinality(x) >= 2 /\ Some(x)}
             In(c) == {r \in ExactReasons(S) \cup TopologyReasons(A) : r.ids \subseteq c}
             made == [c \in D |-> [ids |-> c, reasons |-> In(c)]]
  <2>3. Components(S, A) = {made[c] : c \in D}
    BY <2>2
  <2>4. \A c \in D : made[c].ids = c
    OBVIOUS
  <2>5. D = {c \in C : Cardinality(c) >= 2 /\ Some(c)}
    OBVIOUS
  <2> HIDE DEF C, A, Some, D, made
  <2>6. {x.ids : x \in {made[c] : c \in D}} = D
    BY <2>4
  <2> QED BY <2>1, <2>3, <2>5, <2>6
<1>4. \A c \in C : Some(c) <=> Explained(S, K, c)
  BY ReasonsExplain
<1>5. ReferenceGroups(S) = {g \in whole : /\ Cardinality(g) >= 2 /\ Explained(S, K, g)
                                         /\ ~\E h \in whole : h # g /\ h \subseteq g}
  BY DEF ReferenceGroups, RelatedIn, Numbers
<1> HIDE DEF A, C, K, ids, whole, Some
<1> QED BY <1>2, <1>3, <1>4, <1>5

-----------------------------------------------------------------------------
(* The candidates of a snapshot.                                           *)

(* The signals taken in are finitely many, and each is of a fixture: it    *)
(* has a number and names listed targets.                                  *)
Recordable(taken) == \A s \in taken : s.id \in Nat /\ s.targets \subseteq ToSet(TargetOrder)

ClassesInv ==
  /\ handed \subseteq Earlier \cup Arrivals
  /\ IsFiniteSet(signals) /\ Recordable(signals)
  /\ given \subseteq handed
  /\ CandidatesAreClasses

\* What one fixture yields is a signal of its number and targets, or nothing.
LEMMA IntakeRecordable ==
  ASSUME NEW f \in Earlier \cup Arrivals, NEW table, NEW now
  PROVE  IsFiniteSet(Intake(f, table, now).signals) /\ Recordable(Intake(f, table, now).signals)
<1> DEFINE s == SignalOf(f, now)
           taken == Intake(f, table, now).signals
<1>1. s.id = f.id /\ s.targets = f.targets
  BY DEF SignalOf
<1>2. f.id \in Nat /\ f.targets \subseteq ToSet(TargetOrder)
  BY FixturesAssumption
<1>3. taken \in SUBSET {s}
  BY DEF Intake
<1> HIDE DEF s, taken
<1>4. IsFiniteSet(taken)
  BY <1>3, FS_Singleton, FS_Subset
<1>5. Recordable(taken)
  BY <1>1, <1>2, <1>3 DEF Recordable
<1> QED BY <1>4, <1>5 DEF taken

\* A snapshot names the groups of the signals it was built from.
LEMMA SnapshotGroups ==
  ASSUME NEW previous, Evaluated(previous).kind = "snapshot",
         IsFiniteSet(signals), Recordable(signals)
  PROVE  LET answer == Evaluated(previous)
             seen == {s \in signals : s.id \in answer.eligible}
         IN /\ {c.ids : c \in answer.candidates} = ReferenceGroups(seen)
            /\ answer.uncorrelated \cap UNION ReferenceGroups(seen) = {}
            /\ answer.eligible \subseteq answer.uncorrelated \cup UNION ReferenceGroups(seen)
<1> DEFINE S == EligibleIn(signals, Request)
           late == {s.id : s \in LateIn(signals, Request, previous)}
           window == WindowOf(Request, late, previous)
           answer == Evaluated(previous)
           G == Grouping(S).components
           groups == {c.ids : c \in answer.candidates}
<1>1. /\ \A a, b \in signals : a.id = b.id => a = b
      /\ answer.eligible = {s.id : s \in S}
      /\ answer.candidates = {Candidate(c, window, late) : c \in G}
      /\ answer.uncorrelated = {s.id : s \in signals} \ UNION groups
  BY SnapshotBuilt
<1>2. \A c \in G : Candidate(c, window, late).ids = c.ids
  BY DEF Candidate
<1>3. S \in SUBSET signals
  BY DEF EligibleIn
<1> HIDE DEF S, late, window, answer, G
<1>4. Signalled(S)
  <2>1. IsFiniteSet(S)
    BY <1>3, FS_Subset
  <2> QED BY <1>1, <1>3, <2>1 DEF Signalled, Recordable
<1>5. {x.ids : x \in G} = ReferenceGroups(S)
  BY <1>4, ComponentsAreGroups DEF G
<1>6. groups = {x.ids : x \in G}
  BY <1>1, <1>2
<1>7. {s \in signals : s.id \in answer.eligible} = S
  BY <1>1, <1>3
<1>8. answer.eligible \subseteq {s.id : s \in signals}
  BY <1>1, <1>3
<1> HIDE DEF groups
<1>9. /\ groups = ReferenceGroups(S)
      /\ answer.uncorrelated \cap UNION ReferenceGroups(S) = {}
      /\ answer.eligible \subseteq answer.uncorrelated \cup UNION ReferenceGroups(S)
  BY <1>1, <1>5, <1>6, <1>8
<1> QED BY <1>7, <1>9 DEF answer, groups

\* Before anything is evaluated, finitely many signals have been taken in.
LEMMA ClassesInit == Init => ClassesInv
<1> SUFFICES ASSUME Init PROVE ClassesInv
  OBVIOUS
<1> DEFINE yield == [f \in handed |-> Intake(f, {}, 0).signals]
           yields == {yield[f] : f \in handed}
<1>1. handed \in SUBSET Earlier /\ IsFiniteSet(handed)
  <2>1. handed \in SUBSET Earlier /\ IsFiniteSet(Earlier)
    BY FixturesAssumption DEF Init
  <2> QED BY <2>1, FS_Subset
<1>2. signals = UNION yields
  BY DEF Init
<1>3. \A f \in handed : yield[f] = Intake(f, {}, 0).signals
  OBVIOUS
<1>4. \A f \in handed : IsFiniteSet(yield[f]) /\ Recordable(yield[f])
  BY <1>1, <1>3, IntakeRecordable
<1> HIDE DEF yield
<1>5. IsFiniteSet(yields)
  BY <1>1, ImageFinite
<1>6. \A x \in yields : IsFiniteSet(x) /\ Recordable(x)
  BY <1>4
<1> HIDE DEF yields
<1>7. IsFiniteSet(signals)
  BY <1>2, <1>5, <1>6, FS_UNION
<1>8. Recordable(signals)
  BY <1>2, <1>6 DEF Recordable
<1>9. given = {} /\ snapshot.kind # "snapshot"
  BY DEF Init, Nothing
<1> QED BY <1>1, <1>7, <1>8, <1>9 DEF ClassesInv, CandidatesAreClasses

\* An intake adds a signal of its fixture; what was shown was of fewer.
LEMMA TakeInKeepsClasses ==
  ASSUME ClassesInv, NEW f \in Arrivals, TakeIn(f)
  PROVE  ClassesInv'
<1> DEFINE taken == Intake(f, ledger, clock).signals
<1>1. /\ f \notin handed /\ handed' = handed \cup {f}
      /\ signals' = signals \cup taken
      /\ UNCHANGED <<snapshot, given>>
  BY DEF TakeIn
<1>2. IsFiniteSet(taken) /\ Recordable(taken)
  BY IntakeRecordable
<1> HIDE DEF taken
<1>3. IsFiniteSet(signals') /\ Recordable(signals')
  <2>1. IsFiniteSet(signals \cup taken)
    BY <1>2, FS_Union DEF ClassesInv
  <2> QED BY <1>1, <1>2, <2>1 DEF ClassesInv, Recordable
<1>4. given' # handed' /\ given' \subseteq handed'
  BY <1>1 DEF ClassesInv
<1>5. handed' \subseteq Earlier \cup Arrivals
  BY <1>1 DEF ClassesInv
<1> QED BY <1>3, <1>4, <1>5 DEF ClassesInv, CandidatesAreClasses

\* An evaluation shows the groups of what has been taken in, or shows nothing.
LEMMA EvaluateShowsClasses ==
  ASSUME ClassesInv, NEW previous \in {NoWindow, prior}, Evaluate(previous)
  PROVE  ClassesInv'
<1>1. /\ snapshot' = Evaluated(previous)
      /\ given' \in {given, handed} /\ UNCHANGED <<handed, signals>>
  BY DEF Evaluate, intake
<1>2. CandidatesAreClasses'
  <2>1. SUFFICES ASSUME snapshot'.kind = "snapshot" PROVE CandidatesAreClasses'
    BY DEF CandidatesAreClasses
  <2>2. LET seen == {s \in signals : s.id \in snapshot'.eligible}
        IN /\ {c.ids : c \in snapshot'.candidates} = ReferenceGroups(seen)
           /\ snapshot'.uncorrelated \cap UNION ReferenceGroups(seen) = {}
           /\ snapshot'.eligible \subseteq snapshot'.uncorrelated \cup UNION ReferenceGroups(seen)
    BY <1>1, <2>1, SnapshotGroups DEF ClassesInv
  <2> QED BY <1>1, <2>2 DEF CandidatesAreClasses
<1> QED BY <1>1, <1>2 DEF ClassesInv

\* No step leaves shown what is not the groups of the signals shown.
LEMMA ClassesStep == ClassesInv /\ [Next]_vars => ClassesInv'
<1> SUFFICES ASSUME ClassesInv, [Next]_vars PROVE ClassesInv'
  OBVIOUS
<1>1. CASE Tick \/ UNCHANGED vars
  <2>1. UNCHANGED <<handed, signals, snapshot, given>>
    BY <1>1 DEF Tick, vars, intake
  <2> QED BY <2>1 DEF ClassesInv, CandidatesAreClasses
<1> QED BY <1>1, TakeInKeepsClasses, EvaluateShowsClasses DEF Next

\* The candidates of a snapshot are the classes that chains of shared targets
\* and standing paths make of its eligible signals, each of two and more that
\* something explains, and every other signal is counted as uncorrelated.
THEOREM CandidatesAreGroups == Spec => []CandidatesAreClasses
<1>1. Spec => []ClassesInv
  BY ClassesInit, ClassesStep, PTL DEF Spec
<1>2. ClassesInv => CandidatesAreClasses
  BY DEF ClassesInv
<1> QED BY <1>1, <1>2, PTL

-----------------------------------------------------------------------------
(***************************************************************************)
(* The ledger of source records                                            *)
(*                                                                         *)
(* The inductive invariants.                                               *)
(***************************************************************************)

Shapes == store = [s \in Stores |-> store[s]]

(* Whatever of a row's evidence is stored is of the row's kind; the rest   *)
(* was named by a row of migration 0003 of that kind.                      *)
Sound(k, ids, items) ==
  \A i \in ids :
    IF i \in DOMAIN items
    THEN items[i].kind = k[1]
    ELSE \E l \in DOMAIN LegacyRows : l[1] = k[1] /\ i \in LegacyRows[l].ids

SoundRows(table) == \A k \in DOMAIN table : Sound(k, table[k].ids, evidence)

Serving == {"native", "scope", "writing", "body"}

InputsAdmitted ==
  \A s \in Stores :
    store[s].at \in Serving => /\ store[s].input \in Inputs
                               /\ Admissible(store[s].input, store[s].scope)

LedgerInv ==
  /\ Shapes
  /\ SoundRows(rows)
  /\ \A s \in Stores : SoundRows(store[s].rows)
  /\ InputsAdmitted

(* A store that no other has overtaken has its workspace's rows, and what  *)
(* it has checked outside the transaction still holds.                     *)
Loaded(s) == store[s].at \notin {"closed", "loading"} /\ s \notin outdated

Current(s) ==
  /\ \A k \in DOMAIN rows :
       rows[k].scope = store[s].scope =>
         k \in DOMAIN store[s].rows /\ store[s].rows[k] = rows[k]
  /\ store[s].at \in {"scope", "writing"} => ~NativeClash(rows, store[s].input)
  /\ store[s].at = "writing" => ~ForeignRow(store[s].input)

CurrentInv == \A s \in Stores : Loaded(s) => Current(s)

ReferenceInv == LedgerInv /\ CurrentInv /\ ReferencesUsable

-----------------------------------------------------------------------------
(* Lemmas about the operators. *)

(* Storing the evidence of an input leaves what was sound sound.           *)
LEMMA EvidenceStored ==
  ASSUME NEW in \in Inputs, \A e \in in.evidence : e.kind = in.kind,
         NEW k, NEW ids, Sound(k, ids, evidence)
  PROVE  Sound(k, ids, WithEvidence(evidence, in))
<1> DEFINE items == WithEvidence(evidence, in)
<1>1. DOMAIN items = DOMAIN evidence \cup Ids(in)
  BY DEF WithEvidence
<1>2. ASSUME NEW i \in ids
      PROVE  IF i \in DOMAIN items THEN items[i].kind = k[1]
             ELSE \E l \in DOMAIN LegacyRows : l[1] = k[1] /\ i \in LegacyRows[l].ids
  <2>1. CASE i \in DOMAIN evidence
    BY <2>1, <1>1 DEF WithEvidence, Sound
  <2>2. CASE i \notin DOMAIN evidence /\ i \in Ids(in)
    <3>1. PICK l \in DOMAIN LegacyRows : l[1] = k[1] /\ i \in LegacyRows[l].ids
      BY <2>2 DEF Sound
    <3>2. in.kind = k[1]
      BY <3>1, <2>2, LegacyAssumption
    <3>3. items[i] = CHOOSE e \in in.evidence : e.id = i
      BY <2>2, <1>1 DEF WithEvidence
    <3>4. \E e \in in.evidence : e.id = i
      BY <2>2 DEF Ids
    <3>5. items[i] \in in.evidence
      BY <3>3, <3>4
    <3> QED BY <3>2, <3>5, <1>1, <2>2
  <2>3. CASE i \notin DOMAIN evidence /\ i \notin Ids(in)
    BY <2>3, <1>1 DEF Sound
  <2> QED BY <2>1, <2>2, <2>3
<1> QED BY <1>2 DEF Sound

(* What an input brings is sound under its own key.                        *)
LEMMA OwnEvidenceSound ==
  ASSUME NEW in \in Inputs, \A e \in in.evidence : e.kind = in.kind,
         SameEvidence(in)
  PROVE  Sound(Key(in), Ids(in), WithEvidence(evidence, in))
<1> DEFINE items == WithEvidence(evidence, in)
<1>1. DOMAIN items = DOMAIN evidence \cup Ids(in)
  BY DEF WithEvidence
<1>2. Key(in)[1] = in.kind
  BY DEF Key
<1>3. ASSUME NEW i \in Ids(in) PROVE items[i].kind = in.kind
  <2>1. PICK e \in in.evidence : e.id = i
    BY DEF Ids
  <2>2. CASE i \in DOMAIN evidence
    <3>1. evidence[i] = e
      BY <2>1, <2>2 DEF SameEvidence
    <3> QED BY <3>1, <2>2, <1>1 DEF WithEvidence
  <2>3. CASE i \notin DOMAIN evidence
    <3>1. items[i] = CHOOSE d \in in.evidence : d.id = i
      BY <2>3, <1>1 DEF WithEvidence
    <3>2. items[i] \in in.evidence
      BY <3>1, <2>1
    <3> QED BY <3>2
  <2> QED BY <2>2, <2>3
<1> QED BY <1>1, <1>2, <1>3 DEF Sound

(* What the insert and the update make of the table, for a row that has    *)
(* the shape of one.                                                       *)
LEMMA WrittenRows ==
  ASSUME NEW in, NEW of, NEW ids, NEW row, row = Row(of, ids),
         NEW table, table = Updated(Inserted(in, row), in, row.ids)
  PROVE  /\ DOMAIN rows \subseteq DOMAIN table
         /\ DOMAIN table \subseteq DOMAIN rows \cup {Key(in)}
         /\ \A k \in DOMAIN rows : k # Key(in) => table[k] = rows[k]
         /\ Key(in) \in DOMAIN rows => table[Key(in)] = Row(rows[Key(in)], ids)
         /\ Key(in) \notin DOMAIN rows /\ Key(in) \in DOMAIN table => table[Key(in)] = row
         /\ Key(in) \in DOMAIN rows \/ ~NativeClash(rows, in) => Key(in) \in DOMAIN table
<1> DEFINE k0 == Key(in)
           mid == Inserted(in, row)
<1>0. row.ids = ids /\ Row(row, ids) = row
  BY DEF Row
<1>1. CASE k0 \in DOMAIN rows
  <2>1. mid = rows
    BY <1>1 DEF Inserted
  <2>2. table = [rows EXCEPT ![k0] = Row(@, ids)]
    BY <1>0, <1>1, <2>1 DEF Updated
  <2> QED BY <2>2, <1>1
<1>2. CASE k0 \notin DOMAIN rows /\ NativeClash(rows, in)
  <2>1. mid = rows
    BY <1>2 DEF Inserted
  <2>2. table = rows
    BY <1>2, <2>1 DEF Updated
  <2> QED BY <2>2, <1>2
<1>3. CASE k0 \notin DOMAIN rows /\ ~NativeClash(rows, in)
  <2>1. mid = [k \in DOMAIN rows \cup {k0} |-> IF k = k0 THEN row ELSE rows[k]]
    BY <1>3 DEF Inserted, WithRow
  <2>2. DOMAIN mid = DOMAIN rows \cup {k0} /\ mid[k0] = row
    BY <2>1
  <2>3. table = [mid EXCEPT ![k0] = Row(@, ids)]
    BY <1>0, <2>2 DEF Updated
  <2>4. table[k0] = row
    BY <1>0, <2>2, <2>3
  <2>5. \A k \in DOMAIN rows : table[k] = rows[k]
    BY <2>1, <2>3, <1>3
  <2>6. DOMAIN table = DOMAIN rows \cup {k0}
    BY <2>2, <2>3
  <2> QED BY <2>4, <2>5, <2>6, <1>3
<1> QED BY <1>1, <1>2, <1>3

-----------------------------------------------------------------------------
(* Steps that leave the tables alone. *)

(* A step of one store that gives it a record with sound rows, and an      *)
(* admitted input where one is being served, keeps the invariant.          *)
LEMMA LedgerKept ==
  ASSUME LedgerInv, NEW s \in Stores, NEW r,
         store' = [t \in Stores |-> IF t = s THEN r ELSE store[t]],
         UNCHANGED <<rows, evidence>>,
         SoundRows(r.rows),
         r.at \in Serving => r.input \in Inputs /\ Admissible(r.input, r.scope)
  PROVE  LedgerInv'
<1>1. Shapes'
  BY DEF LedgerInv, Shapes
<1>2. SoundRows(rows)'
  BY DEF LedgerInv, SoundRows
<1>3. \A t \in Stores : SoundRows(store[t].rows)'
  BY DEF LedgerInv, SoundRows
<1>4. InputsAdmitted'
  BY DEF LedgerInv, InputsAdmitted
<1> QED BY <1>1, <1>2, <1>3, <1>4 DEF LedgerInv

(* What is current of the other stores stays so while the table stays.     *)
LEMMA CurrentKept ==
  ASSUME CurrentInv, NEW s \in Stores, NEW r,
         store' = [t \in Stores |-> IF t = s THEN r ELSE store[t]],
         UNCHANGED rows, outdated \ {s} \subseteq outdated',
         Loaded(s)' => Current(s)'
  PROVE  CurrentInv'
<1> SUFFICES ASSUME NEW t \in Stores, t # s, Loaded(t)' PROVE Current(t)'
  BY DEF CurrentInv
<1>1. store'[t] = store[t]
  OBVIOUS
<1>2. Loaded(t)
  BY <1>1 DEF Loaded
<1>3. Current(t)
  BY <1>2 DEF CurrentInv
<1> QED BY <1>1, <1>3 DEF Current, NativeClash, ForeignRow

(* While the table stays, what is usable of the references stays so.       *)
LEMMA UsableKept ==
  ASSUME ReferencesUsable, UNCHANGED <<rows, references, raced>>
  PROVE  ReferencesUsable'
BY DEF ReferencesUsable, Usable

-----------------------------------------------------------------------------
(* A write. *)

(* What is true of a store that writes, and of the row it writes.          *)
LEMMA WriterFacts ==
  ASSUME LedgerInv, NEW s \in Stores, store[s].at = "writing"
  PROVE  LET in == store[s].input IN
         /\ in \in Inputs /\ in.scope = store[s].scope
         /\ \A e \in in.evidence : e.kind = in.kind
         /\ \E of : /\ Merged(store[s], in) = Row(of, Merged(store[s], in).ids)
                    /\ Key(in) \in DOMAIN store[s].rows => of = store[s].rows[Key(in)]
                    /\ Key(in) \notin DOMAIN store[s].rows => of = in
         /\ Merged(store[s], in).ids =
              (IF Key(in) \in DOMAIN store[s].rows THEN store[s].rows[Key(in)].ids ELSE {})
                \cup Ids(in)
<1> DEFINE in == store[s].input
           mem == store[s].rows
<1>1. in \in Inputs /\ in.scope = store[s].scope /\ \A e \in in.evidence : e.kind = in.kind
  BY DEF LedgerInv, InputsAdmitted, Serving, Admissible
<1>2. CASE Key(in) \in DOMAIN mem
  <2>1. Merged(store[s], in) = Row(mem[Key(in)], mem[Key(in)].ids \cup Ids(in))
    BY <1>2 DEF Merged
  <2>2. Merged(store[s], in).ids = mem[Key(in)].ids \cup Ids(in)
    BY <2>1 DEF Row
  <2> QED BY <1>1, <1>2, <2>1, <2>2
<1>3. CASE Key(in) \notin DOMAIN mem
  <2>1. Merged(store[s], in) = Row(in, Ids(in))
    BY <1>3 DEF Merged
  <2>2. Merged(store[s], in).ids = Ids(in)
    BY <2>1 DEF Row
  <2> QED BY <1>1, <1>3, <2>1, <2>2
<1> QED BY <1>2, <1>3

(* A write keeps every row, stored or copied, sound.                       *)
LEMMA WriteKeepsLedger ==
  ASSUME LedgerInv, NEW s \in Stores, Write(s)
  PROVE  LedgerInv'
<1> DEFINE in == store[s].input
           row == Merged(store[s], in)
           k0 == Key(in)
<1>1. CASE ~SameEvidence(in)
  <2>1. Moves(s, "ready") /\ UNCHANGED <<rows, evidence>>
    BY <1>1 DEF Write
  <2> DEFINE r == [at |-> "ready", scope |-> store[s].scope, rows |-> store[s].rows,
                   evidence |-> store[s].evidence, input |-> in]
  <2>2. store' = [t \in Stores |-> IF t = s THEN r ELSE store[t]]
    BY <2>1 DEF Moves, Becomes, LedgerInv, Shapes
  <2>3. r.rows = store[s].rows /\ r.at = "ready"
    OBVIOUS
  <2>4. SoundRows(r.rows) /\ r.at \notin Serving
    BY <2>3 DEF LedgerInv, Serving
  <2> HIDE DEF r
  <2> QED BY <2>1, <2>2, <2>4, LedgerKept
<1>2. CASE SameEvidence(in)
  <2> DEFINE mem == WithRow(store[s].rows, k0, row)
             at == IF in.change THEN "body" ELSE "ready"
             r == [at |-> at, scope |-> store[s].scope, rows |-> mem,
                   evidence |-> WithEvidence(store[s].evidence, in), input |-> in]
  <2>1. /\ rows' = Updated(Inserted(in, row), in, row.ids)
        /\ evidence' = WithEvidence(evidence, in)
        /\ Becomes(s, at, mem, WithEvidence(store[s].evidence, in), in)
    BY <1>2 DEF Write
  <2>2. store' = [t \in Stores |-> IF t = s THEN r ELSE store[t]]
    BY <2>1 DEF Becomes, LedgerInv, Shapes
  <2>3. /\ in \in Inputs /\ in.scope = store[s].scope
        /\ \A e \in in.evidence : e.kind = in.kind
        /\ \E of : row = Row(of, row.ids)
        /\ row.ids = (IF k0 \in DOMAIN store[s].rows THEN store[s].rows[k0].ids ELSE {})
                       \cup Ids(in)
    BY WriterFacts DEF Write
  <2>4. \A k, ids : Sound(k, ids, evidence) => Sound(k, ids, evidence')
    BY <2>1, <2>3, EvidenceStored
  <2>5. Sound(k0, row.ids, evidence')
    <3>1. Sound(k0, Ids(in), evidence')
      BY <1>2, <2>1, <2>3, OwnEvidenceSound
    <3>2. k0 \in DOMAIN store[s].rows => Sound(k0, store[s].rows[k0].ids, evidence')
      BY <2>4 DEF LedgerInv, SoundRows
    <3> QED BY <2>3, <3>1, <3>2 DEF Sound
  <2>6. SoundRows(rows)'
    <3>1. PICK of : row = Row(of, row.ids)
      BY <2>3
    <3>2. /\ DOMAIN rows' \subseteq DOMAIN rows \cup {k0}
          /\ \A k \in DOMAIN rows : k # k0 => rows'[k] = rows[k]
          /\ k0 \in DOMAIN rows => rows'[k0] = Row(rows[k0], row.ids)
          /\ k0 \notin DOMAIN rows /\ k0 \in DOMAIN rows' => rows'[k0] = row
      <4> HIDE DEF row
      <4> QED BY <2>1, <3>1, WrittenRows
    <3>3. k0 \in DOMAIN rows' => rows'[k0].ids = row.ids
      BY <3>2 DEF Row
    <3>4. ASSUME NEW k \in DOMAIN rows' PROVE Sound(k, rows'[k].ids, evidence')
      BY <2>4, <2>5, <3>2, <3>3 DEF LedgerInv, SoundRows
    <3> QED BY <3>4 DEF SoundRows
  <2>7. ASSUME NEW t \in Stores PROVE SoundRows(store[t].rows)'
    <3>1. CASE t # s
      <4>1. store'[t] = store[t]
        BY <2>2, <3>1
      <4> QED BY <4>1, <2>4 DEF LedgerInv, SoundRows
    <3>2. CASE t = s
      <4>1. store'[t].rows = mem
        BY <2>2, <3>2
      <4>2. ASSUME NEW k \in DOMAIN mem PROVE Sound(k, mem[k].ids, evidence')
        BY <2>4, <2>5 DEF WithRow, LedgerInv, SoundRows
      <4> QED BY <4>1, <4>2 DEF SoundRows
    <3> QED BY <3>1, <3>2
  <2>8. InputsAdmitted'
    <3>1. Admissible(in, store[s].scope)
      BY DEF Write, LedgerInv, InputsAdmitted, Serving
    <3>2. ASSUME NEW t \in Stores, store'[t].at \in Serving
          PROVE  store'[t].input \in Inputs /\ Admissible(store'[t].input, store'[t].scope)
      BY <2>2, <2>3, <3>1, <3>2 DEF LedgerInv, InputsAdmitted
    <3> QED BY <3>2 DEF InputsAdmitted
  <2>9. Shapes'
    BY <2>2 DEF Shapes
  <2> QED BY <2>6, <2>7, <2>8, <2>9 DEF LedgerInv
<1> QED BY <1>1, <1>2

(* What a write of a store that nothing has overtaken makes of its row and *)
(* of its copy.                                                            *)
LEMMA CurrentWrite ==
  ASSUME LedgerInv, CurrentInv, NEW s \in Stores, Write(s), s \notin outdated,
         NEW in, in = store[s].input, SameEvidence(in),
         NEW row, row = Merged(store[s], in)
  PROVE  /\ Key(in) \in DOMAIN rows' /\ rows'[Key(in)] = row
         /\ DOMAIN rows' = DOMAIN rows \cup {Key(in)}
         /\ \A k \in DOMAIN rows : k # Key(in) => rows'[k] = rows[k]
         /\ Key(in) \in DOMAIN rows =>
              /\ row.native = rows[Key(in)].native /\ row.scope = rows[Key(in)].scope
              /\ rows[Key(in)].ids \subseteq row.ids
<1> DEFINE k0 == Key(in)
<1>1. rows' = Updated(Inserted(in, row), in, row.ids)
  BY DEF Write
<1>2. Current(s) /\ store[s].at = "writing"
  BY DEF Write, CurrentInv, Loaded
<1>3. ~NativeClash(rows, in) /\ ~ForeignRow(in)
  BY <1>2 DEF Current
<1>4. in.scope = store[s].scope
  BY <1>2, WriterFacts
<1>5. PICK of : /\ row = Row(of, row.ids)
                /\ k0 \in DOMAIN store[s].rows => of = store[s].rows[k0]
  BY <1>2, WriterFacts
<1>6. /\ DOMAIN rows' = DOMAIN rows \cup {k0}
      /\ \A k \in DOMAIN rows : k # k0 => rows'[k] = rows[k]
      /\ k0 \in DOMAIN rows => rows'[k0] = Row(rows[k0], row.ids)
      /\ k0 \notin DOMAIN rows => rows'[k0] = row
  <2>1. /\ DOMAIN rows \subseteq DOMAIN rows'
        /\ DOMAIN rows' \subseteq DOMAIN rows \cup {k0}
        /\ \A k \in DOMAIN rows : k # k0 => rows'[k] = rows[k]
        /\ k0 \in DOMAIN rows => rows'[k0] = Row(rows[k0], row.ids)
        /\ k0 \notin DOMAIN rows /\ k0 \in DOMAIN rows' => rows'[k0] = row
        /\ k0 \in DOMAIN rows \/ ~NativeClash(rows, in) => k0 \in DOMAIN rows'
    BY <1>1, <1>5, WrittenRows
  <2> QED BY <1>3, <2>1
<1>7. CASE k0 \in DOMAIN rows
  <2>1. k0 \in DOMAIN store[s].rows /\ store[s].rows[k0] = rows[k0]
    BY <1>2, <1>3, <1>4, <1>7 DEF Current, ForeignRow
  <2>2. row = Row(rows[k0], row.ids)
    BY <1>5, <2>1
  <2>3. rows[k0].ids \subseteq row.ids
    <3>1. row.ids = store[s].rows[k0].ids \cup Ids(in)
      BY <1>2, <2>1, WriterFacts
    <3> QED BY <2>1, <3>1
  <2>4. row.native = rows[k0].native /\ row.scope = rows[k0].scope
    BY <2>2 DEF Row
  <2> QED BY <1>6, <1>7, <2>2, <2>3, <2>4
<1>8. CASE k0 \notin DOMAIN rows
  BY <1>6, <1>8
<1> QED BY <1>7, <1>8

(* A write overtakes every other open store; the writer stays current.     *)
LEMMA WriteKeepsCurrent ==
  ASSUME LedgerInv, CurrentInv, NEW s \in Stores, Write(s)
  PROVE  CurrentInv'
<1> DEFINE in == store[s].input
           row == Merged(store[s], in)
           k0 == Key(in)
<1>1. CASE ~SameEvidence(in)
  <2>1. Moves(s, "ready") /\ UNCHANGED <<rows, outdated>>
    BY <1>1 DEF Write
  <2> DEFINE r == [at |-> "ready", scope |-> store[s].scope, rows |-> store[s].rows,
                   evidence |-> store[s].evidence, input |-> in]
  <2>2. store' = [t \in Stores |-> IF t = s THEN r ELSE store[t]]
    BY <2>1 DEF Moves, Becomes, LedgerInv, Shapes
  <2>3. Loaded(s)' => Current(s)'
    <3>1. store[s].at = "writing"
      BY DEF Write
    <3> QED BY <2>1, <2>2, <3>1 DEF Loaded, CurrentInv, Current
  <2> HIDE DEF r
  <2> QED BY <2>1, <2>2, <2>3, CurrentKept
<1>2. CASE SameEvidence(in)
  <2> DEFINE mem == WithRow(store[s].rows, k0, row)
             at == IF in.change THEN "body" ELSE "ready"
             r == [at |-> at, scope |-> store[s].scope, rows |-> mem,
                   evidence |-> WithEvidence(store[s].evidence, in), input |-> in]
  <2>1. /\ outdated' = outdated \cup {t \in Stores \ {s} : store[t].at # "closed"}
        /\ Becomes(s, at, mem, WithEvidence(store[s].evidence, in), in)
    BY <1>2 DEF Write
  <2>2. store' = [t \in Stores |-> IF t = s THEN r ELSE store[t]]
    BY <2>1 DEF Becomes, LedgerInv, Shapes
  <2>3. ASSUME NEW t \in Stores, t # s PROVE ~Loaded(t)'
    <3>1. store'[t] = store[t]
      BY <2>2, <2>3
    <3> QED BY <2>1, <2>3, <3>1 DEF Loaded
  <2>4. ASSUME Loaded(s)' PROVE Current(s)'
    <3>1. s \notin outdated /\ store[s].at = "writing"
      BY <2>1, <2>4 DEF Loaded, Write
    <3>2. /\ k0 \in DOMAIN rows' /\ rows'[k0] = row
          /\ DOMAIN rows' = DOMAIN rows \cup {k0}
          /\ \A k \in DOMAIN rows : k # k0 => rows'[k] = rows[k]
      BY <1>2, <3>1, CurrentWrite
    <3>3. /\ store'[s].rows = mem /\ store'[s].scope = store[s].scope
          /\ store'[s].at \in {"body", "ready"}
      BY <2>2
    <3>4. Current(s)
      BY <3>1 DEF Loaded, CurrentInv
    <3>5. ASSUME NEW k \in DOMAIN rows', rows'[k].scope = store[s].scope
          PROVE  k \in DOMAIN mem /\ mem[k] = rows'[k]
      <4>1. CASE k = k0
        BY <4>1, <3>2 DEF WithRow
      <4>2. CASE k # k0
        <5>1. k \in DOMAIN rows /\ rows'[k] = rows[k]
          BY <4>2, <3>2
        <5>2. k \in DOMAIN store[s].rows /\ store[s].rows[k] = rows[k]
          BY <5>1, <3>4, <3>5 DEF Current
        <5> QED BY <5>1, <5>2, <4>2 DEF WithRow
      <4> QED BY <4>1, <4>2
    <3> HIDE DEF mem
    <3> QED BY <3>3, <3>5 DEF Current
  <2> QED BY <2>3, <2>4 DEF CurrentInv
<1> QED BY <1>1, <1>2

(* A write leaves usable what was, and what it returns is usable, unless   *)
(* it has overtaken a write it did not see.                                *)
LEMMA WriteKeepsReferences ==
  ASSUME ReferenceInv, NEW s \in Stores, Write(s)
  PROVE  ReferencesUsable'
<1> DEFINE in == store[s].input
           row == Merged(store[s], in)
           k0 == Key(in)
<1>1. CASE ~SameEvidence(in)
  <2>1. UNCHANGED <<rows, references, raced>>
    BY <1>1 DEF Write
  <2> QED BY <2>1, UsableKept DEF ReferenceInv
<1>2. CASE SameEvidence(in)
  <2>1. references' = references \cup {Reference(in, row)} /\ raced' = (raced \/ s \in outdated)
    BY <1>2 DEF Write
  <2> SUFFICES ASSUME ~raced', NEW q \in references' PROVE Usable(q)'
    BY DEF ReferencesUsable
  <2>2. ~raced /\ s \notin outdated
    BY <2>1
  <2>3. /\ k0 \in DOMAIN rows' /\ rows'[k0] = row
        /\ DOMAIN rows' = DOMAIN rows \cup {k0}
        /\ \A k \in DOMAIN rows : k # k0 => rows'[k] = rows[k]
        /\ k0 \in DOMAIN rows =>
             /\ row.native = rows[k0].native /\ row.scope = rows[k0].scope
             /\ rows[k0].ids \subseteq row.ids
    BY <1>2, <2>2, CurrentWrite DEF ReferenceInv
  <2>4. CASE q \in references
    <3>1. Usable(q)
      BY <2>2, <2>4 DEF ReferenceInv, ReferencesUsable
    <3> HIDE DEF row
    <3>2. CASE q.key = k0
      BY <3>1, <3>2, <2>3 DEF Usable
    <3>3. CASE q.key # k0
      BY <3>1, <3>3, <2>3 DEF Usable
    <3> QED BY <3>2, <3>3
  <2>5. CASE q = Reference(in, row)
    <3> HIDE DEF row
    <3> QED BY <2>3, <2>5 DEF Usable, Reference
  <2> QED BY <2>1, <2>4, <2>5
<1> QED BY <1>1, <1>2

-----------------------------------------------------------------------------
(* The other steps. *)

(* What every step but a write does: one store gets a record whose rows    *)
(* are sound and current, and the tables stay.                             *)
Quiet(s) ==
  /\ UNCHANGED <<rows, evidence, references, raced>> /\ outdated \ {s} \subseteq outdated'
  /\ \E r : /\ store' = [t \in Stores |-> IF t = s THEN r ELSE store[t]]
            /\ SoundRows(r.rows)
            /\ r.at \in Serving => r.input \in Inputs /\ Admissible(r.input, r.scope)
  /\ Loaded(s)' => Current(s)'

(* Opening, loading and closing a store are such steps.                    *)
LEMMA OpenIsQuiet ==
  ASSUME LedgerInv, NEW s \in Stores,
         (\E scope \in Scopes : Open(s, scope)) \/ LoadRows(s) \/ Close(s)
  PROVE  Quiet(s)
<1>1. SoundRows(Empty)
  BY DEF SoundRows, Empty
<1>2. ASSUME Close(s) \/ (LoadRows(s) /\ store' = [store EXCEPT ![s] = ClosedStore])
      PROVE  Quiet(s)
  <2>1. store' = [t \in Stores |-> IF t = s THEN ClosedStore ELSE store[t]]
    BY <1>2 DEF Close, LedgerInv, Shapes
  <2>2. ClosedStore.at = "closed" /\ ClosedStore.rows = Empty
    BY DEF ClosedStore
  <2>3. ~Loaded(s)'
    BY <2>1, <2>2 DEF Loaded
  <2>4. SoundRows(ClosedStore.rows) /\ ClosedStore.at \notin Serving
    BY <1>1, <2>2 DEF Serving
  <2>5. UNCHANGED <<rows, evidence, references, raced>> /\ outdated \ {s} \subseteq outdated'
    BY <1>2 DEF Close, LoadRows
  <2> QED BY <2>1, <2>3, <2>4, <2>5 DEF Quiet
<1>3. ASSUME NEW scope \in Scopes, Open(s, scope) PROVE Quiet(s)
  <2> DEFINE r == [at |-> "loading", scope |-> scope, rows |-> Empty,
                   evidence |-> EvidenceIn(scope), input |-> None]
  <2>1. store' = [t \in Stores |-> IF t = s THEN r ELSE store[t]]
    BY <1>3 DEF Open, LedgerInv, Shapes
  <2>2. r.at = "loading" /\ r.rows = Empty
    OBVIOUS
  <2> HIDE DEF r
  <2>3. ~Loaded(s)'
    BY <2>1, <2>2 DEF Loaded
  <2>4. SoundRows(r.rows) /\ r.at \notin Serving
    BY <1>1, <2>2 DEF Serving
  <2>5. UNCHANGED <<rows, evidence, references, raced>> /\ outdated \ {s} \subseteq outdated'
    BY <1>3 DEF Open
  <2> QED BY <2>1, <2>3, <2>4, <2>5 DEF Quiet
<1>4. ASSUME LoadRows(s), store' # [store EXCEPT ![s] = ClosedStore] PROVE Quiet(s)
  <2> DEFINE seen == RowsIn(store[s].scope)
             r == [at |-> "ready", scope |-> store[s].scope, rows |-> seen,
                   evidence |-> store[s].evidence, input |-> None]
  <2>1. store' = [t \in Stores |-> IF t = s THEN r ELSE store[t]]
    BY <1>4 DEF LoadRows, Becomes, LedgerInv, Shapes
  <2>2. r.at = "ready" /\ r.rows = seen /\ r.scope = store[s].scope
    OBVIOUS
  <2> HIDE DEF r
  <2>3. UNCHANGED <<rows, evidence, references, raced, outdated>>
    BY <1>4 DEF LoadRows
  <2>4. /\ DOMAIN seen = {k \in DOMAIN rows : rows[k].scope = store[s].scope}
        /\ \A k \in DOMAIN seen : seen[k] = rows[k]
    BY DEF RowsIn, Restrict
  <2> HIDE DEF seen
  <2>5. SoundRows(r.rows) /\ r.at \notin Serving
    BY <2>2, <2>4 DEF Serving, SoundRows, LedgerInv
  <2>6. Current(s)'
    BY <2>1, <2>2, <2>3, <2>4 DEF Current
  <2> QED BY <2>1, <2>3, <2>5, <2>6 DEF Quiet
<1> QED BY <1>2, <1>3, <1>4

(* So are the steps that serve an input without writing.                   *)
LEMMA ServingIsQuiet ==
  ASSUME LedgerInv, CurrentInv, NEW s \in Stores,
         \/ \E in \in Inputs : Retain(s, in)
         \/ CheckNative(s) \/ CheckScope(s) \/ PersistBody(s) \/ Busy(s)
  PROVE  Quiet(s)
<1>1. /\ UNCHANGED <<rows, evidence, references, raced>> /\ outdated' = outdated
      /\ store[s].at \notin {"closed", "loading"}
  BY DEF Retain, CheckNative, CheckScope, PersistBody, Busy
<1>2. s \notin outdated =>
        \A k \in DOMAIN rows :
          rows[k].scope = store[s].scope =>
            k \in DOMAIN store[s].rows /\ store[s].rows[k] = rows[k]
  BY <1>1 DEF CurrentInv, Current, Loaded
<1>3. SoundRows(store[s].rows)
  BY DEF LedgerInv
<1>4. ASSUME NEW at, NEW in,
             store' = [store EXCEPT ![s] =
               [at |-> at, scope |-> store[s].scope, rows |-> store[s].rows,
                evidence |-> store[s].evidence, input |-> in]],
             at \in Serving => in \in Inputs /\ Admissible(in, store[s].scope),
             s \notin outdated =>
               /\ at \in {"scope", "writing"} => ~NativeClash(rows, in)
               /\ at = "writing" => ~ForeignRow(in)
      PROVE  Quiet(s)
  <2> DEFINE r == [at |-> at, scope |-> store[s].scope, rows |-> store[s].rows,
                   evidence |-> store[s].evidence, input |-> in]
  <2>1. store' = [t \in Stores |-> IF t = s THEN r ELSE store[t]]
    BY <1>4 DEF LedgerInv, Shapes
  <2>2. /\ r.at = at /\ r.input = in
        /\ r.rows = store[s].rows /\ r.scope = store[s].scope
    OBVIOUS
  <2> HIDE DEF r
  <2>3. SoundRows(r.rows)
        /\ (r.at \in Serving => r.input \in Inputs /\ Admissible(r.input, r.scope))
    BY <1>3, <1>4, <2>2
  <2>4. ASSUME Loaded(s)' PROVE Current(s)'
    <3>1. s \notin outdated
      BY <1>1, <2>4 DEF Loaded
    <3>2. store'[s] = r
      BY <2>1
    <3>3. /\ at \in {"scope", "writing"} => ~NativeClash(rows', in)
          /\ at = "writing" => ~ForeignRow(in)
      BY <1>1, <1>4, <3>1 DEF NativeClash
    <3> QED BY <1>1, <1>2, <2>2, <3>1, <3>2, <3>3 DEF Current, ForeignRow
  <2> QED BY <1>1, <2>1, <2>3, <2>4 DEF Quiet
<1>5. store[s].at \in Serving =>
        store[s].input \in Inputs /\ Admissible(store[s].input, store[s].scope)
  BY DEF LedgerInv, InputsAdmitted
<1>6. CASE store' = store /\ store[s].at = "ready"
  <2>1. store' = [t \in Stores |-> IF t = s THEN store[s] ELSE store[t]]
    BY <1>6 DEF LedgerInv, Shapes
  <2>2. store[s].at \notin Serving
    BY <1>6 DEF Serving
  <2>3. Loaded(s)' => Current(s)'
    BY <1>1, <1>2, <1>6 DEF Loaded, Current
  <2> QED BY <1>1, <1>3, <2>1, <2>2, <2>3 DEF Quiet
<1>7. ASSUME NEW in \in Inputs, Retain(s, in), store' # store PROVE Quiet(s)
  <2>1. /\ Admissible(in, store[s].scope)
        /\ Becomes(s, "native", store[s].rows, store[s].evidence, in)
    BY <1>7 DEF Retain
  <2>2. store' = [store EXCEPT ![s] =
          [at |-> "native", scope |-> store[s].scope, rows |-> store[s].rows,
           evidence |-> store[s].evidence, input |-> in]]
    BY <2>1 DEF Becomes
  <2>3. "native" \notin {"scope", "writing"} /\ "native" # "writing"
    OBVIOUS
  <2> QED BY <1>4, <1>7, <2>1, <2>2, <2>3
<1>8. CASE CheckNative(s)
  BY <1>4, <1>5, <1>8 DEF CheckNative, Moves, Becomes, Serving
<1>9. CASE CheckScope(s)
  <2>1. s \notin outdated => ~NativeClash(rows, store[s].input)
    BY <1>9 DEF CheckScope, CurrentInv, Current, Loaded
  <2> QED BY <1>4, <1>5, <1>9, <2>1 DEF CheckScope, Moves, Becomes, Serving
<1>10. CASE PersistBody(s) \/ Busy(s)
  <2>1. "ready" \notin Serving
    BY DEF Serving
  <2> QED BY <1>4, <1>10, <2>1 DEF PersistBody, Busy, Moves, Becomes
<1>11. ASSUME NEW in \in Inputs, Retain(s, in), store' = store PROVE store[s].at = "ready"
  BY <1>11 DEF Retain
<1> QED BY <1>6, <1>7, <1>8, <1>9, <1>10, <1>11

-----------------------------------------------------------------------------
(* The invariants, and what follows from them. *)

(* The table of an elder file is sound, and no store is open.              *)
LEMMA InitReferenceInv == LedgerInit => ReferenceInv
<1> SUFFICES ASSUME LedgerInit PROVE ReferenceInv
  OBVIOUS
<1> USE DEF LedgerInit
<1>1. \A s \in Stores : store[s] = ClosedStore
  OBVIOUS
<1>2. ClosedStore.at = "closed" /\ ClosedStore.rows = Empty /\ DOMAIN Empty = {}
  BY DEF ClosedStore, Empty
<1>3. SoundRows(rows)
  <2>1. CASE rows = Empty
    BY <2>1, <1>2 DEF SoundRows
  <2>2. CASE rows = LegacyRows
    <3>1. \A k \in DOMAIN LegacyRows : Sound(k, LegacyRows[k].ids, Empty)
      BY <1>2 DEF Sound
    <3> QED BY <2>2, <3>1 DEF SoundRows
  <2> QED BY <2>1, <2>2
<1>4. \A s \in Stores : SoundRows(store[s].rows)
  BY <1>1, <1>2 DEF SoundRows
<1>5. InputsAdmitted /\ CurrentInv
  BY <1>1, <1>2 DEF InputsAdmitted, Serving, CurrentInv, Loaded
<1>6. Shapes /\ ReferencesUsable
  BY DEF Shapes, ReferencesUsable
<1> QED BY <1>3, <1>4, <1>5, <1>6 DEF ReferenceInv, LedgerInv

(* Every step keeps them.                                                  *)
LEMMA NextReferenceInv == ReferenceInv /\ [LedgerNext]_ledgerVars => ReferenceInv'
<1> SUFFICES ASSUME ReferenceInv, [LedgerNext]_ledgerVars PROVE ReferenceInv'
  OBVIOUS
<1> USE DEF ReferenceInv
<1>1. ASSUME NEW s \in Stores, Write(s) PROVE ReferenceInv'
  BY <1>1, WriteKeepsLedger, WriteKeepsCurrent, WriteKeepsReferences
<1>2. ASSUME NEW s \in Stores, Quiet(s) PROVE ReferenceInv'
  <2>1. PICK r : /\ store' = [t \in Stores |-> IF t = s THEN r ELSE store[t]]
                 /\ SoundRows(r.rows)
                 /\ r.at \in Serving => r.input \in Inputs /\ Admissible(r.input, r.scope)
    BY <1>2 DEF Quiet
  <2>2. UNCHANGED <<rows, evidence, references, raced>> /\ outdated \ {s} \subseteq outdated'
        /\ (Loaded(s)' => Current(s)')
    BY <1>2 DEF Quiet
  <2>3. LedgerInv'
    BY <2>1, <2>2, LedgerKept
  <2>4. CurrentInv'
    BY <2>1, <2>2, CurrentKept
  <2>5. ReferencesUsable'
    BY <2>2, UsableKept
  <2> QED BY <2>3, <2>4, <2>5
<1>3. ASSUME NEW s \in Stores,
             \/ \E scope \in Scopes : Open(s, scope)
             \/ LoadRows(s) \/ \E in \in Inputs : Retain(s, in)
             \/ CheckNative(s) \/ CheckScope(s) \/ PersistBody(s) \/ Busy(s) \/ Close(s)
      PROVE  Quiet(s)
  BY <1>3, OpenIsQuiet, ServingIsQuiet
<1>4. CASE UNCHANGED ledgerVars
  BY <1>4 DEF ledgerVars, LedgerInv, Shapes, SoundRows, InputsAdmitted, CurrentInv, Loaded,
              Current, NativeClash, ForeignRow, ReferencesUsable, Usable
<1> QED BY <1>1, <1>2, <1>3, <1>4 DEF LedgerNext

(* Sound rows load: every identifier found is of the row's kind, and the   *)
(* evidence a workspace loads is of its scope.                             *)
LEMMA SoundLoads == SoundRows(rows) => LedgerOpens
<1> SUFFICES ASSUME SoundRows(rows), NEW k \in DOMAIN rows,
                    NEW i \in rows[k].ids \cap DOMAIN EvidenceIn(rows[k].scope)
             PROVE  /\ EvidenceIn(rows[k].scope)[i].kind = k[1]
                    /\ EvidenceIn(rows[k].scope)[i].scope = rows[k].scope
  BY DEF LedgerOpens, Loadable
<1>1. /\ i \in DOMAIN evidence /\ evidence[i].scope = rows[k].scope
      /\ EvidenceIn(rows[k].scope)[i] = evidence[i]
  BY DEF EvidenceIn, Restrict
<1>2. Sound(k, rows[k].ids, evidence)
  BY DEF SoundRows
<1> QED BY <1>1, <1>2 DEF Sound

(* Whatever the stores, workspaces and inputs, a ledger that has only been *)
(* written by the code can be opened again: no interleaving of overlapping *)
(* stores, refusals, failures and ends of commands leaves a row that       *)
(* load_connection refuses.                                                *)
THEOREM LedgerStaysOpen == LedgerSpec => []LedgerOpens
<1>1. LedgerSpec => []ReferenceInv
  BY InitReferenceInv, NextReferenceInv, PTL DEF LedgerSpec
<1>2. ReferenceInv => LedgerOpens
  BY SoundLoads DEF ReferenceInv, LedgerInv
<1> QED BY <1>1, <1>2, PTL

(* Every reference that retain has returned keeps naming a stored row and  *)
(* evidence the row names, until a store writes that has not seen another  *)
(* one's write.                                                            *)
THEOREM ReferencesStayUsable == LedgerSpec => []ReferencesUsable
<1>1. LedgerSpec => []ReferenceInv
  BY InitReferenceInv, NextReferenceInv, PTL DEF LedgerSpec
<1>2. ReferenceInv => ReferencesUsable
  BY DEF ReferenceInv
<1> QED BY <1>1, <1>2, PTL
=============================================================================
