--------------------------- MODULE ChangeProofs ---------------------------
(***************************************************************************)
(* What is proved of the change commands, for any fixtures, requests,      *)
(* candidates and topology paths, and however the process ends in between: *)
(* that what is shown is exact, that a command asked again answers the     *)
(* same, and that the evidence of every entry is found in the ledger.      *)
(***************************************************************************)
EXTENDS Change, SequenceTheorems, FiniteSetTheorems, WellFoundedInduction,
        TLAPS

RowSet == [source : DOMAIN Kinds, native : STRING]
Recorded == {Event(Stripped(p)) : p \in Payload}

\* No two events share their identifier.
Identified(shown) == \A e, f \in shown : e.id = f.id => e = f

Entries(shown, line) == {e \in shown : e.id \in line.entries}

AllAssociations(entries, over, lookback) ==
  UNION {Associate(entries, c, lookback) : c \in over}

(* A timeline is that of the events shown, and the associations are those  *)
(* of its entries with the candidates over.                                *)
Projected(shown, r, line, found, over) ==
  /\ Identified(shown)
  /\ line = Timeline(shown, r)
  /\ found = AllAssociations(Entries(shown, line), over, r.lookback)

LedgerInv ==
  /\ pc \in {"idle", "replay", "associate"}
  /\ catalog \in Seq(Payload) /\ rest \in Seq(Payload)
  /\ events \in Seq(Recorded)
  /\ rows \in [DOMAIN rows -> RowSet]

ProjectionInv ==
  /\ pc # "idle" => command \in Commands /\ ValidRequest(command.request)
  /\ pc = "replay" => left = Candidates /\ associations = {}
  /\ pc = "associate" =>
       /\ left \subseteq Candidates
       /\ Projected(Shown, command.request, timeline, associations, Candidates \ left)
  /\ Answered =>
       /\ command \in Commands /\ ValidRequest(command.request)
       /\ answer.events \subseteq Recorded /\ IsFiniteSet(answer.events)
       /\ Projected(answer.events, command.request, answer.timeline, answer.associations,
                    Candidates)
       /\ answer.metrics = Metrics(Entries(answer.events, answer.timeline), answer.associations)

-----------------------------------------------------------------------------
(***************************************************************************)
(* Least elements                                                          *)
(***************************************************************************)
Less == {x \in Nat \X Nat : x[1] < x[2]}

\* A set of natural numbers has a least one.
LEMMA LeastNatural ==
  ASSUME NEW T, T \subseteq Nat, T # {}
  PROVE  \E n \in T : \A m \in T : n <= m
<1>1. Less = OpToRel(<, Nat)
  BY DEF Less, OpToRel
<1>2. IsWellFoundedOn(Less, Nat)
  BY <1>1, NatLessThanWellFounded
<1>3. PICK n \in T : \A m \in T : <<m, n>> \notin Less
  BY <1>2, WFMin
<1>4. ASSUME NEW m \in T PROVE n <= m
  <2>1. <<m, n>> \in Less <=> m < n
    BY DEF Less
  <2>2. ~(m < n)
    BY <1>3, <2>1
  <2>3. m \in Nat /\ n \in Nat
    OBVIOUS
  <2> QED BY <2>2, <2>3
<1> QED BY <1>4

\* The earliest signal is one of those observed, and none is before it.
LEMMA EarliestIsLeast ==
  ASSUME NEW c \in Candidates, Observed(c) # {}
  PROVE  /\ EarliestObserved(c) \in Observed(c)
         /\ \A t \in Observed(c) : EarliestObserved(c) <= t
         /\ Observed(c) \subseteq Nat
<1>1. Observed(c) \subseteq Nat
  BY CandidatesAssumption
<1>2. \E n \in Observed(c) : \A m \in Observed(c) : n <= m
  BY <1>1, LeastNatural
<1> QED BY <1>1, <1>2 DEF EarliestObserved, Min

-----------------------------------------------------------------------------
(***************************************************************************)
(* The timeline: the newest entries of the window.                         *)
(***************************************************************************)
\* Events have an instant and an identifier, both numbers.
Dated(shown) == \A e \in shown : e.at \in Nat /\ e.id \in Nat

Followers(window, e) == {f \in window : Precedes(e, f)}

\* Of a window that is not empty some entry precedes all the others.
LEMMA OldestPrecedes ==
  ASSUME NEW W, W # {}, Dated(W), Identified(W)
  PROVE  \E m \in W : Followers(W, m) = W \ {m}
<1>1. PICK at \in {e.at : e \in W} : \A x \in {e.at : e \in W} : at <= x
  <2>1. {e.at : e \in W} \subseteq Nat /\ {e.at : e \in W} # {}
    BY DEF Dated
  <2> QED BY <2>1, LeastNatural
<1> DEFINE First == {e \in W : e.at = at}
<1>2. PICK id \in {e.id : e \in First} : \A x \in {e.id : e \in First} : id <= x
  <2>1. {e.id : e \in First} \subseteq Nat /\ {e.id : e \in First} # {}
    BY <1>1 DEF Dated
  <2> HIDE DEF First
  <2> QED BY <2>1, LeastNatural
<1>3. PICK m \in W : m.at = at /\ m.id = id
  BY <1>2
<1>4. ASSUME NEW f \in W, f # m PROVE Precedes(m, f)
  <2>1. f.id # id /\ f.id \in Nat /\ f.at \in Nat /\ at \in Nat /\ id \in Nat
    BY <1>1, <1>2, <1>3, <1>4 DEF Dated, Identified
  <2>2. at <= f.at
    BY <1>1
  <2>3. f.at = at => id <= f.id
    BY <1>2
  <2> QED BY <1>3, <2>1, <2>2, <2>3 DEF Precedes
<1>5. ~Precedes(m, m)
  BY DEF Precedes, Dated
<1> QED BY <1>4, <1>5 DEF Followers

\* Two different entries come one before the other, and what follows the later follows the earlier.
LEMMA PrecedesOrders ==
  ASSUME NEW W, Dated(W), Identified(W), NEW e \in W, NEW f \in W
  PROVE  /\ e = f \/ Precedes(e, f) \/ Precedes(f, e)
         /\ Precedes(f, e) => Followers(W, e) \subseteq Followers(W, f)
         /\ Followers(W, e) \subseteq W \ {e}
<1>1. e.at \in Nat /\ e.id \in Nat /\ f.at \in Nat /\ f.id \in Nat
  BY DEF Dated
<1>2. e.id = f.id => e = f
  BY DEF Identified
<1>3. ASSUME Precedes(f, e), NEW g \in W, Precedes(e, g) PROVE Precedes(f, g)
  <2>1. g.at \in Nat /\ g.id \in Nat
    BY DEF Dated
  <2> QED BY <1>1, <1>3, <2>1 DEF Precedes
<1>4. ~Precedes(e, e)
  BY <1>1 DEF Precedes
<1> QED BY <1>1, <1>2, <1>3, <1>4 DEF Followers, Precedes

\* The newest of a window are followed by all that is left out by none, and all are kept when they are few.
LEMMA NewestAreNewest ==
  ASSUME NEW W, IsFiniteSet(W), Dated(W), Identified(W), NEW limit \in Nat, limit > 0
  PROVE  LET N == Newest(W, limit)
         IN /\ N \subseteq W
            /\ \A e \in N, f \in W : f \in N \/ Precedes(f, e)
            /\ (Cardinality(W) > limit) <=> N # W
<1> DEFINE N == Newest(W, limit)
           After(e) == Cardinality(Followers(W, e))
<1>1. N = {e \in W : After(e) < limit}
  BY DEF Newest, Followers
<1>2. ASSUME NEW e \in W
      PROVE  /\ IsFiniteSet(Followers(W, e)) /\ After(e) \in Nat
             /\ After(e) <= Cardinality(W) - 1
  <2>1. Followers(W, e) \in SUBSET (W \ {e})
    BY PrecedesOrders
  <2>2. IsFiniteSet(W \ {e}) /\ Cardinality(W \ {e}) = Cardinality(W) - 1
    BY FS_RemoveElement
  <2> QED BY <2>1, <2>2, FS_Subset, FS_CardinalityType
<1>3. Cardinality(W) \in Nat
  BY FS_CardinalityType
<1>4. ASSUME NEW e \in N, NEW f \in W, ~Precedes(f, e)
      PROVE  f \in N
  <2>1. e \in W /\ After(e) < limit
    BY <1>1
  <2>2. e = f \/ Precedes(e, f)
    BY <1>4, <2>1, PrecedesOrders
  <2>3. Precedes(e, f) => Followers(W, f) \in SUBSET Followers(W, e)
    BY <2>1, PrecedesOrders
  <2>4. Precedes(e, f) => After(f) <= After(e)
    BY <1>2, <2>1, <2>3, FS_Subset
  <2>5. After(e) \in Nat /\ After(f) \in Nat
    BY <1>2, <2>1
  <2>6. Precedes(e, f) => After(f) < limit
    <3> HIDE DEF After
    <3> QED BY <2>1, <2>4, <2>5
  <2> QED BY <1>1, <2>1, <2>2, <2>6
<1>5. ASSUME Cardinality(W) > limit PROVE N # W
  <2>1. W # {}
    BY <1>5, FS_EmptySet
  <2>2. PICK m \in W : Followers(W, m) = W \ {m}
    BY <2>1, OldestPrecedes
  <2>3. After(m) = Cardinality(W) - 1
    BY <2>2, FS_RemoveElement
  <2>4. ~(After(m) < limit)
    <3> HIDE DEF After
    <3> QED BY <1>3, <1>5, <2>3
  <2> QED BY <1>1, <2>4
<1>6. ASSUME N # W PROVE Cardinality(W) > limit
  <2>1. PICK e \in W : ~(After(e) < limit)
    BY <1>1, <1>6
  <2>2. After(e) \in Nat /\ After(e) <= Cardinality(W) - 1
    BY <1>2
  <2> HIDE DEF After
  <2> QED BY <1>3, <2>1, <2>2
<1> HIDE DEF After
<1> QED BY <1>1, <1>4, <1>5, <1>6

\* The entries named by a timeline are the newest of its window.
LEMMA TimelineEntries ==
  ASSUME NEW shown, Identified(shown), NEW r
  PROVE  LET window == {e \in shown : InWindow(e, r)}
         IN Entries(shown, Timeline(shown, r)) = Newest(window, r.limit)
<1> DEFINE window == {e \in shown : InWindow(e, r)}
           N == Newest(window, r.limit)
<1>1. N \subseteq shown
  BY DEF Newest
<1>2. Timeline(shown, r).entries = {e.id : e \in N}
  BY DEF Timeline
<1> HIDE DEF N
<1>3. \A e \in shown : e.id \in {f.id : f \in N} <=> e \in N
  BY <1>1 DEF Identified
<1> QED BY <1>1, <1>2, <1>3 DEF Entries, N

-----------------------------------------------------------------------------
(***************************************************************************)
(* Associations                                                            *)
(***************************************************************************)
\* An event is explained by a shared target or by a path of one content.
LEMMA ExplainedBy ==
  ASSUME NEW e, NEW c
  PROVE  /\ Explain(e, c) # {} <=>
              e.targets \cap c.targets # {} \/ Unambiguous(Relations(e, c)) # {}
         /\ \A a \in Explain(e, c) : a.change = e.id /\ a.candidate = c.id
<1> DEFINE exact == e.targets \cap c.targets
           paths == IF exact = {} THEN Unambiguous(Relations(e, c)) ELSE {}
           target == IF exact = {} THEN "none" ELSE CHOOSE t \in exact : TRUE
<1>1. Explain(e, c) = IF exact = {} /\ paths = {} THEN {} ELSE {Association(e, c, target, paths)}
  BY DEF Explain
<1>2. Association(e, c, target, paths).change = e.id /\ Association(e, c, target, paths).candidate = c.id
  <2> HIDE DEF target, paths
  <2> QED BY DEF Association
<1>3. exact = {} => paths = Unambiguous(Relations(e, c))
  OBVIOUS
<1> HIDE DEF target, paths
<1> QED BY <1>1, <1>2, <1>3

(* Before the earliest signal means before every signal, and not further   *)
(* from it than the lookback means that some signal is within it.          *)
LEMMA PrecedingInTime ==
  ASSUME NEW c \in Candidates, Observed(c) # {}, NEW at \in Nat, NEW lookback \in Nat
  PROVE  /\ at < EarliestObserved(c)
         /\ EarliestObserved(c) - at <= lookback
         <=>
         /\ \A t \in Observed(c) : at < t
         /\ \E t \in Observed(c) : t <= at + lookback
<1> DEFINE earliest == EarliestObserved(c)
<1>1. /\ earliest \in Observed(c) /\ earliest \in Nat
      /\ \A t \in Observed(c) : earliest <= t /\ t \in Nat
  BY EarliestIsLeast
<1> HIDE DEF earliest
<1>2. at < earliest <=> \A t \in Observed(c) : at < t
  BY <1>1
<1>3. earliest - at <= lookback <=> earliest <= at + lookback
  BY <1>1
<1>4. earliest <= at + lookback <=> \E t \in Observed(c) : t <= at + lookback
  BY <1>1
<1> QED BY <1>2, <1>3, <1>4 DEF earliest

\* The associations with a candidate name its eligible entries.
LEMMA AssociatesEligible ==
  ASSUME NEW entries, Dated(entries), NEW r, r.lookback \in Nat, NEW c \in Candidates
  PROVE  /\ \A a \in Associate(entries, c, r.lookback) :
              \E e \in entries : Eligible(e, c, r) /\ a.change = e.id /\ a.candidate = c.id
         /\ \A e \in entries : Eligible(e, c, r) =>
              \E a \in Associate(entries, c, r.lookback) : a.change = e.id /\ a.candidate = c.id
<1> DEFINE Timely == {f \in entries : /\ f.at < EarliestObserved(c)
                                      /\ EarliestObserved(c) - f.at <= r.lookback}
<1>1. CASE Observed(c) = {}
  BY <1>1 DEF Associate, Eligible
<1>2. CASE Observed(c) # {}
  <2>1. Associate(entries, c, r.lookback) = UNION {Explain(e, c) : e \in Timely}
    BY <1>2 DEF Associate
  <2>2. ASSUME NEW e \in entries
        PROVE  Eligible(e, c, r) <=> e \in Timely /\ Explain(e, c) # {}
    <3>1. e.at \in Nat
      BY DEF Dated
    <3>2. e \in Timely <=> /\ \A t \in Observed(c) : e.at < t
                           /\ \E t \in Observed(c) : t <= e.at + r.lookback
      BY <1>2, <3>1, PrecedingInTime
    <3> HIDE DEF Timely
    <3> QED BY <1>2, <3>2, ExplainedBy DEF Eligible
  <2>3. Timely \subseteq entries
    OBVIOUS
  <2> HIDE DEF Timely
  <2>4. ASSUME NEW a \in Associate(entries, c, r.lookback)
        PROVE  \E e \in entries : Eligible(e, c, r) /\ a.change = e.id /\ a.candidate = c.id
    <3>1. PICK e \in Timely : a \in Explain(e, c)
      BY <2>1
    <3> QED BY <2>2, <2>3, <3>1, ExplainedBy
  <2>5. ASSUME NEW e \in entries, Eligible(e, c, r)
        PROVE  \E a \in Associate(entries, c, r.lookback) : a.change = e.id /\ a.candidate = c.id
    <3>1. e \in Timely /\ Explain(e, c) # {}
      BY <2>2, <2>5
    <3>2. PICK a : a \in Explain(e, c)
      BY <3>1
    <3> QED BY <2>1, <3>1, <3>2, ExplainedBy
  <2> QED BY <2>4, <2>5
<1> QED BY <1>1, <1>2

\* The associations with all the candidates name the eligible pairs.
LEMMA AssociationsNameEligible ==
  ASSUME NEW entries, Dated(entries), NEW r, r.lookback \in Nat
  PROVE  {<<a.change, a.candidate>> : a \in AllAssociations(entries, Candidates, r.lookback)} =
           {<<x[1].id, x[2].id>> : x \in {y \in entries \X Candidates : Eligible(y[1], y[2], r)}}
<1> DEFINE found == AllAssociations(entries, Candidates, r.lookback)
           Pairs == {y \in entries \X Candidates : Eligible(y[1], y[2], r)}
<1>1. ASSUME NEW a \in found
      PROVE  \E x \in Pairs : <<a.change, a.candidate>> = <<x[1].id, x[2].id>>
  <2>1. PICK c \in Candidates : a \in Associate(entries, c, r.lookback)
    BY DEF AllAssociations
  <2>2. PICK e \in entries : Eligible(e, c, r) /\ a.change = e.id /\ a.candidate = c.id
    BY <2>1, AssociatesEligible
  <2>3. <<e, c>> \in Pairs
    BY <2>2
  <2> QED BY <2>2, <2>3
<1>2. ASSUME NEW x \in Pairs
      PROVE  \E a \in found : <<a.change, a.candidate>> = <<x[1].id, x[2].id>>
  <2>1. x[1] \in entries /\ x[2] \in Candidates /\ Eligible(x[1], x[2], r)
    OBVIOUS
  <2>2. PICK a \in Associate(entries, x[2], r.lookback) : a.change = x[1].id /\ a.candidate = x[2].id
    BY <2>1, AssociatesEligible
  <2>3. a \in found
    BY <2>1, <2>2 DEF AllAssociations
  <2> QED BY <2>2, <2>3
<1> HIDE DEF found, Pairs
<1>3. {<<a.change, a.candidate>> : a \in found} = {<<x[1].id, x[2].id>> : x \in Pairs}
  BY <1>1, <1>2
<1> QED BY <1>3 DEF found, Pairs

\* The count of the associated changes is that of the changes associations name.
LEMMA AssociatedCounted ==
  ASSUME NEW entries, IsFiniteSet(entries), Identified(entries),
         \A e \in entries : e.source \in DOMAIN Kinds,
         NEW found, \A a \in found : \E e \in entries : a.change = e.id,
         NEW m \in Metrics(entries, found), m.key = "associated_changes"
  PROVE  m.value = Cardinality({a.change : a \in found})
<1> DEFINE Named == {e \in entries : \E a \in found : a.change = e.id}
           Changes == {a.change : a \in found}
           Of(s) == {e \in entries : e.source = s}
<1>1. \A key, those : \A x \in Metric(key, those) :
         x.key = key /\ x.value = Cardinality(those)
  BY DEF Metric
<1>2. \A e \in entries : e.source # "associated_changes"
  BY DEF Kinds
<1>3. m \in Metric("associated_changes", Named)
  <2>1. \/ m \in Metric("changes_in_window", entries)
        \/ m \in Metric("associated_changes", Named)
        \/ \E s \in {e.source : e \in entries} : m \in Metric(s, Of(s))
    BY DEF Metrics
  <2>2. m \notin Metric("changes_in_window", entries)
    BY <1>1
  <2>3. \A s \in {e.source : e \in entries} : m \notin Metric(s, Of(s))
    <3> HIDE DEF Of
    <3> QED BY <1>1, <1>2
  <2> QED BY <2>1, <2>2, <2>3
<1>4. m.value = Cardinality(Named)
  BY <1>1, <1>3
<1>5. Cardinality(Named) = Cardinality(Changes)
  <2> DEFINE f == [e \in Named |-> e.id]
  <2>1. IsFiniteSet(Named)
    BY FS_Subset
  <2>2. f \in [Named -> Changes]
    OBVIOUS
  <2>3. \A x, y \in Named : f[x] = f[y] => x = y
    BY DEF Identified
  <2>4. \A x \in Changes : \E e \in Named : f[e] = x
    OBVIOUS
  <2>5. f \in Bijection(Named, Changes)
    <3> HIDE DEF f, Named, Changes
    <3> QED BY <2>2, <2>3, <2>4 DEF Bijection, Injection, Surjection, IsInjective
  <2>6. ExistsBijection(Named, Changes)
    <3> HIDE DEF f, Named, Changes
    <3> QED BY <2>5 DEF ExistsBijection
  <2> QED BY <2>1, <2>6, FS_Bijection
<1> QED BY <1>4, <1>5

-----------------------------------------------------------------------------
(***************************************************************************)
(* An answer that says what was projected satisfies the property.          *)
(***************************************************************************)
LEMMA RecordedIsDated ==
  \A e \in Recorded : e.at \in Nat /\ e.id \in Nat /\ e.source \in DOMAIN Kinds
<1>1. ASSUME NEW p \in Payload
      PROVE  LET e == Event(Stripped(p))
             IN e.at = p.at /\ e.id = p.digest /\ e.source = p.source
  <2>1. Stripped(p).at = p.at /\ Stripped(p).digest = p.digest /\ Stripped(p).source = p.source
    BY DEF Stripped, Payload
  <2> QED BY <2>1 DEF Event
<1>2. ASSUME NEW p \in Payload
      PROVE  p.at \in Nat /\ p.digest \in Nat /\ p.source \in DOMAIN Kinds
  BY DEF Payload
<1> QED BY <1>1, <1>2 DEF Recorded

LEMMA ProjectedIsExact ==
  ASSUME ProjectionInv
  PROVE  AssociationsExact
<1> SUFFICES ASSUME Answered PROVE AssociationsExact
  BY DEF AssociationsExact
<1> DEFINE r == command.request
           shown == answer.events
           line == answer.timeline
           found == answer.associations
           entries == {e \in shown : e.id \in line.entries}
           window == {e \in shown : r.start <= e.at /\ e.at < r.end}
<1>1. /\ command \in Commands /\ ValidRequest(r)
      /\ shown \subseteq Recorded /\ IsFiniteSet(shown)
      /\ Identified(shown) /\ line = Timeline(shown, r)
      /\ found = AllAssociations(entries, Candidates, r.lookback)
      /\ answer.metrics = Metrics(entries, found)
  BY DEF ProjectionInv, Projected, Entries
<1>2. r.limit \in Nat /\ r.limit > 0 /\ r.lookback \in Nat
  <2>1. r \in Requests \cup {DefaultRequest}
    BY <1>1 DEF Commands
  <2> QED BY <1>1, <2>1, RequestsAssumption DEF ValidRequest
<1>3. window = {e \in shown : InWindow(e, r)}
  BY DEF InWindow
<1>4. /\ IsFiniteSet(window) /\ Dated(window) /\ Identified(window)
      /\ Dated(entries) /\ Identified(entries) /\ IsFiniteSet(entries)
      /\ \A e \in entries : e.source \in DOMAIN Kinds
  <2>1. IsFiniteSet(window) /\ IsFiniteSet(entries)
    BY <1>1, FS_Subset
  <2>2. window \subseteq shown /\ entries \subseteq shown
    OBVIOUS
  <2> HIDE DEF shown, window, entries
  <2> QED BY <1>1, <2>1, <2>2, RecordedIsDated DEF Dated, Identified
<1> HIDE DEF r, shown, line, found, window
<1>5. entries = Newest(window, r.limit)
  <2>1. entries = Entries(shown, line)
    BY DEF Entries
  <2>2. Entries(shown, Timeline(shown, r)) = Newest({e \in shown : InWindow(e, r)}, r.limit)
    BY <1>1, TimelineEntries
  <2> HIDE DEF entries
  <2> QED BY <1>1, <1>3, <2>1, <2>2
<1>6. line.truncated = (Cardinality(window) > r.limit)
  <2>1. Timeline(shown, r).truncated = (Cardinality({e \in shown : InWindow(e, r)}) > r.limit)
    BY DEF Timeline
  <2> QED BY <1>1, <1>3, <2>1
<1> HIDE DEF entries
<1>7. /\ entries \subseteq window
      /\ \A e \in entries, f \in window : f \in entries \/ Precedes(f, e)
      /\ (Cardinality(window) > r.limit) <=> entries # window
  BY <1>2, <1>4, <1>5, NewestAreNewest
<1>8. line.truncated <=> entries # window
  BY <1>6, <1>7, Zenon
<1>9. {<<a.change, a.candidate>> : a \in found} =
        {<<x[1].id, x[2].id>> : x \in {y \in entries \X Candidates : Eligible(y[1], y[2], r)}}
  BY <1>1, <1>2, <1>4, AssociationsNameEligible
<1>10. \A m \in answer.metrics :
         m.key = "associated_changes" => m.value = Cardinality({a.change : a \in found})
  <2>1. \A a \in found : \E e \in entries : a.change = e.id
    <3> SUFFICES ASSUME NEW a \in found PROVE \E e \in entries : a.change = e.id
      OBVIOUS
    <3>1. PICK c \in Candidates : a \in Associate(entries, c, r.lookback)
      BY <1>1 DEF AllAssociations
    <3> QED BY <1>2, <1>4, <3>1, AssociatesEligible
  <2> QED BY <1>1, <1>4, <2>1, AssociatedCounted
<1> QED BY <1>7, <1>8, <1>9, <1>10
    DEF AssociationsExact, r, shown, line, found, entries, window

-----------------------------------------------------------------------------
(***************************************************************************)
(* The ledger and what is projected from it are kept.                      *)
(***************************************************************************)
\* What is retained of a payload is a row under its digest.
LEMMA RetainedIsRow ==
  ASSUME rows \in [DOMAIN rows -> RowSet], NEW p \in Payload
  PROVE  Retained(p) \in [DOMAIN rows \cup {p.digest} -> RowSet]
<1>1. Identity(p) \in RowSet
  BY DEF Payload, Identity, RowSet
<1>2. \A d \in DOMAIN rows : rows[d] \in RowSet
  OBVIOUS
<1> HIDE DEF Identity
<1> QED BY <1>1, <1>2 DEF Retained

LEMMA LedgerStep ==
  ASSUME LedgerInv, [Next]_vars
  PROVE  LedgerInv'
<1>1. ASSUME rest # << >>
      PROVE  Head(rest) \in Payload /\ Tail(rest) \in Seq(Payload)
  BY <1>1 DEF LedgerInv
<1>2. ASSUME rows \in [DOMAIN rows -> RowSet], NEW p \in Payload, rows' = Retained(p)
      PROVE  rows' \in [DOMAIN rows' -> RowSet]
  BY <1>2, RetainedIsRow
<1>3. ASSUME NEW c \in Commands, Ask(c) PROVE LedgerInv'
  BY <1>3 DEF LedgerInv, Ask, Idle
<1>4. ASSUME Replay PROVE LedgerInv'
  <2> DEFINE p == Head(rest)
             q == Stripped(p)
  <2>1. p \in Payload /\ rest' \in Seq(Payload)
    BY <1>1, <1>4 DEF Replay, Taken
  <2>2. rows' \in [DOMAIN rows' -> RowSet] /\ events' \in Seq(Recorded)
    <3>1. CASE ~Retainable(p)
      BY <1>4, <3>1 DEF Replay, Report, LedgerInv
    <3>2. CASE Retainable(p)
      <4>1. rows' = Retained(p)
        BY <1>4, <3>2 DEF Replay
      <4>2. rows' \in [DOMAIN rows' -> RowSet]
        BY <1>2, <2>1, <4>1 DEF LedgerInv
      <4>3. Event(q) \in Recorded
        BY <2>1 DEF Recorded
      <4>4. events' \in {events, Append(events, Event(q))}
        BY <1>4, <3>2 DEF Replay, Report
      <4>5. events \in Seq(Recorded)
        BY DEF LedgerInv
      <4> HIDE DEF p, q
      <4> QED BY <4>2, <4>3, <4>4, <4>5
    <3> QED BY <3>1, <3>2
  <2>3. pc' = pc /\ catalog' = catalog
    BY <1>4 DEF Replay, frame
  <2> QED BY <2>1, <2>2, <2>3 DEF LedgerInv
<1>5. ASSUME ReplayBusy PROVE LedgerInv'
  <2>1. Head(rest) \in Payload /\ rest' \in Seq(Payload)
    BY <1>1, <1>5 DEF ReplayBusy, Taken
  <2>2. rows' \in [DOMAIN rows' -> RowSet]
    BY <1>2, <1>5, <2>1 DEF ReplayBusy, LedgerInv
  <2>3. pc' = pc /\ catalog' = catalog /\ events' = events
    BY <1>5 DEF ReplayBusy, frame, Report
  <2> QED BY <2>1, <2>2, <2>3 DEF LedgerInv
<1>6. ASSUME BuildTimeline PROVE LedgerInv'
  BY <1>6 DEF LedgerInv, BuildTimeline, Answer, Idle, frame
<1>7. ASSUME LoseContext PROVE LedgerInv'
  BY <1>7 DEF LedgerInv, LoseContext, Idle, frame
<1>8. ASSUME AssociateCandidate PROVE LedgerInv'
  BY <1>8 DEF LedgerInv, AssociateCandidate, frame
<1>9. ASSUME Finish PROVE LedgerInv'
  BY <1>9 DEF LedgerInv, Finish, Answer, Idle
<1>10. ASSUME Crash PROVE LedgerInv'
  BY <1>10 DEF LedgerInv, Crash, Idle, frame
<1>11. ASSUME UNCHANGED vars PROVE LedgerInv'
  BY <1>11 DEF LedgerInv, vars
<1> QED BY <1>3, <1>4, <1>5, <1>6, <1>7, <1>8, <1>9, <1>10, <1>11 DEF Next

LEMMA ProjectionStep ==
  ASSUME LedgerInv, ProjectionInv, [Next]_vars
  PROVE  ProjectionInv'
<1>1. ASSUME NEW reply, ~Answered, UNCHANGED command, answer' \in {answer, NoAnswer, Error(reply)}
      PROVE  ~Answered'
  BY <1>1 DEF Answered, NoAnswer, Error
<1>2. ASSUME NEW c \in Commands, Ask(c) PROVE ProjectionInv'
  <2>1. ~Answered'
    BY <1>2 DEF Ask, Idle, Answered, NoAnswer, Error
  <2>2. pc' # "idle" => pc' = "replay" /\ ValidRequest(c.request)
    BY <1>2 DEF Ask, Idle
  <2>3. command' = c /\ left' = Candidates /\ associations' = {}
    BY <1>2 DEF Ask
  <2> QED BY <2>1, <2>2, <2>3 DEF ProjectionInv
<1>3. ASSUME UNCHANGED <<pc, command, left, associations, answer>>,
             pc = "replay"
      PROVE  ProjectionInv'
  BY <1>3 DEF ProjectionInv, Answered
<1>4. ASSUME Replay PROVE ProjectionInv'
  BY <1>3, <1>4 DEF Replay, frame, result
<1>5. ASSUME ReplayBusy PROVE ProjectionInv'
  BY <1>3, <1>5 DEF ReplayBusy, frame, result
<1>6. ASSUME BuildTimeline PROVE ProjectionInv'
  <2>1. CASE Twins([i \in DOMAIN events |-> events[i].id])
    <3>1. pc' = "idle" /\ ~Answered'
      BY <1>6, <2>1 DEF BuildTimeline, Answer, Idle, Answered, Error
    <3> QED BY <3>1 DEF ProjectionInv
  <2>2. CASE ~Twins([i \in DOMAIN events |-> events[i].id])
    <3>1. /\ pc = "replay" /\ pc' = "associate"
          /\ timeline' = Timeline(Shown, command.request)
          /\ UNCHANGED <<command, events, left, associations, answer>>
      BY <1>6, <2>2 DEF BuildTimeline, frame
    <3>2. Identified(Shown)
      <4>1. \A i, j \in DOMAIN events : events[i].id = events[j].id => i = j
        BY <2>2 DEF Twins
      <4> QED BY <4>1 DEF Identified, Shown, Range
    <3>3. Shown' = Shown
      BY <3>1 DEF Shown
    <3>4. associations = {} /\ left = Candidates
      BY <3>1 DEF ProjectionInv
    <3>5. associations = AllAssociations(Entries(Shown, timeline'), Candidates \ left,
                                         command.request.lookback)
      BY <3>4 DEF AllAssociations
    <3>6. Projected(Shown', command'.request, timeline', associations', Candidates \ left')
      BY <3>1, <3>2, <3>3, <3>5 DEF Projected
    <3> QED BY <3>1, <3>4, <3>6 DEF ProjectionInv, Answered
  <2> QED BY <2>1, <2>2
<1>7. ASSUME LoseContext PROVE ProjectionInv'
  BY <1>7 DEF ProjectionInv, LoseContext, Idle, Answered, Error
<1>8. ASSUME AssociateCandidate PROVE ProjectionInv'
  <2>1. PICK c \in left :
          /\ left' = left \ {c}
          /\ associations' = associations \cup Associate(InTimeline, c, command.request.lookback)
    BY <1>8 DEF AssociateCandidate
  <2>2. /\ pc = "associate" /\ pc' = "associate"
        /\ UNCHANGED <<command, events, timeline, answer>>
    BY <1>8 DEF AssociateCandidate, frame
  <2>3. /\ left \subseteq Candidates
        /\ Projected(Shown, command.request, timeline, associations, Candidates \ left)
    BY <2>2 DEF ProjectionInv
  <2>4. InTimeline = Entries(Shown, timeline)
    BY DEF InTimeline, Entries
  <2>5. Candidates \ left' = (Candidates \ left) \cup {c}
    BY <2>1, <2>3
  <2>6. \A over : AllAssociations(InTimeline, over \cup {c}, command.request.lookback)
                    = AllAssociations(InTimeline, over, command.request.lookback)
                        \cup Associate(InTimeline, c, command.request.lookback)
    BY DEF AllAssociations
  <2>7. associations' = AllAssociations(Entries(Shown, timeline), Candidates \ left',
                                        command.request.lookback)
    BY <2>1, <2>3, <2>4, <2>5, <2>6 DEF Projected
  <2>8. Shown' = Shown
    BY <2>2 DEF Shown
  <2>9. Projected(Shown, command.request, timeline, associations, Candidates \ left)'
    BY <2>2, <2>3, <2>7, <2>8 DEF Projected
  <2>10. left' \subseteq Candidates
    BY <2>1, <2>3
  <2> QED BY <2>2, <2>9, <2>10 DEF ProjectionInv, Answered
<1>9. ASSUME Finish PROVE ProjectionInv'
  <2>1. /\ pc = "associate" /\ left = {} /\ pc' = "idle" /\ UNCHANGED command
    BY <1>9 DEF Finish, Answer, Idle
  <2>2. ASSUME Answered' PROVE answer' = Snapshot
    BY <1>9, <2>2 DEF Finish, Answer, Idle, Answered, Error
  <2>3. /\ command \in Commands /\ ValidRequest(command.request)
        /\ Projected(Shown, command.request, timeline, associations, Candidates)
    <3>1. Candidates \ left = Candidates
      BY <2>1
    <3> QED BY <2>1, <3>1 DEF ProjectionInv
  <2>4. Shown \subseteq Recorded /\ IsFiniteSet(Shown)
    <3>1. events \in Seq(Recorded)
      BY DEF LedgerInv
    <3>2. PICK n \in Nat : DOMAIN events = 1 .. n
      BY <3>1
    <3>3. IsFiniteSet(DOMAIN events)
      BY <3>2, FS_Interval
    <3>4. events \in Surjection(DOMAIN events, Shown)
      BY <3>1 DEF Surjection, Shown, Range
    <3> QED BY <3>1, <3>3, <3>4, FS_Surjection DEF Shown, Range
  <2>5. ASSUME Answered'
        PROVE  /\ answer'.events = Shown /\ answer'.timeline = timeline
               /\ answer'.associations = associations
               /\ answer'.metrics = Metrics(Entries(Shown, timeline), associations)
    BY <2>2, <2>5 DEF Snapshot, InTimeline, Entries
  <2> QED BY <2>1, <2>3, <2>4, <2>5 DEF ProjectionInv
<1>10. ASSUME Crash PROVE ProjectionInv'
  BY <1>10 DEF ProjectionInv, Crash, Idle, Answered, NoAnswer
<1>11. ASSUME UNCHANGED vars PROVE ProjectionInv'
  <2>1. /\ UNCHANGED <<pc, command, left, timeline, associations, answer>>
        /\ UNCHANGED events
    BY <1>11 DEF vars
  <2>2. Shown' = Shown /\ Answered' = Answered
    BY <2>1 DEF Shown, Answered
  <2> QED BY <2>1, <2>2 DEF ProjectionInv
<1> QED BY <1>2, <1>4, <1>5, <1>6, <1>7, <1>8, <1>9, <1>10, <1>11 DEF Next

(* A snapshot lists the newest entries of its window and exactly the       *)
(* changes that precede and explain a candidate, whatever was replayed     *)
(* and however the commands before it ended.                               *)
THEOREM AssociatesExactly == Spec => []AssociationsExact
<1>1. Init => LedgerInv /\ ProjectionInv
  <2> SUFFICES ASSUME Init PROVE LedgerInv /\ ProjectionInv
    OBVIOUS
  <2>1. LedgerInv
    BY CatalogsAssumption DEF Init, LedgerInv
  <2>2. ProjectionInv
    BY DEF Init, ProjectionInv, Answered, NoAnswer
  <2> QED BY <2>1, <2>2
<1>2. LedgerInv /\ ProjectionInv /\ [Next]_vars => LedgerInv' /\ ProjectionInv'
  BY LedgerStep, ProjectionStep
<1>3. LedgerInv /\ ProjectionInv => AssociationsExact
  BY ProjectedIsExact
<1> QED BY <1>1, <1>2, <1>3, PTL DEF Spec

-----------------------------------------------------------------------------
(***************************************************************************)
(* One request has one answer.  What becomes of a fixture depends on the   *)
(* ledger, and the ledger grows; but once a fixture was replayed and no    *)
(* fault touched it, its part is settled: it is refused for what it is, or *)
(* its digest is in the ledger, or another record bars it, and no later    *)
(* record changes which.  A command that ends without a fault has settled  *)
(* every fixture.  From then on no replay changes the ledger, and what the *)
(* commands show is a function of it.                                      *)
(***************************************************************************)
Barred(table, p) ==
  \/ p.digest \in DOMAIN table /\ table[p.digest] # Identity(p)
  \/ p.native # None /\ \E d \in DOMAIN table \ {p.digest} : table[d] = Identity(p)

Joined(table, p) ==
  [d \in DOMAIN table \cup {p.digest} |->
     IF d \in DOMAIN table THEN table[d] ELSE Identity(p)]

Settled(table, p) == Refusal(p) # None \/ p.digest \in DOMAIN table \/ Barred(table, p)

Shows(table, p) == Refusal(p) = None /\ ~Barred(table, p) /\ Readable(Stripped(p))

\* One table is another after at most one fixture was retained.
Follows(next, table) ==
  \/ next = table
  \/ \E q \in Payload : Refusal(q) = None /\ ~Barred(table, q) /\ next = Joined(table, q)

SettledTo(list, table, n) == \A i \in 1 .. n : Settled(table, list[i])

Showing(list, table) == {i \in DOMAIN list : Shows(table, list[i])}

(* What the first n fixtures make of empty lists, when those at the        *)
(* positions in showing are shown: E and S are the lists after each.       *)
Traces(list, showing, n, E, S) ==
  /\ E[0] = << >> /\ S[0] = << >>
  /\ \A i \in 1 .. n :
       /\ E[i] = IF i \in showing THEN Append(E[i - 1], Event(Stripped(list[i]))) ELSE E[i - 1]
       /\ S[i] = IF i \in showing THEN S[i - 1] \o Reported(Stripped(list[i]))
                 ELSE Append(S[i - 1], FixtureStatus(list[i]))

Traced(list, showing, n, made, reported) ==
  \E E, S : Traces(list, showing, n, E, S) /\ E[n] = made /\ S[n] = reported

\* What a command answers that made these events and reported these statuses.
EvidenceOf(shown) == UNION {e.evidence : e \in shown}

TwinEvents(made) == Twins([i \in DOMAIN made |-> made[i].id])

Found(c, shown) ==
  AllAssociations(Entries(shown, Timeline(shown, c.request)), Candidates, c.request.lookback)

SnapshotOf(c, shown, reported) ==
  [kind |-> "snapshot", events |-> shown, timeline |-> Timeline(shown, c.request),
   associations |-> Found(c, shown),
   metrics |-> Metrics(Entries(shown, Timeline(shown, c.request)), Found(c, shown)),
   statuses |-> Range(reported)]

Reply(c, made, reported) ==
  IF TwinEvents(made) THEN Error("twins")
  ELSE IF Twins(reported) THEN Error("statuses")
  ELSE IF ~\A a \in Found(c, Range(made)) : a.evidence \subseteq EvidenceOf(Range(made))
    THEN Error("evidence")
  ELSE IF c.kind = "snapshot" THEN SnapshotOf(c, Range(made), reported)
  ELSE IF c.ids \subseteq EvidenceOf(Range(made)) THEN [kind |-> "evidence", ids |-> c.ids]
  ELSE Error("not found")

\* The first n fixtures were replayed, and the lists are what they make.
Replayed(n) ==
  /\ n \in 0 .. Len(catalog)
  /\ Len(rest) = Len(catalog) - n
  /\ \A i \in 1 .. Len(rest) : rest[i] = catalog[n + i]
  /\ SettledTo(catalog, rows, n)
  /\ Traced(catalog, Showing(catalog, rows), n, events, statuses)

Repeatable(g) ==
  /\ SettledTo(catalog, rows, Len(catalog))
  /\ \E made, reported : /\ Traced(catalog, Showing(catalog, rows), Len(catalog), made, reported)
                         /\ g.answer = Reply(g.command, made, reported)

ReplayInv ==
  /\ pc # "idle" /\ ~disturbed => \E n : Replayed(n)
  /\ pc = "associate" => rest = << >> /\ ~TwinEvents(events)
  /\ \A g \in given : Repeatable(g)

\* A settled fixture stays settled, and stays shown or not shown.
LEMMA SettledStays ==
  ASSUME NEW table, NEW next, Follows(next, table), NEW p, Settled(table, p)
  PROVE  Settled(next, p) /\ (Shows(next, p) <=> Shows(table, p))
<1>1. CASE next = table
  BY <1>1
<1>2. ASSUME NEW q \in Payload, Refusal(q) = None, ~Barred(table, q), next = Joined(table, q)
      PROVE  Settled(next, p) /\ (Shows(next, p) <=> Shows(table, p))
  <2>1. /\ DOMAIN next = DOMAIN table \cup {q.digest}
        /\ \A d \in DOMAIN table : next[d] = table[d]
        /\ q.digest \notin DOMAIN table => next[q.digest] = Identity(q)
    BY <1>2 DEF Joined
  <2>2. Barred(table, p) => Barred(next, p)
    BY <2>1 DEF Barred
  <2>3. CASE Refusal(p) # None
    BY <2>3 DEF Settled, Shows
  <2>4. CASE Barred(table, p)
    BY <2>2, <2>4 DEF Settled, Shows
  <2>5. CASE p.digest \in DOMAIN table /\ ~Barred(table, p)
    <3>1. table[p.digest] = Identity(p)
      BY <2>5 DEF Barred
    <3>2. next[p.digest] = Identity(p) /\ p.digest \in DOMAIN next
      BY <2>1, <2>5, <3>1
    <3>3. ASSUME p.native # None, NEW d \in DOMAIN next \ {p.digest}, next[d] = Identity(p)
          PROVE  FALSE
      <4>1. d \notin DOMAIN table
        BY <2>1, <2>5, <3>3 DEF Barred
      <4>2. d = q.digest /\ Identity(q) = Identity(p)
        BY <2>1, <3>3, <4>1
      <4>3. q.native = p.native
        BY <4>2 DEF Identity
      <4>4. table[p.digest] = Identity(q) /\ p.digest \in DOMAIN table \ {q.digest}
        BY <2>5, <3>1, <3>3, <4>2
      <4> QED BY <1>2, <3>3, <4>3, <4>4 DEF Barred
    <3>4. ~Barred(next, p)
      BY <3>2, <3>3 DEF Barred
    <3> QED BY <2>5, <3>2, <3>4 DEF Settled, Shows
  <2> QED BY <2>3, <2>4, <2>5 DEF Settled
<1> QED BY <1>1, <1>2 DEF Follows

\* A fixture that was replayed without a fault is settled.
LEMMA ReplaySettles ==
  ASSUME NEW table, NEW q
  PROVE  /\ Refusal(q) # None \/ Barred(table, q) => Settled(table, q)
         /\ Settled(Joined(table, q), q)
         /\ Refusal(q) = None /\ ~Barred(table, q) =>
              (Shows(Joined(table, q), q) <=> Readable(Stripped(q)))
<1>1. q.digest \in DOMAIN Joined(table, q)
  BY DEF Joined
<1>2. ASSUME Refusal(q) = None, ~Barred(table, q)
      PROVE  ~Barred(Joined(table, q), q)
  <2>1. Joined(table, q)[q.digest] = Identity(q)
    BY <1>2 DEF Joined, Barred
  <2>2. \A d \in DOMAIN Joined(table, q) \ {q.digest} :
          d \in DOMAIN table /\ Joined(table, q)[d] = table[d]
    BY DEF Joined
  <2> QED BY <1>2, <2>1, <2>2 DEF Barred
<1> QED BY <1>1, <1>2 DEF Settled, Shows

-----------------------------------------------------------------------------
(* What the fixtures make of the lists. *)

\* The lists are determined by the fixtures and by which of them are shown.
LEMMA TraceIsUnique ==
  ASSUME NEW list, NEW showing, NEW n \in Nat, NEW m1, NEW r1, NEW m2, NEW r2,
         Traced(list, showing, n, m1, r1), Traced(list, showing, n, m2, r2)
  PROVE  m1 = m2 /\ r1 = r2
<1>1. PICK E, S : Traces(list, showing, n, E, S) /\ E[n] = m1 /\ S[n] = r1
  BY DEF Traced
<1>2. PICK F, T : Traces(list, showing, n, F, T) /\ F[n] = m2 /\ T[n] = r2
  BY DEF Traced
<1> DEFINE Apart == {i \in 0 .. n : ~(E[i] = F[i] /\ S[i] = T[i])}
<1>3. Apart = {}
  <2> SUFFICES ASSUME Apart # {} PROVE FALSE
    OBVIOUS
  <2>1. PICK k \in Apart : \A j \in Apart : k <= j
    <3>1. Apart \subseteq Nat
      OBVIOUS
    <3> HIDE DEF Apart
    <3> QED BY <3>1, LeastNatural
  <2>2. k # 0
    BY <1>1, <1>2 DEF Traces
  <2>3. k \in 1 .. n /\ k - 1 \in 0 .. n /\ ~(k <= k - 1)
    BY <2>2
  <2>4. k - 1 \notin Apart
    <3> HIDE DEF Apart
    <3> QED BY <2>1, <2>3
  <2>5. E[k - 1] = F[k - 1] /\ S[k - 1] = T[k - 1]
    BY <2>3, <2>4
  <2>6. E[k] = F[k] /\ S[k] = T[k]
    BY <1>1, <1>2, <2>3, <2>5 DEF Traces
  <2> QED BY <2>6
<1>4. n \in 0 .. n
  OBVIOUS
<1> QED BY <1>1, <1>2, <1>3, <1>4

\* Only the fixtures that were replayed matter.
LEMMA TraceAgrees ==
  ASSUME NEW list, NEW n \in Nat, NEW showing, NEW other,
         \A i \in 1 .. n : i \in showing <=> i \in other,
         NEW made, NEW reported, Traced(list, showing, n, made, reported)
  PROVE  Traced(list, other, n, made, reported)
BY DEF Traced, Traces

\* One fixture more makes one step more.
LEMMA TraceGoesOn ==
  ASSUME NEW list, NEW showing, NEW n \in Nat, NEW made, NEW reported,
         Traced(list, showing, n, made, reported), NEW madeNext, NEW reportedNext,
         madeNext = IF n + 1 \in showing THEN Append(made, Event(Stripped(list[n + 1]))) ELSE made,
         reportedNext = IF n + 1 \in showing THEN reported \o Reported(Stripped(list[n + 1]))
                        ELSE Append(reported, FixtureStatus(list[n + 1]))
  PROVE  Traced(list, showing, n + 1, madeNext, reportedNext)
<1>1. PICK E, S : Traces(list, showing, n, E, S) /\ E[n] = made /\ S[n] = reported
  BY DEF Traced
<1> DEFINE F == [i \in 0 .. n + 1 |-> IF i = n + 1 THEN madeNext ELSE E[i]]
           T == [i \in 0 .. n + 1 |-> IF i = n + 1 THEN reportedNext ELSE S[i]]
<1>2. /\ F[0] = << >> /\ T[0] = << >>
      /\ F[n + 1] = madeNext /\ T[n + 1] = reportedNext
  BY <1>1 DEF Traces
<1>3. \A i \in 0 .. n : F[i] = E[i] /\ T[i] = S[i]
  OBVIOUS
<1> HIDE DEF F, T
<1>4. ASSUME NEW i \in 1 .. n + 1
      PROVE  /\ F[i] = IF i \in showing THEN Append(F[i - 1], Event(Stripped(list[i]))) ELSE F[i - 1]
             /\ T[i] = IF i \in showing THEN T[i - 1] \o Reported(Stripped(list[i]))
                       ELSE Append(T[i - 1], FixtureStatus(list[i]))
  <2>1. CASE i = n + 1
    <3>1. i - 1 = n /\ n \in 0 .. n
      BY <2>1
    <3>2. F[i - 1] = made /\ T[i - 1] = reported
      BY <1>1, <1>3, <3>1
    <3> QED BY <1>2, <2>1, <3>2
  <2>2. CASE i # n + 1
    <3>1. i \in 1 .. n /\ i \in 0 .. n /\ i - 1 \in 0 .. n
      BY <2>2
    <3> QED BY <1>1, <1>3, <3>1 DEF Traces
  <2> QED BY <2>1, <2>2
<1>5. Traces(list, showing, n + 1, F, T)
  BY <1>2, <1>4 DEF Traces
<1> QED BY <1>2, <1>5 DEF Traced

\* Nothing is made of no fixture.
LEMMA TraceBegins ==
  ASSUME NEW list, NEW showing
  PROVE  Traced(list, showing, 0, << >>, << >>)
<1> DEFINE E == [i \in {0} |-> << >>]
<1>1. Traces(list, showing, 0, E, E)
  BY DEF Traces
<1>2. E[0] = << >>
  OBVIOUS
<1> QED BY <1>1, <1>2 DEF Traced

\* What was traced over a ledger is so over the one that follows it.
LEMMA TraceStays ==
  ASSUME NEW list, NEW n \in Nat, 1 .. n \subseteq DOMAIN list,
         NEW table, NEW next, Follows(next, table), SettledTo(list, table, n)
  PROVE  /\ SettledTo(list, next, n)
         /\ \A made, reported : Traced(list, Showing(list, table), n, made, reported) =>
                                Traced(list, Showing(list, next), n, made, reported)
<1>1. ASSUME NEW i \in 1 .. n
      PROVE  Settled(next, list[i]) /\ (Shows(next, list[i]) <=> Shows(table, list[i]))
  BY SettledStays DEF SettledTo
<1>2. \A i \in 1 .. n : i \in Showing(list, table) <=> i \in Showing(list, next)
  BY <1>1 DEF Showing
<1> QED BY <1>1, <1>2, TraceAgrees DEF SettledTo

-----------------------------------------------------------------------------
(* The steps of a command. *)

\* What may be retained is what no record bars.
LEMMA RetainableIsUnbarred ==
  ASSUME NEW p
  PROVE  /\ Retainable(p) <=> Refusal(p) = None /\ ~Barred(rows, p)
         /\ Retained(p) = Joined(rows, p)
BY DEF Retainable, Ambiguous, Barred, Retained, Joined

\* No step takes a record away, and each adds one at most.
LEMMA LedgerGrows ==
  ASSUME LedgerInv, [Next]_vars
  PROVE  Follows(rows', rows) /\ catalog' = catalog
<1>1. ASSUME rest # << >>
      PROVE  Head(rest) \in Payload
  BY <1>1 DEF LedgerInv
<1>2. ASSUME NEW p \in Payload, Retainable(p), rows' = Retained(p)
      PROVE  Follows(rows', rows)
  BY <1>2, RetainableIsUnbarred DEF Follows
<1>3. UNCHANGED rows => Follows(rows', rows)
  BY DEF Follows
<1>4. ASSUME NEW c \in Commands, Ask(c) PROVE UNCHANGED <<rows, catalog>>
  BY <1>4 DEF Ask
<1>5. ASSUME Replay PROVE Follows(rows', rows) /\ catalog' = catalog
  <2>1. Head(rest) \in Payload /\ catalog' = catalog
    BY <1>1, <1>5 DEF Replay, frame
  <2>2. UNCHANGED rows \/ (Retainable(Head(rest)) /\ rows' = Retained(Head(rest)))
    BY <1>5 DEF Replay
  <2> QED BY <1>2, <1>3, <2>1, <2>2
<1>6. ASSUME ReplayBusy PROVE Follows(rows', rows) /\ catalog' = catalog
  <2>1. Head(rest) \in Payload /\ catalog' = catalog
    BY <1>1, <1>6 DEF ReplayBusy, frame
  <2>2. UNCHANGED rows \/ (Retainable(Head(rest)) /\ rows' = Retained(Head(rest)))
    BY <1>6 DEF ReplayBusy
  <2> QED BY <1>2, <1>3, <2>1, <2>2
<1>7. ASSUME BuildTimeline PROVE UNCHANGED <<rows, catalog>>
  BY <1>7 DEF BuildTimeline, Answer, frame
<1>8. ASSUME LoseContext PROVE UNCHANGED <<rows, catalog>>
  BY <1>8 DEF LoseContext, frame
<1>9. ASSUME AssociateCandidate PROVE UNCHANGED <<rows, catalog>>
  BY <1>9 DEF AssociateCandidate, frame
<1>10. ASSUME Finish PROVE UNCHANGED <<rows, catalog>>
  BY <1>10 DEF Finish, Answer
<1>11. ASSUME Crash PROVE UNCHANGED <<rows, catalog>>
  BY <1>11 DEF Crash, frame
<1>12. ASSUME UNCHANGED vars PROVE UNCHANGED <<rows, catalog>>
  BY <1>12 DEF vars
<1> QED
  BY <1>3, <1>4, <1>5, <1>6, <1>7, <1>8, <1>9, <1>10, <1>11, <1>12 DEF Next

\* An answer that can be repeated stays so.
LEMMA StaysRepeatable ==
  ASSUME LedgerInv, [Next]_vars, NEW g, Repeatable(g)
  PROVE  Repeatable(g)'
<1>1. Follows(rows', rows) /\ catalog' = catalog
  BY LedgerGrows
<1>2. Len(catalog) \in Nat /\ 1 .. Len(catalog) \subseteq DOMAIN catalog
  BY DEF LedgerInv
<1>3. SettledTo(catalog, rows, Len(catalog))
  BY DEF Repeatable
<1>4. PICK made, reported :
        /\ Traced(catalog, Showing(catalog, rows), Len(catalog), made, reported)
        /\ g.answer = Reply(g.command, made, reported)
  BY DEF Repeatable
<1>5. /\ SettledTo(catalog, rows', Len(catalog))
      /\ Traced(catalog, Showing(catalog, rows'), Len(catalog), made, reported)
  BY <1>1, <1>2, <1>3, <1>4, TraceStays
<1> QED BY <1>1, <1>4, <1>5 DEF Repeatable

\* Replaying a fixture without a fault adds what it makes.
LEMMA ReplayGoesOn ==
  ASSUME LedgerInv, Replay, NEW n, Replayed(n)
  PROVE  Replayed(n + 1)'
<1> DEFINE p == Head(rest)
           shown == Showing(catalog, rows')
<1>1. /\ rest # << >> /\ rest' = Tail(rest) /\ UNCHANGED catalog
      /\ catalog \in Seq(Payload) /\ rest \in Seq(Payload)
      /\ n \in 0 .. Len(catalog) /\ n \in Nat /\ Len(catalog) \in Nat
  BY DEF Replay, Taken, frame, LedgerInv, Replayed
<1>2. n + 1 \in 1 .. Len(catalog) /\ p = catalog[n + 1] /\ p \in Payload
  <2>1. Len(rest) \in Nat /\ Len(rest) # 0 /\ p = rest[1]
    BY <1>1
  <2>2. Len(rest) = Len(catalog) - n /\ \A i \in 1 .. Len(rest) : rest[i] = catalog[n + i]
    BY DEF Replayed
  <2> QED BY <1>1, <2>1, <2>2
<1>3. Len(rest') = Len(catalog) - (n + 1) /\ \A i \in 1 .. Len(rest') : rest'[i] = catalog[(n + 1) + i]
  <2>1. /\ Len(Tail(rest)) = Len(rest) - 1 /\ Len(rest) \in Nat
        /\ \A i \in 1 .. Len(rest) - 1 : Tail(rest)[i] = rest[i + 1]
    BY <1>1
  <2>2. Len(rest) = Len(catalog) - n /\ \A i \in 1 .. Len(rest) : rest[i] = catalog[n + i]
    BY DEF Replayed
  <2>3. Len(rest') = Len(rest) - 1
    BY <1>1, <2>1
  <2>4. ASSUME NEW i \in 1 .. Len(rest')
        PROVE  rest'[i] = catalog[(n + 1) + i]
    <3>1. i \in 1 .. Len(rest) - 1 /\ i + 1 \in 1 .. Len(rest) /\ n + (i + 1) = (n + 1) + i
      BY <1>1, <2>1, <2>3
    <3> QED BY <1>1, <2>1, <2>2, <3>1
  <2> QED BY <1>1, <2>1, <2>2, <2>3, <2>4
<1>4. /\ \/ ~Retainable(p) /\ rows' = rows
         \/ Retainable(p) /\ rows' = Joined(rows, p)
      /\ events' = IF Retainable(p) /\ Readable(Stripped(p)) THEN Append(events, Event(Stripped(p)))
                   ELSE events
      /\ statuses' = IF Retainable(p) /\ Readable(Stripped(p)) THEN statuses \o Reported(Stripped(p))
                     ELSE Append(statuses, FixtureStatus(p))
  BY RetainableIsUnbarred DEF Replay, Report
<1>5. Follows(rows', rows)
  BY <1>2, <1>4, RetainableIsUnbarred DEF Follows
<1>6. Settled(rows', p) /\ (Shows(rows', p) <=> Retainable(p) /\ Readable(Stripped(p)))
  <2>1. Retainable(p) <=> Refusal(p) = None /\ ~Barred(rows, p)
    BY RetainableIsUnbarred
  <2>2. CASE Retainable(p)
    <3>1. rows' = Joined(rows, p)
      BY <1>4, <2>2
    <3> HIDE DEF p
    <3> QED BY <2>1, <2>2, <3>1, ReplaySettles
  <2>3. CASE ~Retainable(p)
    <3>1. rows' = rows
      BY <1>4, <2>3
    <3> HIDE DEF p
    <3> QED BY <2>1, <2>3, <3>1, ReplaySettles DEF Shows
  <2> QED BY <2>2, <2>3
<1> HIDE DEF p
<1>7. /\ SettledTo(catalog, rows', n)
      /\ Traced(catalog, shown, n, events, statuses)
  <2>1. /\ SettledTo(catalog, rows, n)
        /\ Traced(catalog, Showing(catalog, rows), n, events, statuses)
    BY DEF Replayed
  <2>2. 1 .. n \subseteq DOMAIN catalog
    BY <1>1
  <2> QED BY <1>1, <1>5, <2>1, <2>2, TraceStays
<1>8. SettledTo(catalog, rows', n + 1)
  <2>1. \A i \in 1 .. n + 1 : i \in 1 .. n \/ i = n + 1
    BY <1>1
  <2> QED BY <1>2, <1>6, <1>7, <2>1 DEF SettledTo
<1>9. n + 1 \in shown <=> Retainable(p) /\ Readable(Stripped(p))
  BY <1>1, <1>2, <1>6 DEF Showing
<1> HIDE DEF shown
<1>10. Traced(catalog, shown, n + 1, events', statuses')
  <2>1. events' = IF n + 1 \in shown THEN Append(events, Event(Stripped(catalog[n + 1]))) ELSE events
    BY <1>2, <1>4, <1>9
  <2>2. statuses' = IF n + 1 \in shown THEN statuses \o Reported(Stripped(catalog[n + 1]))
                    ELSE Append(statuses, FixtureStatus(catalog[n + 1]))
    BY <1>2, <1>4, <1>9
  <2> QED BY <1>1, <1>7, <2>1, <2>2, TraceGoesOn
<1>11. n + 1 \in 0 .. Len(catalog)
  BY <1>1, <1>2
<1> QED BY <1>1, <1>3, <1>8, <1>10, <1>11 DEF Replayed, shown

\* A command that ends without a fault gives an answer that can be repeated.
LEMMA AnswersRepeatably ==
  ASSUME LedgerInv, ~disturbed, NEW n, Replayed(n), rest = << >>, UNCHANGED <<catalog, rows>>,
         NEW c, NEW reply, reply = Reply(c, events, statuses)
  PROVE  Repeatable([command |-> c, answer |-> reply])'
<1>1. n = Len(catalog)
  <2>1. Len(rest) = 0 /\ n \in Nat /\ Len(catalog) \in Nat /\ Len(rest) = Len(catalog) - n
    BY DEF Replayed, LedgerInv
  <2> QED BY <2>1
<1>2. /\ SettledTo(catalog, rows, Len(catalog))
      /\ Traced(catalog, Showing(catalog, rows), Len(catalog), events, statuses)
  BY <1>1 DEF Replayed
<1> QED BY <1>2 DEF Repeatable

LEMMA ReplayStep ==
  ASSUME LedgerInv, ProjectionInv, ReplayInv, [Next]_vars
  PROVE  ReplayInv'
<1>1. /\ pc # "idle" /\ ~disturbed => \E n : Replayed(n)
      /\ pc = "associate" => rest = << >> /\ ~TwinEvents(events)
      /\ \A g \in given : Repeatable(g)
  BY DEF ReplayInv
<1>2. \A g \in given : Repeatable(g)'
  BY <1>1, StaysRepeatable
<1>3. ASSUME UNCHANGED <<catalog, rows, rest, events, statuses>>, NEW n, Replayed(n)
      PROVE  Replayed(n)'
  BY <1>3 DEF Replayed
<1>4. ASSUME NEW c \in Commands, Ask(c) PROVE ReplayInv'
  <2>1. /\ rest' = catalog /\ events' = << >> /\ statuses' = << >> /\ UNCHANGED <<catalog, rows, given>>
        /\ pc' # "associate"
    BY <1>4 DEF Ask, Idle
  <2>2. Replayed(0)'
    <3>1. Traced(catalog, Showing(catalog, rows), 0, << >>, << >>)
      BY TraceBegins
    <3>2. Len(catalog) \in Nat /\ \A i \in 1 .. Len(catalog) : catalog[i] = catalog[0 + i]
      BY DEF LedgerInv
    <3>3. SettledTo(catalog, rows, 0)
      BY DEF SettledTo
    <3> QED BY <2>1, <3>1, <3>2, <3>3 DEF Replayed
  <2> QED BY <1>2, <2>1, <2>2 DEF ReplayInv
<1>5. ASSUME Replay PROVE ReplayInv'
  <2>1. pc = "replay" /\ pc' = "replay" /\ UNCHANGED <<disturbed, given>>
    BY <1>5 DEF Replay, frame
  <2>2. ~disturbed' => \E n : Replayed(n)'
    BY <1>1, <1>5, <2>1, ReplayGoesOn
  <2> QED BY <1>2, <2>1, <2>2 DEF ReplayInv
<1>6. ASSUME ReplayBusy PROVE ReplayInv'
  <2>1. pc' = "replay" /\ disturbed' = TRUE /\ given' = given
    BY <1>6 DEF ReplayBusy, frame
  <2> QED BY <1>2, <2>1 DEF ReplayInv
<1>7. ASSUME NEW c, c = command, NEW reply, ~disturbed => reply = Reply(c, events, statuses),
             pc # "idle", rest = << >>, UNCHANGED <<catalog, rows>>, pc' = "idle",
             given' = IF disturbed THEN given ELSE given \cup {[command |-> c, answer |-> reply]}
      PROVE  ReplayInv'
  <2>1. CASE disturbed
    BY <1>2, <1>7, <2>1 DEF ReplayInv
  <2>2. CASE ~disturbed
    <3>1. PICK n : Replayed(n)
      BY <1>1, <1>7, <2>2
    <3>2. Repeatable([command |-> c, answer |-> reply])'
      BY <1>7, <2>2, <3>1, AnswersRepeatably
    <3>3. ASSUME NEW g \in given' PROVE Repeatable(g)'
      <4>1. g \in given \/ g = [command |-> c, answer |-> reply]
        BY <1>7, <2>2
      <4> QED BY <1>2, <3>2, <4>1
    <3> QED BY <1>7, <3>3 DEF ReplayInv
  <2> QED BY <2>1, <2>2
<1>8. ASSUME BuildTimeline PROVE ReplayInv'
  <2>1. pc = "replay" /\ rest = << >>
    BY <1>8 DEF BuildTimeline
  <2>2. CASE TwinEvents(events)
    <3>1. Answer(Error("twins"))
      BY <1>8, <2>2 DEF BuildTimeline, TwinEvents
    <3>2. PICK c, reply : c = command /\ reply = Error("twins")
      OBVIOUS
    <3>3. reply = Reply(c, events, statuses)
      BY <2>2, <3>2 DEF Reply
    <3>4. /\ pc' = "idle" /\ UNCHANGED <<catalog, rows>>
          /\ given' = IF disturbed THEN given ELSE given \cup {[command |-> c, answer |-> reply]}
      BY <3>1, <3>2 DEF Answer, Idle
    <3> QED BY <1>7, <2>1, <3>2, <3>3, <3>4
  <2>3. CASE ~TwinEvents(events)
    <3>1. pc' = "associate" /\ UNCHANGED <<catalog, rows, rest, events, statuses, disturbed, given>>
      BY <1>8, <2>3 DEF BuildTimeline, TwinEvents, frame
    <3>2. ~disturbed' => \E n : Replayed(n)'
      BY <1>1, <1>3, <2>1, <3>1
    <3> QED BY <1>2, <2>1, <2>3, <3>1, <3>2 DEF ReplayInv
  <2> QED BY <2>2, <2>3
<1>9. ASSUME LoseContext PROVE ReplayInv'
  <2>1. pc' = "idle" /\ given' = given
    BY <1>9 DEF LoseContext, Idle, frame
  <2> QED BY <1>2, <2>1 DEF ReplayInv
<1>10. ASSUME AssociateCandidate PROVE ReplayInv'
  <2>1. /\ pc = "associate" /\ pc' = "associate"
        /\ UNCHANGED <<catalog, rows, rest, events, statuses, disturbed, given>>
    BY <1>10 DEF AssociateCandidate, frame
  <2>2. ~disturbed' => \E n : Replayed(n)'
    BY <1>1, <1>3, <2>1
  <2>3. rest' = << >> /\ ~TwinEvents(events')
    BY <1>1, <2>1
  <2> QED BY <1>2, <2>1, <2>2, <2>3 DEF ReplayInv
<1>11. ASSUME Finish PROVE ReplayInv'
  <2>1. /\ pc = "associate" /\ left = {} /\ rest = << >>
        /\ ~TwinEvents(events)
    BY <1>1, <1>11 DEF Finish
  <2> DEFINE said == IF Twins(statuses) THEN Error("statuses")
                     ELSE IF ~Closed THEN Error("evidence")
                     ELSE IF command.kind = "snapshot" THEN Snapshot
                     ELSE IF Resolvable(command.ids) THEN [kind |-> "evidence", ids |-> command.ids]
                     ELSE Error("not found")
  <2>2. PICK c, reply : c = command /\ reply = said
    OBVIOUS
  <2>3. /\ pc' = "idle" /\ UNCHANGED <<catalog, rows>>
        /\ given' = IF disturbed THEN given ELSE given \cup {[command |-> c, answer |-> reply]}
    BY <1>11, <2>2 DEF Finish, Answer, Idle
  <2>4. reply = Reply(c, events, statuses)
    <3>1. Projected(Shown, command.request, timeline, associations, Candidates)
      <4>1. Candidates \ left = Candidates
        BY <2>1
      <4> QED BY <2>1, <4>1 DEF ProjectionInv
    <3>2. /\ Shown = Range(events) /\ timeline = Timeline(Shown, c.request)
          /\ associations = Found(c, Shown)
          /\ InTimeline = Entries(Shown, timeline)
      BY <2>2, <3>1 DEF Projected, Shown, InTimeline, Entries, Found
    <3>3. Known = EvidenceOf(Shown)
      BY DEF Known, EvidenceOf
    <3>4. Closed <=> \A a \in Found(c, Shown) : a.evidence \subseteq EvidenceOf(Shown)
      BY <3>2, <3>3 DEF Closed
    <3>5. Snapshot = SnapshotOf(c, Shown, statuses)
      BY <3>2 DEF Snapshot, SnapshotOf
    <3>6. Resolvable(c.ids) <=> c.ids \subseteq EvidenceOf(Shown)
      BY <3>3 DEF Resolvable
    <3> QED BY <2>1, <2>2, <3>2, <3>4, <3>5, <3>6 DEF Reply
  <2> HIDE DEF said
  <2> QED BY <1>7, <2>1, <2>2, <2>3, <2>4
<1>12. ASSUME Crash PROVE ReplayInv'
  <2>1. pc' = "idle" /\ given' = given
    BY <1>12 DEF Crash, Idle, frame
  <2> QED BY <1>2, <2>1 DEF ReplayInv
<1>13. ASSUME UNCHANGED vars PROVE ReplayInv'
  <2>1. UNCHANGED <<catalog, rows, rest, events, statuses, disturbed, given, pc>>
    BY <1>13 DEF vars
  <2>2. pc' # "idle" /\ ~disturbed' => \E n : Replayed(n)'
    BY <1>1, <1>3, <2>1
  <2> QED BY <1>1, <1>2, <2>1, <2>2 DEF ReplayInv
<1> QED
  BY <1>4, <1>5, <1>6, <1>8, <1>9, <1>10, <1>11, <1>12, <1>13 DEF Next

\* A reply of a command to what was made.
Fits(reply, c, made) ==
  \/ reply.kind = "error" /\ reply.of # "not found"
  \/ reply.kind = "snapshot" /\ c.kind = "snapshot" /\ reply.events = Range(made)
  \/ reply.kind = "evidence"
  \/ reply.kind = "error" /\ ~(c.ids \subseteq EvidenceOf(Range(made)))

\* An answer is an error, a snapshot of what was made, or what it resolves.
LEMMA ReplyIs ==
  ASSUME NEW c, NEW made, NEW reported
  PROVE  Fits(Reply(c, made, reported), c, made)
BY DEF Fits, Reply, SnapshotOf, Error

\* Answers that can be repeated are one answer, and resolve what was shown.
LEMMA RepeatedIsSame ==
  ASSUME LedgerInv, ReplayInv
  PROVE  SameAnswer /\ EvidenceResolves
<1>1. PICK n : n = Len(catalog) /\ n \in Nat
  BY DEF LedgerInv
<1>2. ASSUME NEW g \in given, NEW h \in given
      PROVE  \E made, reported : /\ g.answer = Reply(g.command, made, reported)
                                 /\ h.answer = Reply(h.command, made, reported)
  <2>1. PICK m1, r1 : /\ Traced(catalog, Showing(catalog, rows), n, m1, r1)
                      /\ g.answer = Reply(g.command, m1, r1)
    BY <1>1 DEF ReplayInv, Repeatable
  <2>2. PICK m2, r2 : /\ Traced(catalog, Showing(catalog, rows), n, m2, r2)
                      /\ h.answer = Reply(h.command, m2, r2)
    BY <1>1 DEF ReplayInv, Repeatable
  <2>3. m1 = m2 /\ r1 = r2
    BY <1>1, <2>1, <2>2, TraceIsUnique
  <2> QED BY <2>1, <2>2, <2>3
<1>3. SameAnswer
  BY <1>2 DEF SameAnswer
<1>4. ASSUME NEW g \in given, NEW h \in given,
             g.answer.kind = "snapshot", h.command.kind = "evidence",
             h.command.ids \subseteq UNION {e.evidence : e \in g.answer.events}
      PROVE  h.answer.kind = "evidence" \/ h.answer.of # "not found"
  <2>1. PICK made, reported : /\ g.answer = Reply(g.command, made, reported)
                              /\ h.answer = Reply(h.command, made, reported)
    BY <1>2
  <2>2. g.answer.events = Range(made)
    <3>1. g.answer.kind = "snapshot"
      BY <1>4
    <3>2. Fits(g.answer, g.command, made)
      BY <2>1, ReplyIs
    <3> QED BY <3>1, <3>2 DEF Fits
  <2>3. h.command.ids \subseteq EvidenceOf(Range(made))
    BY <1>4, <2>2 DEF EvidenceOf
  <2>4. \/ h.answer.kind = "error" /\ h.answer.of # "not found"
        \/ h.answer.kind = "snapshot" /\ h.command.kind = "snapshot"
        \/ h.answer.kind = "evidence"
    <3>1. Fits(h.answer, h.command, made)
      BY <2>1, ReplyIs
    <3> QED BY <2>3, <3>1 DEF Fits
  <2> QED BY <1>4, <2>4
<1> QED BY <1>3, <1>4 DEF EvidenceResolves

LEMMA ReplayInvHolds == Spec => [](LedgerInv /\ ReplayInv)
<1>1. Init => LedgerInv /\ ProjectionInv /\ ReplayInv
  <2> SUFFICES ASSUME Init PROVE LedgerInv /\ ProjectionInv /\ ReplayInv
    OBVIOUS
  <2>1. LedgerInv
    BY CatalogsAssumption DEF Init, LedgerInv
  <2>2. ProjectionInv
    BY DEF Init, ProjectionInv, Answered, NoAnswer
  <2>3. ReplayInv
    BY DEF Init, ReplayInv
  <2> QED BY <2>1, <2>2, <2>3
<1>2. LedgerInv /\ ProjectionInv /\ ReplayInv /\ [Next]_vars
        => LedgerInv' /\ ProjectionInv' /\ ReplayInv'
  BY LedgerStep, ProjectionStep, ReplayStep
<1> QED BY <1>1, <1>2, PTL DEF Spec

(* Whatever is asked again is answered again in the same way, however      *)
(* often the fixtures were replayed in between, in whatever order faults   *)
(* let records into the ledger, and wherever commands broke off.           *)
THEOREM AnswersAgain == Spec => []SameAnswer
<1>1. LedgerInv /\ ReplayInv => SameAnswer
  BY RepeatedIsSame
<1> QED BY <1>1, ReplayInvHolds, PTL

(* Evidence of an event that any snapshot showed, whatever its window, can *)
(* be asked for, unless the projection as a whole is refused.              *)
THEOREM ShownEvidenceResolves == Spec => []EvidenceResolves
<1>1. LedgerInv /\ ReplayInv => EvidenceResolves
  BY RepeatedIsSame
<1> QED BY <1>1, ReplayInvHolds, PTL

=============================================================================
