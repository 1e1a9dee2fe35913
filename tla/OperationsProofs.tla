--------------------------- MODULE OperationsProofs ---------------------------
(***************************************************************************)
(* Proofs about the operations console.  What a command has read of each   *)
(* source is a prefix of what the source handed over; of every record read *)
(* the invariant says what has become of it: it is shown, or something     *)
(* says that it could not be used.  Neither is taken back: statuses only   *)
(* get worse, and what is shown or accepted stays.                         *)
(***************************************************************************)
EXTENDS Operations, SequenceTheorems, FiniteSetTheorems, WellFoundedInduction, TLAPS

SourceNames == {"evidence", "statuses", "alerts", "metrics", "rules", "checks", "changes", "environments"}
Phases == SourceNames \cup {"ask", "summary", "done"}

(* The sources that have been read when a phase begins.                    *)
Behind(phase) ==
  IF phase = "evidence" THEN {}
  ELSE IF phase = "statuses" THEN {"evidence"}
  ELSE IF phase = "alerts" THEN {"evidence", "statuses"}
  ELSE IF phase = "metrics" THEN {"evidence", "statuses", "alerts"}
  ELSE IF phase = "rules" THEN {"evidence", "statuses", "alerts", "metrics"}
  ELSE IF phase = "checks" THEN {"evidence", "statuses", "alerts", "metrics", "rules"}
  ELSE IF phase = "changes" THEN {"evidence", "statuses", "alerts", "metrics", "rules", "checks"}
  ELSE IF phase = "environments" THEN SourceNames \ {"environments"}
  ELSE IF phase = "summary" THEN SourceNames ELSE {}

(* The records of a source that have been read, by their places.           *)
Took(s) ==
  IF s \in Behind(pc) THEN DOMAIN input[s]
  ELSE IF pc = s THEN 1 .. (Len(input[s]) - Len(rest)) ELSE {}

-----------------------------------------------------------------------------
(* The order of the sources.                                               *)
LEMMA Succession ==
  /\ After("evidence") = "statuses" /\ After("statuses") = "alerts" /\ After("alerts") = "metrics"
  /\ After("metrics") = "rules" /\ After("rules") = "checks" /\ After("checks") = "changes"
  /\ After("changes") = "environments" /\ After("environments") = "summary"
<1>1. /\ DOMAIN Sources = 1 .. 8 /\ Len(Sources) = 8
      /\ Sources[1] = "evidence" /\ Sources[2] = "statuses" /\ Sources[3] = "alerts"
      /\ Sources[4] = "metrics" /\ Sources[5] = "rules" /\ Sources[6] = "checks"
      /\ Sources[7] = "changes" /\ Sources[8] = "environments"
  BY DEF Sources
<1>2. ASSUME NEW n \in 1 .. 8, NEW s, s = Sources[n]
      PROVE  (CHOOSE i \in DOMAIN Sources : Sources[i] = s) = n
  <2>1. ASSUME NEW i \in 1 .. 8, Sources[i] = s
        PROVE  i = n
    BY <1>1, <1>2, <2>1
  <2> QED BY <1>1, <1>2, <2>1
<1>3. ASSUME NEW n \in 1 .. 7
      PROVE  After(Sources[n]) = Sources[n + 1]
  <2>1. (CHOOSE i \in DOMAIN Sources : Sources[i] = Sources[n]) = n
    BY <1>2
  <2> QED BY <1>1, <2>1 DEF After
<1>4. After(Sources[8]) = "summary"
  <2>1. (CHOOSE i \in DOMAIN Sources : Sources[i] = Sources[8]) = 8
    BY <1>2
  <2> QED BY <1>1, <2>1 DEF After
<1> QED BY <1>1, <1>3, <1>4

(* Two different members are what makes a finite set larger than one.      *)
LEMMA MoreThanOne ==
  ASSUME NEW S, IsFiniteSet(S)
  PROVE  (Cardinality(S) > 1) <=> (\E x, y \in S : x # y)
<1>1. Cardinality(S) \in Nat
  BY FS_CardinalityType
<1>2. CASE S = {}
  BY <1>2, FS_EmptySet
<1>3. ASSUME NEW x \in S
      PROVE  (Cardinality(S) > 1) <=> (\E y, z \in S : y # z)
  <2>1. CASE S = {x}
    BY <2>1, FS_Singleton
  <2>2. CASE S # {x}
    <3>1. Cardinality(S) # 1
      <4>1. ASSUME Cardinality(S) = 1
            PROVE  FALSE
        <5>1. PICK y : S = {y}
          BY <4>1, FS_Singleton
        <5> QED BY <1>3, <2>2, <5>1
      <4> QED BY <4>1
    <3>2. Cardinality(S) # 0
      BY <1>3, FS_EmptySet
    <3>3. PICK y \in S : y # x
      BY <1>3, <2>2
    <3> QED BY <1>1, <1>3, <3>1, <3>2, <3>3
  <2> QED BY <2>1, <2>2
<1> QED BY <1>2, <1>3

(* A record of a finite list is doubled when another has its identifier.   *)
LEMMA DoubledTwice ==
  ASSUME NEW list, IsFiniteSet(DOMAIN list), NEW x, NEW key
  PROVE  Doubled(list, x, key) <=> ~Alone(list, x, key)
<1> DEFINE S == {i \in DOMAIN list : list[i][key] = x[key]}
<1>1. IsFiniteSet(S)
  BY FS_Subset
<1>2. (Cardinality(S) > 1) <=> (\E i, j \in S : i # j)
  BY <1>1, MoreThanOne
<1> QED BY <1>2 DEF Doubled, Alone

(* Places of a list are finite in number.                                  *)
LEMMA ListsAreFinite ==
  ASSUME NEW list, list \in Seq(Range(list))
  PROVE  /\ DOMAIN list = 1 .. Len(list)
         /\ Len(list) \in Nat
         /\ IsFiniteSet(DOMAIN list)
<1>1. DOMAIN list = 1 .. Len(list) /\ Len(list) \in Nat
  OBVIOUS
<1> QED BY <1>1, FS_Interval

(* Appending to a list keeps what it holds and adds what is appended.      *)
LEMMA Appended ==
  ASSUME NEW list, list \in Seq(Range(list)), NEW x
  PROVE  /\ Append(list, x) \in Seq(Range(Append(list, x)))
         /\ Range(Append(list, x)) = Range(list) \cup {x}
<1>1. list \in Seq(Range(list) \cup {x})
  OBVIOUS
<1>2. /\ DOMAIN Append(list, x) = 1 .. (Len(list) + 1)
      /\ \A i \in 1 .. Len(list) : Append(list, x)[i] = list[i]
      /\ Append(list, x)[Len(list) + 1] = x
      /\ Append(list, x) \in Seq(Range(list) \cup {x})
  BY <1>1
<1>3. Len(list) \in Nat /\ DOMAIN list = 1 .. Len(list)
  OBVIOUS
<1>4. Range(Append(list, x)) = Range(list) \cup {x}
  <2> HIDE DEF Range
  <2>1. ASSUME NEW y \in Range(Append(list, x)) PROVE y \in Range(list) \cup {x}
    BY <1>2, <1>3, <2>1 DEF Range
  <2>2. ASSUME NEW y \in Range(list) \cup {x} PROVE y \in Range(Append(list, x))
    <3>1. CASE y = x
      BY <1>2, <1>3, <3>1 DEF Range
    <3>2. CASE y \in Range(list)
      <4>1. PICK i \in 1 .. Len(list) : y = list[i]
        BY <1>3, <3>2 DEF Range
      <4>2. i \in DOMAIN Append(list, x)
        BY <1>2, <1>3, <4>1
      <4> QED BY <1>2, <4>1, <4>2 DEF Range
    <3> QED BY <2>2, <3>1, <3>2
  <2> QED BY <2>1, <2>2
<1> QED BY <1>2, <1>4

LEMMA JoinedToList ==
  ASSUME NEW list, list \in Seq(Range(list)), NEW x
  PROVE  /\ list \o << >> = list
         /\ list \o <<x>> = Append(list, x)
<1>1. list \in Seq(Range(list) \cup {x})
  OBVIOUS
<1> QED BY <1>1

-----------------------------------------------------------------------------
(***************************************************************************)
(* Reading                                                                 *)
(***************************************************************************)
ReadingOK ==
  /\ pc \in Phases /\ input \in Inputs
  /\ pc \in SourceNames =>
       /\ rest \in Seq(Range(input[pc]))
       /\ Len(rest) <= Len(input[pc])
       /\ \A j \in 1 .. Len(rest) : rest[j] = input[pc][Len(input[pc]) - Len(rest) + j]

LEMMA SourcesAreLists ==
  ASSUME input \in Inputs, NEW s \in SourceNames
  PROVE  /\ input[s] \in Seq(Range(input[s]))
         /\ Len(input[s]) \in Nat
         /\ DOMAIN input[s] = 1 .. Len(input[s])
         /\ IsFiniteSet(DOMAIN input[s])
<1>1. input[s] \in Seq(Range(input[s]))
  BY InputsAssumption DEF SourceNames
<1> QED BY <1>1, ListsAreFinite

(* A record that is read is the one after those that have been.            *)
LEMMA ReadNext ==
  ASSUME ReadingOK, input' = input, NEW s \in SourceNames, Read(s)
  PROVE  /\ ReadingOK'
         /\ \E n \in DOMAIN input[s] : /\ Head(rest) = input[s][n]
                                       /\ n \notin Took(s)
                                       /\ Took(s)' = Took(s) \cup {n}
         /\ \A t \in SourceNames \ {s} : Took(t)' = Took(t)
<1> DEFINE l == Len(input[s])
           r == Len(rest)
<1>1. /\ pc = s /\ rest # << >> /\ rest' = Tail(rest) /\ pc' = pc
  BY DEF Read
<1>2. /\ rest \in Seq(Range(input[s])) /\ r <= l
      /\ \A j \in 1 .. r : rest[j] = input[s][l - r + j]
  BY <1>1 DEF ReadingOK
<1>3. l \in Nat /\ DOMAIN input[s] = 1 .. l
  BY SourcesAreLists DEF ReadingOK
<1>4. /\ r \in Nat /\ r > 0 /\ Head(rest) = rest[1]
      /\ Tail(rest) \in Seq(Range(input[s])) /\ Len(Tail(rest)) = r - 1
      /\ \A j \in 1 .. (r - 1) : Tail(rest)[j] = rest[j + 1]
  BY <1>1, <1>2
<1> HIDE DEF l, r
<1>5. \A j \in 1 .. (r - 1) : Tail(rest)[j] = input[s][l - (r - 1) + j]
  <2> TAKE j \in 1 .. (r - 1)
  <2>1. j + 1 \in 1 .. r /\ l - r + (j + 1) = l - (r - 1) + j
    BY <1>3, <1>4
  <2> QED BY <1>2, <1>4, <2>1
<1>6. ReadingOK'
  BY <1>1, <1>2, <1>3, <1>4, <1>5 DEF ReadingOK, l, r
<1>7. s \notin Behind(pc)
  BY <1>1 DEF Behind, SourceNames
<1>8. Took(s) = 1 .. (l - r) /\ Took(s)' = 1 .. (l - (r - 1))
  BY <1>1, <1>4, <1>7 DEF Took, l, r
<1>9. l - r + 1 \in DOMAIN input[s] /\ Head(rest) = input[s][l - r + 1]
  BY <1>2, <1>3, <1>4 DEF l, r
<1>10. l - r + 1 \notin Took(s) /\ Took(s)' = Took(s) \cup {l - r + 1}
  BY <1>2, <1>3, <1>4, <1>8 DEF l, r
<1>11. \A t \in SourceNames \ {s} : Took(t)' = Took(t)
  BY <1>1 DEF Took
<1> QED BY <1>6, <1>9, <1>10, <1>11

(* At the end of a source nothing of it is left, nothing of the next read. *)
LEMMA ReadOn ==
  ASSUME ReadingOK, input' = input, NEW s \in SourceNames, Exhausted(s)
  PROVE  /\ ReadingOK'
         /\ pc' = After(s)
         /\ \A t \in SourceNames : Took(t)' = Took(t)
<1>1. /\ pc = s /\ rest = << >> /\ pc' = After(s)
      /\ rest' = IF pc' = "summary" THEN << >> ELSE input[pc']
  BY DEF Exhausted, Open
<1>2. pc' \in Phases /\ (pc' \in SourceNames \/ pc' = "summary")
  BY <1>1, Succession DEF SourceNames, Phases
<1>3. pc' \in SourceNames => rest' = input[pc']
  BY <1>1 DEF SourceNames
<1>4. \A t \in SourceNames : /\ input[t] \in Seq(Range(input[t]))
                             /\ Len(input[t]) \in Nat
                             /\ DOMAIN input[t] = 1 .. Len(input[t])
  BY SourcesAreLists DEF ReadingOK
<1>5. ReadingOK'
  <2>1. ASSUME pc' \in SourceNames
        PROVE  /\ rest' \in Seq(Range(input[pc']))
               /\ Len(rest') <= Len(input[pc'])
               /\ \A j \in 1 .. Len(rest') : rest'[j] = input[pc'][Len(input[pc']) - Len(rest') + j]
    <3>1. rest' = input[pc'] /\ Len(input[pc']) \in Nat
      BY <1>3, <1>4, <2>1
    <3>2. \A j \in 1 .. Len(rest') : Len(input[pc']) - Len(rest') + j = j
      BY <3>1
    <3> QED BY <1>4, <2>1, <3>1, <3>2
  <2> QED BY <1>2, <2>1 DEF ReadingOK
<1>6. Behind(pc') = Behind(pc) \cup {s} /\ s \notin Behind(pc) /\ pc' \notin Behind(pc') /\ pc' # s
  BY <1>1, Succession DEF Behind, SourceNames
<1>7. Took(s) = DOMAIN input[s]
  BY <1>1, <1>4, <1>6 DEF Took
<1>8. pc' \in SourceNames => Took(pc') = {} /\ (1 .. (Len(input[pc']) - Len(rest'))) = {}
  <2>1. pc' \notin Behind(pc) /\ pc # pc'
    BY <1>1, <1>6
  <2>2. pc' \in SourceNames => Took(pc') = {}
    BY <2>1 DEF Took
  <2>3. pc' \in SourceNames => Len(input[pc']) - Len(rest') = 0
    BY <1>3, <1>4
  <2> QED BY <2>2, <2>3
<1>9. ASSUME NEW t \in SourceNames
      PROVE  Took(t)' = Took(t)
  <2>1. CASE t = s
    BY <1>6, <1>7, <2>1 DEF Took
  <2>2. CASE t = pc' /\ t # s
    BY <1>6, <1>8, <2>2 DEF Took
  <2>3. CASE t # s /\ t # pc'
    BY <1>1, <1>6, <2>3 DEF Took
  <2> QED BY <2>1, <2>2, <2>3
<1> QED BY <1>1, <1>5, <1>9

-----------------------------------------------------------------------------
(***************************************************************************)
(* Evidence and statuses                                                   *)
(***************************************************************************)
StoreOK(s) == DOMAIN s = {"accepted", "rejected"}
StatusOK(s) == DOMAIN s = {"state", "reason", "evidence"} /\ s.state \in SourceStates
BookOK(b) == \A k \in DOMAIN b : StatusOK(b[k])

(* Generated evidence is accepted unless its identifier was rejected, and  *)
(* takes nothing away.                                                     *)
LEMMA Generated ==
  ASSUME NEW s, StoreOK(s), NEW id, NEW content
  PROVE  /\ StoreOK(Generate(s, id, content))
         /\ Generate(s, id, content).rejected = s.rejected
         /\ Accepted(Generate(s, id, content)) = Accepted(s) \cup ({id} \ s.rejected)
<1>1. CASE id \in Taken(s)
  BY <1>1 DEF Generate, Taken, Accepted
<1>2. CASE id \notin Taken(s)
  BY <1>2 DEF Generate, Accept, Taken, Accepted, StoreOK
<1> QED BY <1>1, <1>2

LEMMA Ranks ==
  /\ Rank("fresh") = 0 /\ Rank("stale") = 1 /\ Rank("unavailable") = 2 /\ Rank("unverified") = 3
  /\ \A s \in SourceStates : Rank(s) \in 0 .. 3
BY DEF Rank, SourceStates

(* Of two statuses of a source the worse state stands, whichever came      *)
(* first.                                                                  *)
LEMMA MergedIsWorse ==
  ASSUME NEW b, BookOK(b), NEW key, NEW s, StatusOK(s)
  PROVE  /\ BookOK(Merge(b, key, s))
         /\ DOMAIN Merge(b, key, s) = DOMAIN b \cup {key}
         /\ \A k \in DOMAIN b : Rank(Merge(b, key, s)[k].state) >= Rank(b[k].state)
         /\ Rank(Merge(b, key, s)[key].state) >= Rank(s.state)
<1>1. CASE key \notin DOMAIN b
  <2>1. Merge(b, key, s) = [k \in DOMAIN b \cup {key} |-> IF k = key THEN s ELSE b[k]]
    BY <1>1 DEF Merge
  <2>2. \A k \in DOMAIN b : Merge(b, key, s)[k] = b[k]
    BY <1>1, <2>1
  <2>3. Merge(b, key, s)[key] = s
    BY <2>1
  <2>4. DOMAIN Merge(b, key, s) = DOMAIN b \cup {key}
    BY <2>1
  <2> QED BY <2>2, <2>3, <2>4, Ranks DEF BookOK, StatusOK
<1>2. CASE key \in DOMAIN b
  <2> DEFINE old == b[key]
             better == IF Rank(s.state) > Rank(old.state) THEN s
                       ELSE [old EXCEPT !.reason = IF @ = "none" THEN s.reason ELSE @]
             merged == [better EXCEPT !.evidence = old.evidence \cup s.evidence]
  <2>1. Merge(b, key, s) = [b EXCEPT ![key] = merged]
    BY <1>2 DEF Merge
  <2>2. StatusOK(old)
    BY <1>2 DEF BookOK
  <2>3. StatusOK(better) /\ Rank(better.state) >= Rank(s.state) /\ Rank(better.state) >= Rank(old.state)
    BY <2>2, Ranks DEF StatusOK
  <2>4. StatusOK(merged) /\ merged.state = better.state
    BY <2>3 DEF StatusOK
  <2> HIDE DEF merged, better
  <2>5. /\ DOMAIN Merge(b, key, s) = DOMAIN b
        /\ Merge(b, key, s)[key] = merged
        /\ \A k \in DOMAIN b : k # key => Merge(b, key, s)[k] = b[k]
    BY <1>2, <2>1
  <2> QED BY <1>2, <2>3, <2>4, <2>5, Ranks DEF BookOK, StatusOK
<1> QED BY <1>1, <1>2

(* The source that a key names is in a state at least as bad.              *)
Worse(k, state) == k \in DOMAIN book /\ Rank(book[k].state) >= Rank(state)
(* Something unusable was read: it says so, or will at the end of it.      *)
Unusable(phases, key) == (pc \in phases /\ bad) \/ Worse(key, "unverified")

Lists ==
  /\ queue \in Seq(Range(queue))
  /\ environments \in Seq(Range(environments))
  /\ changes \in Seq(Range(changes))

TypeInv == ReadingOK /\ StoreOK(store) /\ BookOK(book) /\ Lists

(* Nothing that was accepted, rejected, said or shown is taken back.       *)
Stays ==
  /\ Accepted(store) \subseteq Accepted(store')
  /\ store'.rejected = store.rejected
  /\ \A k \in DOMAIN book : k \in DOMAIN book' /\ Rank(book'[k].state) >= Rank(book[k].state)
  /\ Range(queue) \subseteq Range(queue')
  /\ Range(environments) \subseteq Range(environments')
  /\ Range(changes) \subseteq Range(changes')
Grows == StoreOK(store') /\ BookOK(book') /\ Lists' /\ Stays

LEMMA StaysIsWorse ==
  ASSUME BookOK(book), BookOK(book'), Stays
  PROVE  \A k : \A state \in SourceStates : Worse(k, state) => Worse(k, state)'
<1>1. \A k \in DOMAIN book : Rank(book[k].state) \in 0 .. 3
  BY Ranks DEF BookOK, StatusOK
<1>2. \A k \in DOMAIN book' : Rank(book'[k].state) \in 0 .. 3
  BY Ranks DEF BookOK, StatusOK
<1> QED BY <1>1, <1>2, Ranks DEF Worse, Stays

-----------------------------------------------------------------------------
(***************************************************************************)
(* What has become of what was read                                        *)
(***************************************************************************)
Supplies(n, id) == input.evidence[n].inside /\ input.evidence[n].id = id
TaintedBy(places, id) ==
  \E n \in places : /\ Supplies(n, id)
                    /\ ~input.evidence[n].verified \/ \E m \in places \ {n} : Supplies(m, id)

EvidenceRead ==
  /\ pc = "ask" => store = EmptyStore
  /\ \A id : id \in store.rejected <=> TaintedBy(Took("evidence"), id)
  /\ \A n \in Took("evidence") : \A id :
       Supplies(n, id) /\ ~TaintedBy(Took("evidence"), id) => id \in Accepted(store)
  /\ pc = "evidence" =>
       \A id \in Accepted(store) : \E n \in Took("evidence") : Supplies(n, id)

StatusRead(s) ==
  /\ Worse(s.key, s.state)
  /\ s.evidence = {} \/ Usable(store, s.evidence) # {} \/ Worse(s.key, "unverified")

AlertRead(a) ==
  /\ a.state = "resolved" \/ FineAlert(a) \/ Unusable({"alerts"}, <<"alertmanager">>)
  /\ FineAlert(a) => \E x \in Range(queue) : x.evidence = AlertId(a) /\ x.severity = a.severity

MetricRead(m) == ~m.inside \/ FineMetric(m) \/ Unusable({"metrics", "rules"}, <<"prometheus">>)

RuleRead(r) == ~r.enabled \/ FineRule(r) \/ Unusable({"rules"}, <<"prometheus">>)

CheckRead(s) ==
  /\ FineCheck(s) \/ Unusable({"checks"}, <<"health_checks">>)
  /\ FineCheck(s) /\ InTrouble(s) => \E x \in Range(queue) : x.id = <<"check", s.id>>

ChangeRead(c) == FineChange(c) => \E x \in Range(changes) : x.id = c.id

EnvironmentRead(e) ==
  /\ \/ FineEnvironment(e) /\ Backed(e, Usable(store, e.evidence))
     \/ \E k \in DOMAIN book : ~OfChanges(k) /\ Worse(k, "unavailable")
  /\ FineEnvironment(e) /\ Backed(e, Sound(e.evidence)) =>
       \E x \in Range(environments) : x.id = e.id /\ x.health = e.health

RecordsRead ==
  /\ \A n \in Took("statuses") : StatusRead(input.statuses[n])
  /\ \A n \in Took("alerts") : AlertRead(input.alerts[n])
  /\ \A n \in Took("metrics") : MetricRead(input.metrics[n])
  /\ \A n \in Took("rules") : RuleRead(input.rules[n])
  /\ \A n \in Took("checks") : CheckRead(input.checks[n])
  /\ \A n \in Took("changes") : ChangeRead(input.changes[n])
  /\ \A n \in Took("environments") : EnvironmentRead(input.environments[n])

ReadInv == TypeInv /\ EvidenceRead /\ RecordsRead

(* A doubt about a source outlives the steps in which it may be raised.    *)
DoubtStays ==
  /\ Unusable({"alerts"}, <<"alertmanager">>) => Unusable({"alerts"}, <<"alertmanager">>)'
  /\ Unusable({"metrics", "rules"}, <<"prometheus">>) => Unusable({"metrics", "rules"}, <<"prometheus">>)'
  /\ Unusable({"rules"}, <<"prometheus">>) => Unusable({"rules"}, <<"prometheus">>)'
  /\ Unusable({"checks"}, <<"health_checks">>) => Unusable({"checks"}, <<"health_checks">>)'

LEMMA FinenessFixed ==
  ASSUME input' = input
  PROVE  /\ \A a : FineAlert(a)' <=> FineAlert(a)
         /\ \A m : FineMetric(m)' <=> FineMetric(m)
         /\ \A r : FineRule(r)' <=> FineRule(r)
         /\ \A s : FineCheck(s)' <=> FineCheck(s)
         /\ \A s : InTrouble(s)' <=> InTrouble(s)
         /\ \A c : FineChange(c)' <=> FineChange(c)
         /\ \A e : FineEnvironment(e)' <=> FineEnvironment(e)
         /\ \A e, ids : Backed(e, ids)' <=> Backed(e, ids)
         /\ \A ids : Sound(ids)' = Sound(ids)
         /\ \A id : Tainted(id)' <=> Tainted(id)
<1>1. \A id : Tainted(id)' <=> Tainted(id)
  BY DEF Tainted
<1>2. Metrics' = Metrics
  BY DEF Metrics
<1>3. \A r : Matching(r)' = Matching(r)
  BY <1>2 DEF Matching
<1>4. \A a : FineAlert(a)' <=> FineAlert(a)
  BY <1>1 DEF FineAlert
<1>5. \A m : FineMetric(m)' <=> FineMetric(m)
  BY <1>1, <1>2 DEF FineMetric
<1>6. \A r : FineRule(r)' <=> FineRule(r)
  BY <1>1, <1>2, <1>3 DEF FineRule
<1>7. \A s : FineCheck(s)' <=> FineCheck(s)
  BY <1>1 DEF FineCheck
<1>8. \A s : InTrouble(s)' <=> InTrouble(s)
  BY DEF InTrouble
<1>9. \A ids : Sound(ids)' = Sound(ids)
  BY <1>1 DEF Sound
<1>10. \A c : FineChange(c)' <=> FineChange(c)
  BY <1>1, <1>9 DEF FineChange
<1>11. \A e : FineEnvironment(e)' <=> FineEnvironment(e)
  BY DEF FineEnvironment
<1>12. \A e, ids : Backed(e, ids)' <=> Backed(e, ids)
  BY <1>1 DEF Backed
<1> QED BY <1>1, <1>4, <1>5, <1>6, <1>7, <1>8, <1>9, <1>10, <1>11, <1>12

(* What was said of a record holds on while nothing is taken back.         *)
LEMMA StaysRead ==
  ASSUME BookOK(book), Grows, DoubtStays, input' = input
  PROVE  /\ \A s : s.state \in SourceStates /\ StatusRead(s) => StatusRead(s)'
         /\ \A a : AlertRead(a) => AlertRead(a)'
         /\ \A m : MetricRead(m) => MetricRead(m)'
         /\ \A r : RuleRead(r) => RuleRead(r)'
         /\ \A s : CheckRead(s) => CheckRead(s)'
         /\ \A c : ChangeRead(c) => ChangeRead(c)'
         /\ \A e : EnvironmentRead(e) => EnvironmentRead(e)'
<1>1. \A k : \A state \in SourceStates : Worse(k, state) => Worse(k, state)'
  BY StaysIsWorse DEF Grows
<1>2. \A ids : Usable(store, ids) \subseteq Usable(store', ids)
  BY DEF Grows, Stays, Usable
<1>3. "unverified" \in SourceStates /\ "unavailable" \in SourceStates
  BY DEF SourceStates
<1>4. /\ Range(queue) \subseteq Range(queue')
      /\ Range(environments) \subseteq Range(environments')
      /\ Range(changes) \subseteq Range(changes')
  BY DEF Grows, Stays
<1>5. \A s : s.state \in SourceStates /\ StatusRead(s) => StatusRead(s)'
  BY <1>1, <1>2, <1>3 DEF StatusRead
<1>6. \A a : AlertRead(a) => AlertRead(a)'
  BY <1>4, FinenessFixed DEF AlertRead, DoubtStays, AlertId
<1>7. \A m : MetricRead(m) => MetricRead(m)'
  BY FinenessFixed DEF MetricRead, DoubtStays
<1>8. \A r : RuleRead(r) => RuleRead(r)'
  BY FinenessFixed DEF RuleRead, DoubtStays
<1>9. \A s : CheckRead(s) => CheckRead(s)'
  BY <1>4, FinenessFixed DEF CheckRead, DoubtStays
<1>10. \A c : ChangeRead(c) => ChangeRead(c)'
  BY <1>4, FinenessFixed DEF ChangeRead
<1>11. \A e : EnvironmentRead(e) => EnvironmentRead(e)'
  <2> TAKE e
  <2>1. HAVE EnvironmentRead(e)
  <2>2. (\E k \in DOMAIN book : ~OfChanges(k) /\ Worse(k, "unavailable"))
        => (\E k \in DOMAIN book : ~OfChanges(k) /\ Worse(k, "unavailable"))'
    BY <1>1, <1>3 DEF Worse, OfChanges
  <2>3. Backed(e, Usable(store, e.evidence)) => Backed(e, Usable(store, e.evidence))'
    BY <1>2, FinenessFixed DEF Backed
  <2>4. FineEnvironment(e)' <=> FineEnvironment(e)
    BY FinenessFixed
  <2>5. Backed(e, Sound(e.evidence))' <=> Backed(e, Sound(e.evidence))
    BY FinenessFixed DEF Backed
  <2>6. (\E x \in Range(environments) : x.id = e.id /\ x.health = e.health)
        => (\E x \in Range(environments) : x.id = e.id /\ x.health = e.health)'
    BY <1>4
  <2> QED BY <2>1, <2>2, <2>3, <2>4, <2>5, <2>6 DEF EnvironmentRead
<1> QED BY <1>5, <1>6, <1>7, <1>8, <1>9, <1>10, <1>11

-----------------------------------------------------------------------------
(***************************************************************************)
(* One step                                                                *)
(***************************************************************************)
NowRead(s, r) ==
  /\ s = "statuses" => StatusRead(r)
  /\ s = "alerts" => AlertRead(r)
  /\ s = "metrics" => MetricRead(r)
  /\ s = "rules" => RuleRead(r)
  /\ s = "checks" => CheckRead(r)
  /\ s = "changes" => ChangeRead(r)
  /\ s = "environments" => EnvironmentRead(r)

(* What holds of the records already read goes on holding.                 *)
LEMMA ReadBefore ==
  ASSUME ReadInv, Grows, DoubtStays, input' = input
  PROVE  /\ \A n \in Took("statuses") : StatusRead(input.statuses[n])'
         /\ \A n \in Took("alerts") : AlertRead(input.alerts[n])'
         /\ \A n \in Took("metrics") : MetricRead(input.metrics[n])'
         /\ \A n \in Took("rules") : RuleRead(input.rules[n])'
         /\ \A n \in Took("checks") : CheckRead(input.checks[n])'
         /\ \A n \in Took("changes") : ChangeRead(input.changes[n])'
         /\ \A n \in Took("environments") : EnvironmentRead(input.environments[n])'
<1>1. BookOK(book) /\ ReadingOK
  BY DEF ReadInv, TypeInv
<1>2. \A n \in Took("statuses") : input.statuses[n].state \in SourceStates
  <2>1. Took("statuses") \subseteq DOMAIN input.statuses
    <3>1. "statuses" \in SourceNames
      BY DEF SourceNames
    <3>2. DOMAIN input["statuses"] = 1 .. Len(input["statuses"]) /\ Len(input["statuses"]) \in Nat
      BY <1>1, <3>1, SourcesAreLists DEF ReadingOK
    <3>3. CASE pc = "statuses"
      <4>1. Len(rest) \in Nat
        BY <1>1, <3>1, <3>3 DEF ReadingOK
      <4> QED BY <3>2, <3>3, <4>1 DEF Took, Behind
    <3> QED BY <3>3 DEF Took
  <2> QED BY <1>1, <2>1, InputsAssumption DEF ReadingOK
<1>3. PICK i : i = input
  OBVIOUS
<1>4. /\ \A n \in Took("statuses") : i.statuses[n].state \in SourceStates /\ StatusRead(i.statuses[n])
      /\ \A n \in Took("alerts") : AlertRead(i.alerts[n])
      /\ \A n \in Took("metrics") : MetricRead(i.metrics[n])
      /\ \A n \in Took("rules") : RuleRead(i.rules[n])
      /\ \A n \in Took("checks") : CheckRead(i.checks[n])
      /\ \A n \in Took("changes") : ChangeRead(i.changes[n])
      /\ \A n \in Took("environments") : EnvironmentRead(i.environments[n])
  BY <1>2, <1>3 DEF ReadInv, RecordsRead
<1>5. /\ \A n \in Took("statuses") : StatusRead(i.statuses[n])'
      /\ \A n \in Took("alerts") : AlertRead(i.alerts[n])'
      /\ \A n \in Took("metrics") : MetricRead(i.metrics[n])'
      /\ \A n \in Took("rules") : RuleRead(i.rules[n])'
      /\ \A n \in Took("checks") : CheckRead(i.checks[n])'
      /\ \A n \in Took("changes") : ChangeRead(i.changes[n])'
      /\ \A n \in Took("environments") : EnvironmentRead(i.environments[n])'
  BY <1>1, <1>4, StaysRead
<1>6. i = input'
  BY <1>3
<1> QED BY <1>5, <1>6

(* A step that leaves the records read as they are keeps the invariant.    *)
LEMMA NoneRead ==
  ASSUME ReadInv, Grows, DoubtStays, input' = input, ReadingOK', pc' \notin {"ask", "evidence"},
         \A t \in SourceNames : Took(t)' = Took(t)
  PROVE  ReadInv'
<1>1. \A t \in {"evidence", "statuses", "alerts", "metrics", "rules", "checks", "changes", "environments"} :
        Took(t)' = Took(t)
  BY DEF SourceNames
<1>2. TypeInv'
  BY DEF TypeInv, Grows
<1>3. EvidenceRead'
  <2>1. \A id : TaintedBy(Took("evidence"), id)' <=> TaintedBy(Took("evidence"), id)
    BY <1>1 DEF TaintedBy, Supplies
  <2>2. store'.rejected = store.rejected /\ Accepted(store) \subseteq Accepted(store')
    BY DEF Grows, Stays
  <2>3. \A n, id : Supplies(n, id)' <=> Supplies(n, id)
    BY DEF Supplies
  <2> QED BY <1>1, <2>1, <2>2, <2>3 DEF ReadInv, EvidenceRead
<1>4. RecordsRead'
  BY <1>1, ReadBefore DEF RecordsRead
<1> QED BY <1>2, <1>3, <1>4 DEF ReadInv

(* So does one that reads a record of a source and accounts for it.        *)
LEMMA OneRead ==
  ASSUME ReadInv, Grows, DoubtStays, input' = input, NEW s \in SourceNames \ {"evidence"}, Read(s),
         NEW r, r = Head(rest), NowRead(s, r)'
  PROVE  ReadInv'
<1>1. ReadingOK
  BY DEF ReadInv, TypeInv
<1>2. PICK n \in DOMAIN input[s] : r = input[s][n] /\ Took(s)' = Took(s) \cup {n}
  BY <1>1, ReadNext
<1>3. ReadingOK' /\ \A t \in SourceNames \ {s} : Took(t)' = Took(t)
  BY <1>1, ReadNext
<1>4. TypeInv'
  BY <1>3 DEF TypeInv, Grows
<1>5. Took("evidence")' = Took("evidence")
  BY <1>3 DEF SourceNames
<1>6. EvidenceRead'
  <2>1. \A id : TaintedBy(Took("evidence"), id)' <=> TaintedBy(Took("evidence"), id)
    BY <1>5 DEF TaintedBy, Supplies
  <2>2. store'.rejected = store.rejected /\ Accepted(store) \subseteq Accepted(store')
    BY DEF Grows, Stays
  <2>3. \A k, id : Supplies(k, id)' <=> Supplies(k, id)
    BY DEF Supplies
  <2>4. pc' \notin {"ask", "evidence"}
    BY DEF Read, SourceNames
  <2> QED BY <1>5, <2>1, <2>2, <2>3, <2>4 DEF ReadInv, EvidenceRead
<1>7. RecordsRead'
  <2>1. r = input'[s][n]
    BY <1>2
  <2>2. \A k \in Took("statuses")' : StatusRead(input.statuses[k])'
    BY <1>2, <1>3, <2>1, ReadBefore DEF NowRead, SourceNames
  <2>3. \A k \in Took("alerts")' : AlertRead(input.alerts[k])'
    BY <1>2, <1>3, <2>1, ReadBefore DEF NowRead, SourceNames
  <2>4. \A k \in Took("metrics")' : MetricRead(input.metrics[k])'
    BY <1>2, <1>3, <2>1, ReadBefore DEF NowRead, SourceNames
  <2>5. \A k \in Took("rules")' : RuleRead(input.rules[k])'
    BY <1>2, <1>3, <2>1, ReadBefore DEF NowRead, SourceNames
  <2>6. \A k \in Took("checks")' : CheckRead(input.checks[k])'
    BY <1>2, <1>3, <2>1, ReadBefore DEF NowRead, SourceNames
  <2>7. \A k \in Took("changes")' : ChangeRead(input.changes[k])'
    BY <1>2, <1>3, <2>1, ReadBefore DEF NowRead, SourceNames
  <2>8. \A k \in Took("environments")' : EnvironmentRead(input.environments[k])'
    BY <1>2, <1>3, <2>1, ReadBefore DEF NowRead, SourceNames
  <2> QED BY <2>2, <2>3, <2>4, <2>5, <2>6, <2>7, <2>8 DEF RecordsRead
<1> QED BY <1>4, <1>6, <1>7 DEF ReadInv

(* Tainted is what all the evidence taints.                                *)
LEMMA TaintedByAll ==
  ASSUME ReadingOK
  PROVE  \A id : TaintedBy(DOMAIN input.evidence, id) <=> Tainted(id)
<1> DEFINE all == DOMAIN input.evidence
<1>1. IsFiniteSet(all)
  <2>1. IsFiniteSet(DOMAIN input["evidence"])
    BY SourcesAreLists DEF ReadingOK, SourceNames
  <2> QED BY <2>1
<1> TAKE id
<1> DEFINE mine == {i \in all : input.evidence[i].inside /\ input.evidence[i].id = id}
<1>2. IsFiniteSet(mine)
  BY <1>1, FS_Subset
<1>3. (Cardinality(mine) > 1) <=> (\E i, j \in mine : i # j)
  BY <1>2, MoreThanOne
<1>4. Tainted(id) <=> (\E i, j \in mine : i # j) \/ (\E i \in mine : ~input.evidence[i].verified)
  BY <1>3 DEF Tainted
<1> QED BY <1>4 DEF TaintedBy, Supplies

(* Once the evidence has been read, what is rejected is what is tainted,   *)
(* and what is sound is usable.                                            *)
LEMMA Sifted ==
  ASSUME ReadInv, "evidence" \in Behind(pc)
  PROVE  /\ \A id : id \in store.rejected <=> Tainted(id)
         /\ \A ids : Sound(ids) \subseteq Usable(store, ids)
<1> DEFINE all == DOMAIN input.evidence
<1>1. Took("evidence") = all
  BY DEF Took
<1>2. \A id : TaintedBy(all, id) <=> Tainted(id)
  BY TaintedByAll DEF ReadInv, TypeInv
<1>3. \A id : id \in store.rejected <=> Tainted(id)
  BY <1>1, <1>2 DEF ReadInv, EvidenceRead
<1>4. ASSUME NEW ids, NEW id \in Sound(ids)
      PROVE  id \in Usable(store, ids)
  <2>1. PICK n \in all : Supplies(n, id) /\ ~Tainted(id) /\ id \in ids
    BY <1>4 DEF Sound, Supplies
  <2>2. id \in Accepted(store)
    BY <1>1, <1>2, <2>1 DEF ReadInv, EvidenceRead
  <2> QED BY <2>1, <2>2 DEF Usable
<1> QED BY <1>3, <1>4

LEMMA PassGrows ==
  ASSUME TypeInv, UNCHANGED <<store, queue, book, environments, changes>>
  PROVE  Grows
<1>1. \A k \in DOMAIN book : Rank(book[k].state) >= Rank(book[k].state)
  BY Ranks DEF TypeInv, BookOK, StatusOK
<1> QED BY <1>1 DEF TypeInv, Grows, Stays, Lists

LEMMA KeepGrows ==
  ASSUME TypeInv, NEW id, id \notin store.rejected, NEW content, NEW items, NEW x, items \in {<< >>, <<x>>},
         Keep(id, content, items), UNCHANGED <<book, environments, changes>>
  PROVE  Grows /\ (items = <<x>> => x \in Range(queue'))
<1>1. StoreOK(store') /\ store'.rejected = store.rejected /\ Accepted(store) \subseteq Accepted(store')
  BY Generated DEF Keep, TypeInv
<1>2. queue' = queue \o items /\ queue \in Seq(Range(queue))
  BY DEF Keep, TypeInv, Lists
<1>3. items = << >> => queue' = queue
  BY <1>2, JoinedToList
<1>4. items = <<x>> => queue' = Append(queue, x)
  BY <1>2, JoinedToList
<1>5. /\ queue' \in Seq(Range(queue')) /\ Range(queue) \subseteq Range(queue')
      /\ items = <<x>> => x \in Range(queue')
  <2>1. CASE items = << >>
    <3>1. << >> # <<x>>
      BY Len(<< >>) = 0, Len(<<x>>) = 1
    <3>2. items # <<x>>
      BY <2>1, <3>1
    <3>3. queue' = queue
      BY <1>3, <2>1
    <3> QED BY <1>2, <3>2, <3>3
  <2>2. CASE items = <<x>>
    <3>1. queue' = Append(queue, x)
      BY <1>4, <2>2
    <3>2. /\ Append(queue, x) \in Seq(Range(Append(queue, x)))
          /\ Range(Append(queue, x)) = Range(queue) \cup {x}
      BY <1>2, Appended
    <3> QED BY <3>1, <3>2
  <2> QED BY <2>1, <2>2
<1>6. \A k \in DOMAIN book : Rank(book[k].state) >= Rank(book[k].state)
  BY Ranks DEF TypeInv, BookOK, StatusOK
<1> QED BY <1>1, <1>5, <1>6 DEF TypeInv, Grows, Stays, Lists

LEMMA MarkGrows ==
  ASSUME TypeInv, NEW key, NEW s, StatusOK(s), Mark(key, s), UNCHANGED <<store, queue, environments, changes>>
  PROVE  Grows /\ Worse(key, s.state)'
<1> DEFINE t == [s EXCEPT !.evidence = Usable(store, @)]
<1>1. StatusOK(t) /\ t.state = s.state
  BY DEF StatusOK
<1>2. book' = Merge(book, key, t)
  BY DEF Mark
<1> HIDE DEF t
<1>3. /\ BookOK(book') /\ DOMAIN book' = DOMAIN book \cup {key}
      /\ \A k \in DOMAIN book : Rank(book'[k].state) >= Rank(book[k].state)
      /\ Rank(book'[key].state) >= Rank(s.state)
  BY <1>1, <1>2, MergedIsWorse DEF TypeInv
<1> QED BY <1>3 DEF TypeInv, Grows, Stays, Lists, Worse

LEMMA VerdictTyped ==
  ASSUME TypeInv, NEW key, NEW empty, NEW otherwise, otherwise[1] \in SourceStates
  PROVE  /\ StatusOK(Verdict(key, empty, otherwise))
         /\ bad => Verdict(key, empty, otherwise).state = "unverified"
<1>1. Known(key) \in SourceStates
  BY DEF Known, TypeInv, BookOK, StatusOK, SourceStates
<1>2. \A a, r, e : a \in SourceStates => StatusOK(Status(a, r, e)) /\ Status(a, r, e).state = a
  BY DEF Status, StatusOK
<1>3. "unverified" \in SourceStates
  BY DEF SourceStates
<1> QED BY <1>1, <1>2, <1>3 DEF Verdict

LEMMA DoubtHeld ==
  ASSUME TypeInv, Grows, pc' = pc, bad => bad'
  PROVE  DoubtStays
<1>1. \A k : Worse(k, "unverified") => Worse(k, "unverified")'
  BY StaysIsWorse DEF TypeInv, Grows, SourceStates
<1> QED BY <1>1 DEF DoubtStays, Unusable

(* What is read is a record of its source.                                 *)
LEMMA HeadIsInput ==
  ASSUME ReadingOK, NEW s \in SourceNames, pc = s, rest # << >>
  PROVE  \E n \in DOMAIN input[s] : Head(rest) = input[s][n]
<1>1. rest \in Seq(Range(input[s]))
  BY DEF ReadingOK
<1>2. Head(rest) \in Range(input[s])
  BY <1>1
<1> QED BY <1>2 DEF Range

(* Reading the evidence: nothing else has been read yet.                   *)
LEMMA SiftStep ==
  ASSUME ReadInv, SiftEvidence
  PROVE  ReadInv'
<1>1. /\ Read("evidence") /\ store' = Sift(store, Head(rest)) /\ input' = input
      /\ UNCHANGED <<book, queue, changes, environments>>
  BY DEF SiftEvidence, frame
<1>2. ReadingOK /\ StoreOK(store) /\ EvidenceRead
  BY DEF ReadInv, TypeInv
<1>3. "evidence" \in SourceNames /\ pc = "evidence" /\ pc' = "evidence"
  BY <1>1 DEF SourceNames, Read
<1>4. PICK n \in DOMAIN input["evidence"] :
        /\ Head(rest) = input["evidence"][n] /\ n \notin Took("evidence")
        /\ Took("evidence")' = Took("evidence") \cup {n}
  BY <1>1, <1>2, <1>3, ReadNext
<1>5. ReadingOK'
  BY <1>1, <1>2, <1>3, ReadNext
<1> DEFINE e == input.evidence[n]
           T == Took("evidence")
<1>6. e = Head(rest) /\ \A id : Supplies(n, id) <=> (e.inside /\ e.id = id)
  BY <1>4 DEF Supplies
<1>7. /\ \A id : id \in store.rejected <=> TaintedBy(T, id)
      /\ \A m \in T : \A id : Supplies(m, id) /\ ~TaintedBy(T, id) => id \in Accepted(store)
      /\ \A id \in Accepted(store) : \E m \in T : Supplies(m, id)
  BY <1>2, <1>3 DEF EvidenceRead
<1>8. ASSUME NEW id
      PROVE  TaintedBy(T \cup {n}, id) <=>
               \/ TaintedBy(T, id)
               \/ Supplies(n, id) /\ (~e.verified \/ \E m \in T : Supplies(m, id))
  <2>1. n \notin T
    BY <1>4
  <2> QED BY <2>1 DEF TaintedBy
<1>9. /\ StoreOK(store')
      /\ \A id : id \in store'.rejected <=> TaintedBy(T \cup {n}, id)
      /\ \A m \in T \cup {n} : \A id : Supplies(m, id) /\ ~TaintedBy(T \cup {n}, id) => id \in Accepted(store')
      /\ \A id \in Accepted(store') : \E m \in T \cup {n} : Supplies(m, id)
  <2>1. CASE ~e.inside
    <3>1. store' = store
      BY <1>1, <1>6, <2>1 DEF Sift
    <3> HIDE DEF e, T
    <3> QED BY <1>2, <1>6, <1>7, <1>8, <2>1, <3>1
  <2>2. CASE e.inside /\ e.verified /\ e.id \notin Taken(store)
    <3>1. /\ StoreOK(store') /\ store'.rejected = store.rejected
          /\ Accepted(store') = Accepted(store) \cup {e.id}
      BY <1>1, <1>2, <1>6, <2>2 DEF Sift, Accept, StoreOK, Accepted
    <3>2. e.id \notin store.rejected /\ e.id \notin Accepted(store)
      BY <2>2 DEF Taken
    <3> HIDE DEF e, T
    <3>3. ~\E m \in T : Supplies(m, e.id)
      BY <1>7, <3>2
    <3>4. \A id : TaintedBy(T \cup {n}, id) <=> TaintedBy(T, id)
      BY <1>6, <1>8, <2>2, <3>3
    <3> QED BY <1>6, <1>7, <2>2, <3>1, <3>4
  <2>3. CASE e.inside /\ ~(e.verified /\ e.id \notin Taken(store))
    <3>1. /\ StoreOK(store') /\ store'.rejected = store.rejected \cup {e.id}
          /\ Accepted(store') = Accepted(store) \ {e.id}
      <4>1. store' = Reject(store, e.id)
        BY <1>1, <1>6, <2>3 DEF Sift
      <4> QED BY <4>1 DEF Reject, StoreOK, Accepted, Restrict
    <3>2. ~e.verified \/ e.id \in store.rejected \/ e.id \in Accepted(store)
      BY <2>3 DEF Taken
    <3> HIDE DEF e, T
    <3>3. TaintedBy(T \cup {n}, e.id)
      BY <1>6, <1>7, <1>8, <2>3, <3>2
    <3>4. \A id : id # e.id => (TaintedBy(T \cup {n}, id) <=> TaintedBy(T, id))
      BY <1>6, <1>8
    <3>5. \A id : id \in store'.rejected <=> TaintedBy(T \cup {n}, id)
      BY <1>7, <3>1, <3>3, <3>4
    <3>6. \A m \in T \cup {n} : \A id : Supplies(m, id) /\ ~TaintedBy(T \cup {n}, id) => id \in Accepted(store')
      BY <1>6, <1>7, <3>1, <3>3, <3>4
    <3>7. \A id \in Accepted(store') : \E m \in T \cup {n} : Supplies(m, id)
      BY <1>7, <3>1
    <3> QED BY <3>1, <3>5, <3>6, <3>7
  <2> QED BY <2>1, <2>2, <2>3
<1>10. EvidenceRead'
  <2>1. \A id, m : Supplies(m, id)' <=> Supplies(m, id)
    BY <1>1 DEF Supplies
  <2>2. \A id : TaintedBy(Took("evidence"), id)' <=> TaintedBy(T \cup {n}, id)
    BY <1>1, <1>4, <2>1 DEF TaintedBy
  <2> QED BY <1>3, <1>4, <1>9, <2>1, <2>2 DEF EvidenceRead
<1>11. RecordsRead'
  <2>1. \A t \in SourceNames \ {"evidence"} : Took(t)' = {}
    BY <1>3 DEF Took, Behind
  <2> QED BY <2>1 DEF RecordsRead, SourceNames
<1> QED BY <1>1, <1>5, <1>9, <1>10, <1>11 DEF ReadInv, TypeInv, Lists

LEMMA StatusStep ==
  ASSUME ReadInv, LoadStatus
  PROVE  ReadInv'
<1>1. /\ Read("statuses") /\ book' = Load(book, store, Head(rest)) /\ input' = input
      /\ UNCHANGED <<store, bad, queue, changes, environments>>
  BY DEF LoadStatus, frame
<1>2. PICK s : s = Head(rest)
  OBVIOUS
<1>3. "statuses" \in SourceNames \ {"evidence"} /\ pc = "statuses" /\ pc' = pc
  BY <1>1 DEF SourceNames, Read
<1>4. TypeInv
  BY DEF ReadInv
<1>5. s.state \in SourceStates
  <2>1. PICK n \in DOMAIN input["statuses"] : s = input["statuses"][n]
    BY <1>1, <1>2, <1>3, <1>4, HeadIsInput DEF TypeInv, Read
  <2> QED BY <1>4, <2>1, InputsAssumption DEF TypeInv, ReadingOK
<1> DEFINE ids == Usable(store, s.evidence)
           said == IF s.evidence # {} /\ ids = {} THEN Status("unverified", "unknown", {})
                   ELSE Status(s.state, s.reason, ids)
<1>6. StatusOK(said) /\ said.state = IF s.evidence # {} /\ ids = {} THEN "unverified" ELSE s.state
  BY <1>5 DEF Status, StatusOK, SourceStates
<1>7. book' = Merge(book, s.key, said)
  BY <1>1, <1>2 DEF Load
<1> HIDE DEF said
<1>8. /\ BookOK(book') /\ DOMAIN book' = DOMAIN book \cup {s.key}
      /\ \A k \in DOMAIN book : Rank(book'[k].state) >= Rank(book[k].state)
      /\ Rank(book'[s.key].state) >= Rank(said.state)
  BY <1>4, <1>6, <1>7, MergedIsWorse DEF TypeInv
<1>9. Grows
  BY <1>1, <1>4, <1>8 DEF Grows, Stays, TypeInv, Lists
<1>10. StatusRead(s)'
  <2>1. Rank(book'[s.key].state) \in 0 .. 3
    BY <1>8, Ranks DEF BookOK, StatusOK
  <2> QED BY <1>1, <1>5, <1>6, <1>8, <2>1, Ranks DEF StatusRead, Worse
<1>11. NowRead("statuses", s)'
  BY <1>10 DEF NowRead
<1>12. DoubtStays
  BY <1>1, <1>3, <1>4, <1>9, DoubtHeld
<1> QED BY <1>1, <1>2, <1>3, <1>9, <1>11, <1>12, OneRead

LEMMA LoadedStep ==
  ASSUME ReadInv, Loaded
  PROVE  ReadInv'
<1>1. PICK s \in {"evidence", "statuses", "metrics"} : Exhausted(s)
  BY DEF Loaded
<1>2. UNCHANGED <<input, store, book, bad, queue, changes, environments>>
  BY DEF Loaded, frame
<1>3. TypeInv /\ ReadingOK /\ s \in SourceNames
  BY DEF ReadInv, TypeInv, SourceNames
<1>4. ReadingOK' /\ pc' = After(s) /\ \A t \in SourceNames : Took(t)' = Took(t)
  BY <1>1, <1>2, <1>3, ReadOn
<1>5. Grows
  BY <1>2, <1>3, PassGrows
<1>6. pc = s /\ pc' \in {"statuses", "alerts", "rules"} /\ (pc = "metrics" => pc' = "rules")
  BY <1>1, <1>4, Succession DEF Exhausted
<1>7. \A k : Worse(k, "unverified") => Worse(k, "unverified")'
  BY <1>2 DEF Worse
<1>8. DoubtStays
  BY <1>2, <1>6, <1>7 DEF DoubtStays, Unusable
<1> QED BY <1>2, <1>4, <1>5, <1>6, <1>8, NoneRead

(* Beyond the evidence, a record alone of its identifier whose evidence is *)
(* not rejected is a fine one.                                             *)
LEMMA BeyondEvidence ==
  ASSUME ReadInv, pc \in SourceNames \ {"evidence", "statuses"}
  PROVE  /\ \A id : id \in store.rejected <=> Tainted(id)
         /\ \A ids : Sound(ids) \subseteq Usable(store, ids)
         /\ \A s \in SourceNames : \A x, key : Doubled(input[s], x, key) <=> ~Alone(input[s], x, key)
         /\ \A x, key : Doubled(Metrics, x, key) <=> ~Alone(Metrics, x, key)
<1>1. "evidence" \in Behind(pc)
  BY DEF Behind, SourceNames
<1>2. \A s \in SourceNames : IsFiniteSet(DOMAIN input[s])
  BY SourcesAreLists DEF ReadInv, TypeInv, ReadingOK
<1>3. IsFiniteSet(DOMAIN Metrics)
  <2>1. DOMAIN Metrics \subseteq DOMAIN input["metrics"]
    BY DEF Metrics, Restrict
  <2> QED BY <1>2, <2>1, FS_Subset DEF SourceNames
<1>4. \A x, key : Doubled(Metrics, x, key) <=> ~Alone(Metrics, x, key)
  BY <1>3, DoubledTwice
<1>5. \A s \in SourceNames : \A x, key : Doubled(input[s], x, key) <=> ~Alone(input[s], x, key)
  BY <1>2, DoubledTwice
<1> QED BY <1>1, <1>4, <1>5, Sifted

LEMMA AlertStep ==
  ASSUME ReadInv, ProjectAlert
  PROVE  ReadInv'
<1>1. PICK a : a = Head(rest)
  OBVIOUS
<1>2. /\ Read("alerts") /\ input' = input /\ UNCHANGED <<book, changes, environments>>
      /\ \/ a.state = "resolved" /\ Pass
         \/ a.state # "resolved" /\ ~UsableAlert(a) /\ Spoil
         \/ /\ UsableAlert(a)
            /\ Keep(AlertId(a), <<"alert", a.connector, a.at, a.summary>>,
                    <<Item("alert", a.stem, a.severity, a.level, a.summary, AlertId(a))>>)
  BY <1>1 DEF ProjectAlert, frame
<1>3. "alerts" \in SourceNames \ {"evidence"} /\ pc = "alerts" /\ pc' = pc
  BY <1>2 DEF SourceNames, Read
<1>4. TypeInv
  BY DEF ReadInv
<1>5. UsableAlert(a) <=> FineAlert(a)
  <2>1. Doubled(input["alerts"], a, "fingerprint") <=> ~Alone(input["alerts"], a, "fingerprint")
    BY <1>3, BeyondEvidence DEF SourceNames
  <2>2. AlertId(a) \in store.rejected <=> Tainted(AlertId(a))
    BY <1>3, BeyondEvidence
  <2> QED BY <2>1, <2>2 DEF UsableAlert, FineAlert
<1>6. FineAlert(a)' <=> FineAlert(a)
  BY <1>2, FinenessFixed
<1>7. CASE a.state = "resolved" /\ Pass
  <2>1. Grows /\ bad' = bad
    BY <1>2, <1>4, <1>7, PassGrows DEF Pass
  <2>2. ~FineAlert(a)
    BY <1>7 DEF FineAlert
  <2>3. NowRead("alerts", a)'
    BY <1>6, <1>7, <2>2 DEF NowRead, AlertRead
  <2>4. DoubtStays
    BY <1>3, <1>4, <2>1, DoubtHeld
  <2> QED BY <1>1, <1>2, <1>3, <2>1, <2>3, <2>4, OneRead
<1>8. CASE a.state # "resolved" /\ ~UsableAlert(a) /\ Spoil
  <2>1. Grows /\ bad'
    BY <1>2, <1>4, <1>8, PassGrows DEF Spoil
  <2>2. NowRead("alerts", a)'
    BY <1>3, <1>5, <1>6, <1>8, <2>1 DEF NowRead, AlertRead, Unusable
  <2>3. DoubtStays
    BY <1>3, <1>4, <2>1, DoubtHeld
  <2> QED BY <1>1, <1>2, <1>3, <2>1, <2>2, <2>3, OneRead
<1>9. CASE /\ UsableAlert(a)
           /\ Keep(AlertId(a), <<"alert", a.connector, a.at, a.summary>>,
                   <<Item("alert", a.stem, a.severity, a.level, a.summary, AlertId(a))>>)
  <2> DEFINE item == Item("alert", a.stem, a.severity, a.level, a.summary, AlertId(a))
  <2>1. AlertId(a) \notin store.rejected
    BY <1>9 DEF UsableAlert
  <2>2. item.evidence = AlertId(a) /\ item.severity = a.severity
    BY DEF Item
  <2>3. PICK x : x = item
    OBVIOUS
  <2> HIDE DEF item
  <2>4. Grows /\ x \in Range(queue') /\ bad' = bad
    <3>1. Keep(AlertId(a), <<"alert", a.connector, a.at, a.summary>>, <<x>>)
      BY <1>9, <2>3 DEF item
    <3>2. <<x>> \in {<< >>, <<x>>}
      OBVIOUS
    <3>3. Grows /\ (<<x>> = <<x>> => x \in Range(queue'))
      BY <1>2, <1>4, <2>1, <3>1, <3>2, KeepGrows
    <3> QED BY <1>9, <3>3 DEF Keep
  <2>5. NowRead("alerts", a)'
    BY <1>5, <1>6, <1>9, <2>2, <2>3, <2>4 DEF NowRead, AlertRead, AlertId
  <2>6. DoubtStays
    BY <1>3, <1>4, <2>4, DoubtHeld
  <2> QED BY <1>1, <1>2, <1>3, <2>4, <2>5, <2>6, OneRead
<1> QED BY <1>2, <1>7, <1>8, <1>9

LEMMA MetricStep ==
  ASSUME ReadInv, ReadMetric
  PROVE  ReadInv'
<1>1. PICK m : m = Head(rest)
  OBVIOUS
<1> DEFINE usable == m.key # "" /\ ~Doubled(Metrics, m, "key") /\ MetricId(m) \notin store.rejected
<1>2. /\ Read("metrics") /\ input' = input /\ UNCHANGED <<book, changes, environments>>
      /\ \/ ~m.inside /\ Pass
         \/ m.inside /\ ~usable /\ Spoil
         \/ m.inside /\ usable /\ Keep(MetricId(m), <<"metric", m.key>>, << >>)
  BY <1>1 DEF ReadMetric, frame
<1>3. "metrics" \in SourceNames \ {"evidence"} /\ pc = "metrics" /\ pc' = pc
  BY <1>2 DEF SourceNames, Read
<1>4. TypeInv
  BY DEF ReadInv
<1>5. usable <=> FineMetric(m)
  <2>1. Doubled(Metrics, m, "key") <=> ~Alone(Metrics, m, "key")
    BY <1>3, BeyondEvidence DEF SourceNames
  <2>2. MetricId(m) \in store.rejected <=> Tainted(MetricId(m))
    BY <1>3, BeyondEvidence DEF SourceNames
  <2> QED BY <2>1, <2>2 DEF FineMetric
<1>6. FineMetric(m)' <=> FineMetric(m)
  BY <1>2, FinenessFixed
<1>7. CASE ~m.inside /\ Pass
  <2>1. Grows /\ bad' = bad
    BY <1>2, <1>4, <1>7, PassGrows DEF Pass
  <2>2. NowRead("metrics", m)'
    BY <1>7 DEF NowRead, MetricRead
  <2>3. DoubtStays
    BY <1>3, <1>4, <2>1, DoubtHeld
  <2> QED BY <1>1, <1>2, <1>3, <2>1, <2>2, <2>3, OneRead
<1>8. CASE m.inside /\ ~usable /\ Spoil
  <2>1. Grows /\ bad'
    BY <1>2, <1>4, <1>8, PassGrows DEF Spoil
  <2>2. NowRead("metrics", m)'
    BY <1>3, <2>1 DEF NowRead, MetricRead, Unusable
  <2>3. DoubtStays
    BY <1>3, <1>4, <2>1, DoubtHeld
  <2> QED BY <1>1, <1>2, <1>3, <2>1, <2>2, <2>3, OneRead
<1>9. CASE m.inside /\ usable /\ Keep(MetricId(m), <<"metric", m.key>>, << >>)
  <2>1. << >> \in {<< >>, <<m>>}
    OBVIOUS
  <2>2. Grows /\ bad' = bad
    BY <1>2, <1>4, <1>9, <2>1, KeepGrows DEF Keep
  <2>3. NowRead("metrics", m)'
    BY <1>5, <1>6, <1>9 DEF NowRead, MetricRead
  <2>4. DoubtStays
    BY <1>3, <1>4, <2>2, DoubtHeld
  <2> QED BY <1>1, <1>2, <1>3, <2>2, <2>3, <2>4, OneRead
<1> QED BY <1>2, <1>7, <1>8, <1>9

LEMMA RuleStep ==
  ASSUME ReadInv, ApplyRule
  PROVE  ReadInv'
<1>1. PICK r : r = Head(rest)
  OBVIOUS
<1> DEFINE e == Judged(r)
           id == SignalId(r, e.at)
           lost == e.verdict = "error" \/ (e.verdict = "signal" /\ id \in store.rejected)
           item == Item("anomaly", r.id, r.severity, Levels[r.severity], r.name, id)
<1>2. /\ Read("rules") /\ input' = input /\ UNCHANGED <<book, changes, environments>>
      /\ \/ ~r.enabled /\ Pass
         \/ r.enabled /\ lost /\ Spoil
         \/ r.enabled /\ e.verdict \in {"quiet", "no data"} /\ Pass
         \/ /\ r.enabled /\ e.verdict = "signal" /\ ~lost
            /\ Keep(id, <<"signal", r.key, e.at, r.name>>, <<item>>)
  BY <1>1 DEF ApplyRule, frame
<1>3. "rules" \in SourceNames \ {"evidence"} /\ pc = "rules" /\ pc' = pc
  BY <1>2 DEF SourceNames, Read
<1>4. TypeInv
  BY DEF ReadInv
<1>5. e.verdict # "error" /\ (e.verdict = "signal" => id \notin store.rejected) => FineRule(r)
  <2>1. Doubled(input["rules"], r, "id") <=> ~Alone(input["rules"], r, "id")
    BY <1>3, BeyondEvidence DEF SourceNames
  <2>2. id \in store.rejected <=> Tainted(id)
    BY <1>3, BeyondEvidence
  <2>3. Doubled(input.rules, r, "id") \/ Cardinality(Matching(r)) # 1 => e.verdict = "error"
    BY DEF Judged
  <2> QED BY <2>1, <2>2, <2>3 DEF FineRule, Judged
<1>6. FineRule(r)' <=> FineRule(r)
  BY <1>2, FinenessFixed
<1> HIDE DEF e, id, item
<1>7. CASE ~r.enabled /\ Pass
  <2>1. Grows /\ bad' = bad
    BY <1>2, <1>4, <1>7, PassGrows DEF Pass
  <2>2. NowRead("rules", r)'
    BY <1>7 DEF NowRead, RuleRead
  <2>3. DoubtStays
    BY <1>3, <1>4, <2>1, DoubtHeld
  <2> QED BY <1>1, <1>2, <1>3, <2>1, <2>2, <2>3, OneRead
<1>8. CASE r.enabled /\ lost /\ Spoil
  <2>1. Grows /\ bad'
    BY <1>2, <1>4, <1>8, PassGrows DEF Spoil
  <2>2. NowRead("rules", r)'
    BY <1>3, <2>1 DEF NowRead, RuleRead, Unusable
  <2>3. DoubtStays
    BY <1>3, <1>4, <2>1, DoubtHeld
  <2> QED BY <1>1, <1>2, <1>3, <2>1, <2>2, <2>3, OneRead
<1>9. CASE r.enabled /\ e.verdict \in {"quiet", "no data"} /\ Pass
  <2>1. Grows /\ bad' = bad
    BY <1>2, <1>4, <1>9, PassGrows DEF Pass
  <2>2. NowRead("rules", r)'
    BY <1>5, <1>6, <1>9 DEF NowRead, RuleRead
  <2>3. DoubtStays
    BY <1>3, <1>4, <2>1, DoubtHeld
  <2> QED BY <1>1, <1>2, <1>3, <2>1, <2>2, <2>3, OneRead
<1>10. CASE /\ r.enabled /\ e.verdict = "signal" /\ ~lost
            /\ Keep(id, <<"signal", r.key, e.at, r.name>>, <<item>>)
  <2>1. id \notin store.rejected
    BY <1>10
  <2>2. Grows
    <3>1. PICK i, content, x : i = id /\ content = <<"signal", r.key, e.at, r.name>> /\ x = item
      OBVIOUS
    <3>2. Keep(i, content, <<x>>) /\ i \notin store.rejected
      BY <1>10, <2>1, <3>1
    <3>3. <<x>> \in {<< >>, <<x>>} /\ UNCHANGED <<book, environments, changes>>
      BY <1>2
    <3> HIDE DEF lost
    <3>4. Grows /\ (<<x>> = <<x>> => x \in Range(queue'))
      BY <1>4, <3>2, <3>3, KeepGrows
    <3> QED BY <3>4
  <2>3. bad' = bad
    BY <1>10 DEF Keep
  <2>4. NowRead("rules", r)'
    BY <1>5, <1>6, <1>10 DEF NowRead, RuleRead
  <2>5. DoubtStays
    BY <1>3, <1>4, <2>2, <2>3, DoubtHeld
  <2> QED BY <1>1, <1>2, <1>3, <2>2, <2>4, <2>5, OneRead
<1> QED BY <1>2, <1>7, <1>8, <1>9, <1>10

(* A check that is in trouble when it is due has that for its outcome.     *)
LEMMA TroubleIsOutcome ==
  ASSUME input \in Inputs, NEW n \in DOMAIN input.checks, NEW s, s = input.checks[n], s.valid, InTrouble(s)
  PROVE  CheckResult(s, input.results, Now).outcome \in Troubles
<1>1. s.last \in Nat /\ s.interval \in Nat /\ s.signal \in Nat /\ s.cooldown \in Nat
  <2>1. \A f \in {"last", "interval", "signal", "cooldown"} : input.checks[n][f] \in Nat
    BY InputsAssumption
  <2> QED BY <2>1
<1>2. Now \in Nat
  BY NowAssumption
<1>3. DueState(s, Now) = "due"
  <2>1. s.enabled /\ Elapsed(s.last, s.interval, Now)
    BY <1>1, <1>2 DEF InTrouble, Elapsed
  <2>2. ~(s.cooldown > 0 /\ ~Elapsed(s.signal, s.cooldown, Now))
    BY <1>1, <1>2 DEF InTrouble, Elapsed
  <2> QED BY <2>1, <2>2 DEF DueState
<1>4. PICK f \in Lookup(s, input.results) : f.duration > s.timeout \/ f.outcome \in Troubles
  BY DEF InTrouble
<1>5. (CHOOSE g \in Lookup(s, input.results) : TRUE) = f
  <2>1. \E g : Lookup(s, input.results) = {g} \/ Lookup(s, input.results) = {}
    BY DEF Lookup
  <2>2. Lookup(s, input.results) = {f}
    BY <1>4, <2>1
  <2> QED BY <2>2
<1>6. CheckResult(s, input.results, Now) = [outcome |-> Outcome(s, f), evidence |-> f.evidence]
  BY <1>3, <1>4, <1>5 DEF CheckResult
<1>7. Outcome(s, f) \in Troubles
  BY <1>4 DEF Outcome, Troubles
<1> QED BY <1>6, <1>7

LEMMA NothingTaintsNothing ==
  ASSUME input \in Inputs
  PROVE  ~Tainted(NoId)
<1> DEFINE mine == {i \in DOMAIN input.evidence : input.evidence[i].inside /\ input.evidence[i].id = NoId}
<1>1. mine = {}
  BY InputsAssumption
<1>2. Cardinality(mine) = 0
  BY <1>1, FS_EmptySet
<1> QED BY <1>1, <1>2 DEF Tainted

Less == {x \in Nat \X Nat : x[1] < x[2]}
LEMMA LeastIsLeast ==
  ASSUME NEW S, S \subseteq Nat, S # {}
  PROVE  Min(S) \in S
<1>1. Less = OpToRel(<, Nat)
  BY DEF Less, OpToRel
<1>2. IsWellFoundedOn(Less, Nat)
  BY <1>1, NatLessThanWellFounded
<1>3. PICK n \in S : \A m \in S : <<m, n>> \notin Less
  BY <1>2, WFMin
<1>4. ASSUME NEW m \in S
      PROVE  n <= m
  <2>1. <<m, n>> \in Less <=> m < n
    BY DEF Less
  <2>2. ~(m < n)
    BY <1>3, <2>1
  <2> QED BY <2>2
<1> QED BY <1>4 DEF Min

(* No probe was run for a check that is not due: it leaves no evidence.    *)
LEMMA SkippedLeavesNothing ==
  ASSUME input \in Inputs, NEW n \in DOMAIN input.checks, NEW s, s = input.checks[n],
         CheckResult(s, input.results, Now).outcome = "skipped"
  PROVE  CheckResult(s, input.results, Now).evidence = NoId
<1>1. \A f \in Lookup(s, input.results) : f.outcome # "skipped"
  <2> DEFINE keys == s.keys \o <<s.id>>
             found == {i \in DOMAIN keys : keys[i] \in DOMAIN input.results}
  <2>1. s.keys \in Seq(Range(s.keys))
    BY InputsAssumption
  <2>2. DOMAIN keys = 1 .. (Len(s.keys) + 1) /\ Len(s.keys) \in Nat
    <3>1. s.keys \in Seq(Range(s.keys) \cup {s.id}) /\ <<s.id>> \in Seq(Range(s.keys) \cup {s.id})
      BY <2>1
    <3>2. /\ Len(keys) = Len(s.keys) + 1 /\ Len(s.keys) \in Nat
          /\ keys \in Seq(Range(s.keys) \cup {s.id})
      BY <3>1
    <3> QED BY <3>2
  <2> HIDE DEF keys
  <2>3. found # {} => Min(found) \in found
    <3>1. found \subseteq Nat
      BY <2>2
    <3> QED BY <3>1, LeastIsLeast
  <2>4. \A f \in Lookup(s, input.results) : f = input.results[keys[Min(found)]] /\ found # {}
    BY DEF Lookup, keys
  <2> QED BY <2>3, <2>4, InputsAssumption
<1>2. \A f \in Lookup(s, input.results) : Outcome(s, f) # "skipped"
  BY <1>1 DEF Outcome
<1>3. CASE ~s.valid \/ DueState(s, Now) # "due" \/ Lookup(s, input.results) = {}
  BY <1>3 DEF CheckResult, Skipped, Failed
<1>4. CASE s.valid /\ DueState(s, Now) = "due" /\ Lookup(s, input.results) # {}
  <2>1. PICK f \in Lookup(s, input.results) :
          CheckResult(s, input.results, Now) = [outcome |-> Outcome(s, f), evidence |-> f.evidence]
    BY <1>4 DEF CheckResult
  <2> QED BY <1>2, <2>1
<1> QED BY <1>3, <1>4

LEMMA CheckStep ==
  ASSUME ReadInv, RunCheck
  PROVE  ReadInv'
<1>1. PICK s : s = Head(rest)
  OBVIOUS
<1> DEFINE r == CheckResult(s, input.results, Now)
           id == r.evidence
           usable == id # NoId /\ id \notin store.rejected
           severity == IF r.outcome = "degraded" THEN 3 ELSE 2
           item == Item("check", s.id, severity, Levels[severity], s.id \o r.outcome, id)
           content == <<"check", s.id, r.outcome>>
           broken == Doubled(input.checks, s, "id") \/ ~s.inside \/ r.outcome = "failed"
<1>2. /\ Read("checks") /\ input' = input /\ UNCHANGED <<book, changes, environments>>
      /\ IF broken THEN Spoil
         ELSE IF r.outcome = "skipped" THEN Pass
         ELSE /\ store' = IF usable THEN Generate(store, id, content) ELSE store
              /\ bad' = (bad \/ (~usable /\ (id # NoId \/ r.outcome \in Troubles)))
              /\ queue' = IF usable /\ r.outcome \in Troubles THEN Append(queue, item) ELSE queue
  BY <1>1 DEF RunCheck, frame
<1>3. "checks" \in SourceNames \ {"evidence"} /\ pc = "checks" /\ pc' = pc
  BY <1>2 DEF SourceNames, Read
<1>4. TypeInv /\ input \in Inputs
  BY DEF ReadInv, TypeInv, ReadingOK
<1>5. PICK n \in DOMAIN input.checks : s = input.checks[n]
  <2>1. \E n \in DOMAIN input["checks"] : Head(rest) = input["checks"][n]
    BY <1>2, <1>3, <1>4, HeadIsInput DEF TypeInv, Read
  <2> QED BY <1>1, <2>1
<1>6. FineCheck(s) <=> /\ s.valid /\ ~broken
                       /\ ~Tainted(id) /\ (r.outcome \in Troubles => id # NoId)
  <2>1. Doubled(input["checks"], s, "id") <=> ~Alone(input["checks"], s, "id")
    BY <1>3, BeyondEvidence DEF SourceNames
  <2> QED BY <2>1 DEF FineCheck
<1>7. id \in store.rejected <=> Tainted(id)
  BY <1>3, BeyondEvidence
<1>8. InTrouble(s) /\ s.valid => r.outcome \in Troubles
  BY <1>4, <1>5, TroubleIsOutcome
<1>9. ~s.valid => r.outcome = "failed"
  BY DEF CheckResult, Failed
<1>10. r.outcome = "skipped" \/ r.outcome = "failed" => r.outcome \notin Troubles
  BY DEF Troubles
<1>11. (FineCheck(s)' <=> FineCheck(s)) /\ (InTrouble(s)' <=> InTrouble(s))
  BY <1>2, FinenessFixed
<1>12. item.id = <<"check", s.id>>
  BY DEF Item
<1>13. PICK x : x = item
  OBVIOUS
<1>14. PICK i, c : i = id /\ c = content
  OBVIOUS
<1> HIDE DEF item, content, r
<1>15. CASE broken
  <2>1. Spoil
    BY <1>2, <1>15
  <2>2. Grows /\ bad'
    BY <1>2, <1>4, <2>1, PassGrows DEF Spoil
  <2>3. ~FineCheck(s)
    BY <1>6, <1>15
  <2>4. NowRead("checks", s)'
    BY <1>3, <1>11, <2>2, <2>3 DEF NowRead, CheckRead, Unusable
  <2>5. DoubtStays
    BY <1>3, <1>4, <2>2, DoubtHeld
  <2> QED BY <1>1, <1>2, <1>3, <2>2, <2>4, <2>5, OneRead
<1>16. CASE ~broken /\ r.outcome = "skipped"
  <2>1. Pass
    BY <1>2, <1>16
  <2>2. Grows /\ bad' = bad
    BY <1>2, <1>4, <2>1, PassGrows DEF Pass
  <2>3. s.valid /\ r.outcome \notin Troubles
    BY <1>9, <1>10, <1>16
  <2>5. FineCheck(s)
    <3>1. id = NoId
      BY <1>4, <1>5, <1>16, SkippedLeavesNothing DEF r
    <3> QED BY <1>4, <1>6, <1>16, <2>3, <3>1, NothingTaintsNothing
  <2>6. NowRead("checks", s)'
    BY <1>3, <1>8, <1>11, <2>3, <2>5 DEF NowRead, CheckRead, Unusable
  <2>7. DoubtStays
    BY <1>3, <1>4, <2>2, DoubtHeld
  <2> QED BY <1>1, <1>2, <1>3, <2>2, <2>6, <2>7, OneRead
<1>17. CASE ~broken /\ r.outcome # "skipped"
  <2>1. /\ store' = IF usable THEN Generate(store, id, content) ELSE store
        /\ bad' = (bad \/ (~usable /\ (id # NoId \/ r.outcome \in Troubles)))
        /\ queue' = IF usable /\ r.outcome \in Troubles THEN Append(queue, x) ELSE queue
    BY <1>2, <1>13, <1>17
  <2>2. /\ StoreOK(store') /\ store'.rejected = store.rejected /\ Accepted(store) \subseteq Accepted(store')
    <3>1. store' \in {Generate(store, i, c), store}
      BY <1>14, <2>1
    <3> QED BY <1>4, <3>1, Generated DEF TypeInv
  <2>3. /\ queue' \in Seq(Range(queue')) /\ Range(queue) \subseteq Range(queue')
        /\ usable /\ r.outcome \in Troubles => x \in Range(queue')
    <3>1. /\ queue \in Seq(Range(queue))
          /\ Append(queue, x) \in Seq(Range(Append(queue, x)))
          /\ Range(Append(queue, x)) = Range(queue) \cup {x}
      BY <1>4, Appended DEF TypeInv, Lists
    <3>2. CASE usable /\ r.outcome \in Troubles
      <4>1. queue' = Append(queue, x)
        BY <2>1, <3>2
      <4> QED BY <3>1, <4>1
    <3>3. CASE ~(usable /\ r.outcome \in Troubles)
      <4>1. queue' = queue
        BY <2>1, <3>3
      <4> QED BY <3>1, <3>3, <4>1
    <3> QED BY <3>2, <3>3
  <2>4. Grows
    <3>1. \A k \in DOMAIN book : Rank(book[k].state) >= Rank(book[k].state)
      BY <1>4, Ranks DEF TypeInv, BookOK, StatusOK
    <3> QED BY <1>2, <1>4, <2>2, <2>3, <3>1 DEF Grows, Stays, Lists, TypeInv
  <2>5. FineCheck(s) \/ bad'
    <3>1. CASE usable
      BY <1>6, <1>7, <1>9, <1>17, <3>1
    <3>2. CASE ~usable /\ (id # NoId \/ r.outcome \in Troubles)
      BY <2>1, <3>2
    <3>3. CASE id = NoId /\ r.outcome \notin Troubles
      BY <1>4, <1>6, <1>9, <1>17, <3>3, NothingTaintsNothing
    <3> QED BY <3>1, <3>2, <3>3
  <2>6. FineCheck(s) /\ InTrouble(s) => x \in Range(queue') /\ x.id = <<"check", s.id>>
    BY <1>6, <1>7, <1>8, <1>12, <1>13, <2>3
  <2>7. NowRead("checks", s)'
    BY <1>3, <1>11, <2>5, <2>6 DEF NowRead, CheckRead, Unusable
  <2>8. DoubtStays
    BY <1>3, <1>4, <2>1, <2>4, DoubtHeld
  <2> QED BY <1>1, <1>2, <1>3, <2>4, <2>7, <2>8, OneRead
<1> QED BY <1>15, <1>16, <1>17

(* The end of a source: its status says so if anything was unusable.       *)
LEMMA CloseStep ==
  ASSUME ReadInv, NEW s \in {"alerts", "rules", "checks", "changes"}, Exhausted(s),
         NEW key, NEW v, StatusOK(v), Mark(key, v), bad => v.state = "unverified",
         s = "alerts" => key = <<"alertmanager">>, s = "rules" => key = <<"prometheus">>,
         s = "checks" => key = <<"health_checks">>,
         UNCHANGED <<input, store, queue, changes, environments>>
  PROVE  ReadInv'
<1>1. TypeInv /\ ReadingOK /\ s \in SourceNames
  BY DEF ReadInv, TypeInv, SourceNames
<1>2. ReadingOK' /\ pc' = After(s) /\ \A t \in SourceNames : Took(t)' = Took(t)
  BY <1>1, ReadOn
<1>3. Grows /\ Worse(key, v.state)'
  BY <1>1, MarkGrows
<1>4. pc = s /\ pc' \notin {"ask", "evidence"}
  BY <1>2, Succession DEF Exhausted
<1>5. \A k : Worse(k, "unverified") => Worse(k, "unverified")'
  BY <1>1, <1>3, StaysIsWorse DEF TypeInv, Grows, SourceStates
<1>6. DoubtStays
  BY <1>3, <1>4, <1>5 DEF DoubtStays, Unusable
<1> QED BY <1>2, <1>3, <1>4, <1>6, NoneRead

LEMMA CloseSteps ==
  ASSUME ReadInv, CloseAlerts \/ CloseRules \/ CloseChecks \/ CloseChanges
  PROVE  ReadInv'
<1>1. TypeInv
  BY DEF ReadInv
<1>2. CASE CloseAlerts
  <2>1. PICK v : v = Verdict(<<"alertmanager">>, input.alerts = << >>, <<"fresh", "none">>)
    OBVIOUS
  <2>2. StatusOK(v) /\ (bad => v.state = "unverified")
    BY <1>1, <2>1, VerdictTyped DEF SourceStates
  <2>3. /\ Exhausted("alerts") /\ Mark(<<"alertmanager">>, v)
        /\ UNCHANGED <<input, store, queue, changes, environments>>
    BY <1>2, <2>1 DEF CloseAlerts, Close, frame
  <2> QED BY <2>2, <2>3, CloseStep
<1>3. CASE CloseChanges
  <2>1. PICK v : v = Verdict(<<"changes">>, input.changes = << >>, <<"fresh", "none">>)
    OBVIOUS
  <2>2. StatusOK(v) /\ (bad => v.state = "unverified")
    BY <1>1, <2>1, VerdictTyped DEF SourceStates
  <2>3. /\ Exhausted("changes") /\ Mark(<<"changes">>, v)
        /\ UNCHANGED <<input, store, queue, changes, environments>>
    BY <1>3, <2>1 DEF CloseChanges, Close, frame
  <2> QED BY <2>2, <2>3, CloseStep
<1>4. CASE CloseRules
  <2>1. PICK w : w = IF input.metrics = << >> /\ input.rules # << >> /\ ~bad
                     THEN Status("unavailable", "no data", seen)
                     ELSE Verdict(<<"prometheus">>, input.rules = << >>, <<"fresh", "none">>)
    OBVIOUS
  <2>2. StatusOK(w) /\ (bad => w.state = "unverified")
    <3>1. PICK v : v = Verdict(<<"prometheus">>, input.rules = << >>, <<"fresh", "none">>)
      OBVIOUS
    <3>2. StatusOK(v) /\ (bad => v.state = "unverified")
      BY <1>1, <3>1, VerdictTyped DEF SourceStates
    <3>3. StatusOK(Status("unavailable", "no data", seen))
      BY DEF Status, StatusOK, SourceStates
    <3> QED BY <2>1, <3>1, <3>2, <3>3
  <2>3. /\ Exhausted("rules") /\ Mark(<<"prometheus">>, w)
        /\ UNCHANGED <<input, store, queue, changes, environments>>
    BY <1>4, <2>1 DEF CloseRules, Close, frame
  <2> QED BY <2>2, <2>3, CloseStep
<1>5. CASE CloseChecks
  <2> DEFINE otherwise == IF "unavailable" \in troubles THEN <<"unavailable", "unreachable">>
                          ELSE IF "timed out" \in troubles THEN <<"stale", "timed out">>
                          ELSE IF "degraded" \in troubles THEN <<"stale", "unknown">>
                          ELSE <<"fresh", "none">>
  <2>1. PICK v : v = Verdict(<<"health_checks">>, input.checks = << >>, otherwise)
    OBVIOUS
  <2>2. otherwise[1] \in SourceStates
    BY DEF SourceStates
  <2>3. /\ Exhausted("checks") /\ Mark(<<"health_checks">>, v)
        /\ UNCHANGED <<input, store, queue, changes, environments>>
    BY <1>5, <2>1 DEF CloseChecks, Close, frame
  <2> HIDE DEF otherwise
  <2>4. StatusOK(v) /\ (bad => v.state = "unverified")
    BY <1>1, <2>1, <2>2, VerdictTyped
  <2> QED BY <2>3, <2>4, CloseStep
<1> QED BY <1>2, <1>3, <1>4, <1>5

LEMMA ChangeStep ==
  ASSUME ReadInv, ProjectChange
  PROVE  ReadInv'
<1>1. PICK c : c = Head(rest)
  OBVIOUS
<1> DEFINE own == Usable(store, c.evidence)
           ids == IF own = {} THEN {ChangeId(c)} ELSE own
           left == ~ReadableChange(c) \/ (own = {} /\ ChangeId(c) \in store.rejected)
<1>2. /\ Read("changes") /\ input' = input /\ UNCHANGED <<book, queue, environments>>
      /\ IF left THEN bad' = TRUE /\ UNCHANGED <<store, changes>>
         ELSE /\ store' = IF own = {} THEN Generate(store, ChangeId(c), <<"change", c.id>>) ELSE store
              /\ changes' = Append(changes, [id |-> c.id, evidence |-> ids])
              /\ UNCHANGED bad
  BY <1>1 DEF ProjectChange, frame
<1>3. "changes" \in SourceNames \ {"evidence"} /\ pc = "changes" /\ pc' = pc
  BY <1>2 DEF SourceNames, Read
<1>4. TypeInv
  BY DEF ReadInv
<1>5. FineChange(c) => ~left
  <2>1. Doubled(input["changes"], c, "id") <=> ~Alone(input["changes"], c, "id")
    BY <1>3, BeyondEvidence DEF SourceNames
  <2>2. ChangeId(c) \in store.rejected <=> Tainted(ChangeId(c))
    BY <1>3, BeyondEvidence DEF SourceNames
  <2>3. Sound(c.evidence) \subseteq own
    BY <1>3, BeyondEvidence DEF SourceNames
  <2> QED BY <2>1, <2>2, <2>3 DEF FineChange, ReadableChange
<1>6. FineChange(c)' <=> FineChange(c)
  BY <1>2, FinenessFixed
<1>7. PICK i, x : i = ChangeId(c) /\ x = [id |-> c.id, evidence |-> ids]
  OBVIOUS
<1>8. CASE left
  <2>1. Grows /\ (bad => bad')
    BY <1>2, <1>4, <1>8, PassGrows
  <2>2. NowRead("changes", c)'
    BY <1>5, <1>6, <1>8 DEF NowRead, ChangeRead
  <2>3. DoubtStays
    BY <1>3, <1>4, <2>1, DoubtHeld
  <2> QED BY <1>1, <1>2, <1>3, <2>1, <2>2, <2>3, OneRead
<1>9. CASE ~left
  <2>1. StoreOK(store') /\ store'.rejected = store.rejected /\ Accepted(store) \subseteq Accepted(store')
    <3>1. store' \in {Generate(store, i, <<"change", c.id>>), store}
      BY <1>2, <1>7, <1>9
    <3> QED BY <1>4, <3>1, Generated DEF TypeInv
  <2>2. /\ changes' \in Seq(Range(changes')) /\ Range(changes) \subseteq Range(changes')
        /\ x \in Range(changes') /\ x.id = c.id
    <3>1. changes' = Append(changes, x) /\ x.id = c.id
      BY <1>2, <1>7, <1>9
    <3>2. /\ Append(changes, x) \in Seq(Range(Append(changes, x)))
          /\ Range(Append(changes, x)) = Range(changes) \cup {x}
      BY <1>4, Appended DEF TypeInv, Lists
    <3> QED BY <3>1, <3>2
  <2>3. Grows
    <3>1. \A k \in DOMAIN book : Rank(book[k].state) >= Rank(book[k].state)
      BY <1>4, Ranks DEF TypeInv, BookOK, StatusOK
    <3> QED BY <1>2, <1>4, <2>1, <2>2, <3>1 DEF Grows, Stays, Lists, TypeInv
  <2>4. NowRead("changes", c)'
    BY <2>2 DEF NowRead, ChangeRead
  <2>5. bad => bad'
    BY <1>2, <1>9
  <2>6. DoubtStays
    BY <1>3, <1>4, <2>3, <2>5, DoubtHeld
  <2> QED BY <1>1, <1>2, <1>3, <2>3, <2>4, <2>6, OneRead
<1> QED BY <1>8, <1>9

LEMMA EnvironmentStep ==
  ASSUME ReadInv, ProjectEnvironment
  PROVE  ReadInv'
<1>1. PICK e : e = Head(rest)
  OBVIOUS
<1> DEFINE own == Usable(store, e.evidence)
           ids == IF own # {} THEN own ELSE {EnvironmentId(e)} \ store.rejected
           st == HealthStatus[e.health]
           content == <<"environment", e.provider, e.at, e.detail>>
           shown == [id |-> e.id, health |-> e.health, evidence |-> ids]
           said == Status(st[1], st[2], ids)
           Drop(key, status) == Mark(key, status) /\ UNCHANGED <<store, environments>>
           broken == e.id = "" \/ Doubled(input.environments, e, "id") \/ (e.inside /\ ~e.readable)
<1>2. /\ Read("environments") /\ input' = input /\ UNCHANGED <<bad, queue, changes>>
      /\ IF broken THEN Drop(<<"environment_status">>, Status("unverified", "unknown", {}))
         ELSE IF ~e.inside THEN Drop(<<"environment", e.id>>, Status("unavailable", "unreachable", {}))
         ELSE IF ids = {} THEN Drop(<<"environment", e.id>>, Status("unverified", "unknown", {}))
         ELSE /\ store' = IF own # {} THEN store ELSE Generate(store, EnvironmentId(e), content)
              /\ book' = Merge(book, <<e.provider, e.id>>, said)
              /\ environments' = Append(environments, shown)
  BY <1>1 DEF ProjectEnvironment, frame
<1>3. "environments" \in SourceNames \ {"evidence"} /\ pc = "environments" /\ pc' = pc
  BY <1>2 DEF SourceNames, Read
<1>4. TypeInv
  BY DEF ReadInv
<1>5. FineEnvironment(e) <=> ~broken /\ e.inside
  <2>1. Doubled(input["environments"], e, "id") <=> ~Alone(input["environments"], e, "id")
    BY <1>3, BeyondEvidence DEF SourceNames
  <2> QED BY <2>1 DEF FineEnvironment
<1>6. EnvironmentId(e) \in store.rejected <=> Tainted(EnvironmentId(e))
  BY <1>3, BeyondEvidence DEF SourceNames
<1>7. Sound(e.evidence) \subseteq own
  BY <1>3, BeyondEvidence DEF SourceNames
<1>8. PICK i, c, x, v : i = EnvironmentId(e) /\ c = content /\ x = shown /\ v = said
  OBVIOUS
<1>9. StatusOK(v)
  <2>1. \E n \in DOMAIN input["environments"] : e = input["environments"][n]
    BY <1>1, <1>2, <1>3, <1>4, HeadIsInput DEF TypeInv, Read
  <2>2. e.health \in {"healthy", "degraded", "critical", "unknown"}
    BY <1>4, <2>1, InputsAssumption DEF TypeInv, ReadingOK
  <2>3. st[1] \in SourceStates
    BY <2>2 DEF HealthStatus, SourceStates
  <2> QED BY <1>8, <2>3 DEF Status, StatusOK
<1>10. x.id = e.id /\ x.health = e.health
  BY <1>8
<1>11. ids = {} => own = {} /\ EnvironmentId(e) \in store.rejected
  OBVIOUS
<1>12. ids # {} => own # {} \/ EnvironmentId(e) \notin store.rejected
  OBVIOUS
<1> HIDE DEF content, shown, said, st, ids
<1>13. (FineEnvironment(e)' <=> FineEnvironment(e)) /\ (\A y : Backed(e, y)' <=> Backed(e, y))
       /\ Sound(e.evidence)' = Sound(e.evidence)
  BY <1>2, FinenessFixed
<1>14. CASE broken \/ ~e.inside \/ ids = {}
  <2>1. PICK key, s : /\ Mark(key, s) /\ ~OfChanges(key)
                      /\ StatusOK(s) /\ s.state \in {"unavailable", "unverified"}
                      /\ UNCHANGED <<store, environments>>
    <3>1. \A state \in SourceStates : \A why : StatusOK(Status(state, why, {})) /\ Status(state, why, {}).state = state
      BY DEF Status, StatusOK
    <3>2. ~OfChanges(<<"environment_status">>) /\ ~OfChanges(<<"environment", e.id>>)
      BY ChangeSourcesAssumption DEF OfChanges
    <3> QED BY <1>2, <1>14, <3>1, <3>2 DEF SourceStates
  <2>2. Grows /\ Worse(key, s.state)'
    BY <1>2, <1>4, <2>1, MarkGrows
  <2>3. (\E k \in DOMAIN book : ~OfChanges(k) /\ Worse(k, "unavailable"))'
    BY <2>1, <2>2, Ranks DEF Worse, SourceStates, Grows, BookOK, StatusOK, OfChanges
  <2>4. ~(FineEnvironment(e) /\ Backed(e, Sound(e.evidence)))
    BY <1>5, <1>6, <1>7, <1>11, <1>14 DEF Backed
  <2>5. NowRead("environments", e)'
    BY <1>13, <2>3, <2>4 DEF NowRead, EnvironmentRead
  <2>6. DoubtStays
    BY <1>2, <1>3, <1>4, <2>2, DoubtHeld
  <2> QED BY <1>1, <1>2, <1>3, <2>2, <2>5, <2>6, OneRead
<1>15. CASE ~broken /\ e.inside /\ ids # {}
  <2>1. /\ store' = IF own # {} THEN store ELSE Generate(store, i, c)
        /\ book' = Merge(book, <<e.provider, e.id>>, v)
        /\ environments' = Append(environments, x)
    BY <1>2, <1>8, <1>15
  <2>2. StoreOK(store') /\ store'.rejected = store.rejected /\ Accepted(store) \subseteq Accepted(store')
    <3>1. store' \in {Generate(store, i, c), store}
      BY <2>1
    <3> QED BY <1>4, <3>1, Generated DEF TypeInv
  <2>3. /\ environments' \in Seq(Range(environments')) /\ Range(environments) \subseteq Range(environments')
        /\ x \in Range(environments')
    <3>1. /\ Append(environments, x) \in Seq(Range(Append(environments, x)))
          /\ Range(Append(environments, x)) = Range(environments) \cup {x}
      BY <1>4, Appended DEF TypeInv, Lists
    <3> QED BY <2>1, <3>1
  <2>4. /\ BookOK(book') /\ DOMAIN book' = DOMAIN book \cup {<<e.provider, e.id>>}
        /\ \A k \in DOMAIN book : Rank(book'[k].state) >= Rank(book[k].state)
    BY <1>4, <1>9, <2>1, MergedIsWorse DEF TypeInv
  <2>5. Grows
    BY <1>2, <1>4, <2>2, <2>3, <2>4 DEF Grows, Stays, Lists, TypeInv
  <2>6. Usable(store, e.evidence) \subseteq Usable(store', e.evidence)
    BY <2>2 DEF Usable
  <2>7. FineEnvironment(e) /\ Backed(e, Usable(store', e.evidence))
    BY <1>5, <1>6, <1>12, <1>15, <2>6 DEF Backed
  <2>8. NowRead("environments", e)'
    BY <1>10, <1>13, <2>3, <2>7 DEF NowRead, EnvironmentRead
  <2>9. DoubtStays
    BY <1>2, <1>3, <1>4, <2>5, DoubtHeld
  <2> QED BY <1>1, <1>2, <1>3, <2>5, <2>8, <2>9, OneRead
<1> QED BY <1>14, <1>15

LEMMA EnvironmentsStep ==
  ASSUME ReadInv, CloseEnvironments
  PROVE  ReadInv'
<1>1. /\ Exhausted("environments") /\ input' = input
      /\ UNCHANGED <<store, book, bad, queue, changes, environments>>
  BY DEF CloseEnvironments, frame
<1>2. TypeInv /\ "environments" \in SourceNames
  BY DEF ReadInv, SourceNames
<1>3. ReadingOK' /\ pc' = "summary" /\ \A t \in SourceNames : Took(t)' = Took(t)
  BY <1>1, <1>2, ReadOn, Succession DEF TypeInv
<1>4. Grows
  BY <1>1, <1>2, PassGrows
<1>5. pc = "environments"
  BY <1>1 DEF Exhausted
<1>6. DoubtStays
  <2>1. \A k : Worse(k, "unverified") => Worse(k, "unverified")'
    BY <1>2, <1>4, StaysIsWorse DEF TypeInv, Grows, SourceStates
  <2> QED BY <1>5, <2>1 DEF DoubtStays, Unusable
<1> QED BY <1>1, <1>3, <1>4, <1>6, NoneRead

(* A command that is refused has read nothing, one that begins neither.    *)
LEMMA BeginStep ==
  ASSUME ReadInv, Begin, pc' # "done"
  PROVE  ReadInv'
<1>1. /\ pc = "ask" /\ pc' = "evidence" /\ rest' = input["evidence"] /\ input' = input
      /\ UNCHANGED <<store, book, bad, queue, changes, environments>>
  BY DEF Begin, Open
<1>2. "evidence" \in SourceNames /\ TypeInv
  BY DEF SourceNames, ReadInv
<1>3. /\ input["evidence"] \in Seq(Range(input["evidence"]))
      /\ Len(input["evidence"]) \in Nat
  BY <1>2, SourcesAreLists DEF TypeInv, ReadingOK
<1>4. ReadingOK'
  <2>1. \A j \in 1 .. Len(rest') : rest'[j] = input'[pc'][Len(input'[pc']) - Len(rest') + j]
    BY <1>1, <1>3
  <2> QED BY <1>1, <1>2, <1>3, <2>1 DEF ReadingOK, TypeInv, Phases
<1>5. \A t \in SourceNames : Took(t)' = {}
  <2>1. 1 .. (Len(rest') - Len(rest')) = {}
    BY <1>1, <1>3
  <2> QED BY <1>1, <2>1 DEF Took, Behind
<1>6. store' = EmptyStore /\ Accepted(store') = {} /\ store'.rejected = {}
  BY <1>1 DEF ReadInv, EvidenceRead, EmptyStore, Accepted
<1>7. EvidenceRead'
  BY <1>1, <1>5, <1>6 DEF EvidenceRead, SourceNames, TaintedBy
<1>8. RecordsRead'
  BY <1>5 DEF RecordsRead, SourceNames
<1> QED BY <1>1, <1>2, <1>4, <1>7, <1>8 DEF ReadInv, TypeInv, Lists

-----------------------------------------------------------------------------
(***************************************************************************)
(* What fails a snapshot                                                   *)
(***************************************************************************)
(* The evidence that was accepted is what records in order bring.          *)
PiecesRead ==
  /\ pc = "evidence" =>
       \A id \in Accepted(store) :
         /\ id \notin store.rejected
         /\ \E n \in Took("evidence") : Supplies(n, id) /\ store.accepted[id] = input.evidence[n].content
  /\ pc \notin {"ask", "evidence"} => \A id \in Accepted(store) : <<id, store.accepted[id]>> \in Pieces

(* An item of the queue is one record's; two have one name only if their   *)
(* alerts have.                                                            *)
AlertItem(x, n) == FineAlert(input.alerts[n]) /\ x.id = <<"alert", input.alerts[n].stem>>
RuleItem(x, n) == Alone(input.rules, input.rules[n], "id") /\ x.id = <<"anomaly", input.rules[n].id>>
CheckItem(x, n) == Alone(input.checks, input.checks[n], "id") /\ x.id = <<"check", input.checks[n].id>>
Shown(x) ==
  \/ \E n \in Took("alerts") : AlertItem(x, n)
  \/ \E n \in Took("rules") : RuleItem(x, n)
  \/ \E n \in Took("checks") : CheckItem(x, n)
QueueRead ==
  /\ \A x \in Range(queue) : Shown(x)
  /\ Namesakes \/ \A i, j \in DOMAIN queue : i # j => queue[i].id # queue[j].id

ShownInv == PiecesRead /\ QueueRead

(* What the records bring depends on what was handed over only.            *)
LEMMA PiecesFixed ==
  ASSUME input' = input
  PROVE  /\ Pieces' = Pieces
         /\ Namesakes' <=> Namesakes
         /\ \A x, n : /\ AlertItem(x, n)' <=> AlertItem(x, n)
                      /\ RuleItem(x, n)' <=> RuleItem(x, n)
                      /\ CheckItem(x, n)' <=> CheckItem(x, n)
<1>1. \A r : Judged(r)' = Judged(r)
  <2>1. Metrics' = Metrics
    BY DEF Metrics
  <2>2. \A r : Matching(r)' = Matching(r)
    BY <2>1 DEF Matching
  <2> TAKE r
  <2>3. Matching(r)' = Matching(r)
    BY <2>2
  <2>4. (CHOOSE i \in Matching(r) : TRUE)' = (CHOOSE i \in Matching(r) : TRUE)
    BY <2>3
  <2>5. Doubled(input.rules, r, "id")' <=> Doubled(input.rules, r, "id")
    BY DEF Doubled
  <2> QED BY <2>1, <2>3, <2>4, <2>5 DEF Judged
<1>2. \A id, content : Made(id, content)' = Made(id, content)
  BY FinenessFixed DEF Made
<1>3. \A id : Tainted(id)' <=> Tainted(id)
  BY FinenessFixed
<1>4. \A s, r : Brings(s, r)' = Brings(s, r)
  <2> TAKE s, r
  <2>1. /\ FineAlert(r)' <=> FineAlert(r)
        /\ FineMetric(r)' <=> FineMetric(r)
        /\ FineRule(r)' <=> FineRule(r)
        /\ FineCheck(r)' <=> FineCheck(r)
        /\ FineChange(r)' <=> FineChange(r)
        /\ FineEnvironment(r)' <=> FineEnvironment(r)
        /\ Tainted(r.id)' <=> Tainted(r.id)
    BY FinenessFixed
  <2> QED BY <1>1, <1>2, <2>1 DEF Brings, AlertId, MetricId, SignalId, ChangeId, EnvironmentId
<1>5. Summaries' = Summaries
  <2>1. DOMAIN Numbers' = DOMAIN Numbers
    BY DEF Numbers
  <2> QED BY <1>2, <1>3, <2>1 DEF Summaries
<1>6. Pieces' = Pieces
  BY <1>4, <1>5 DEF Pieces
<1>7. Namesakes' <=> Namesakes
  BY FinenessFixed DEF Namesakes
<1>8. \A x, n : /\ AlertItem(x, n)' <=> AlertItem(x, n)
                /\ RuleItem(x, n)' <=> RuleItem(x, n)
                /\ CheckItem(x, n)' <=> CheckItem(x, n)
  BY FinenessFixed DEF AlertItem, RuleItem, CheckItem
<1> QED BY <1>6, <1>7, <1>8

(* What any record handed over brings is a piece.                          *)
LEMMA PieceBrought ==
  ASSUME NEW s \in SourceNames, NEW n \in DOMAIN input[s]
  PROVE  Brings(s, input[s][n]) \subseteq Pieces
<1>1. s \in Range(Sources)
  <2>1. /\ DOMAIN Sources = 1 .. 8
        /\ Sources[1] = "evidence" /\ Sources[2] = "statuses" /\ Sources[3] = "alerts"
        /\ Sources[4] = "metrics" /\ Sources[5] = "rules" /\ Sources[6] = "checks"
        /\ Sources[7] = "changes" /\ Sources[8] = "environments"
    BY DEF Sources
  <2>2. \E i \in DOMAIN Sources : Sources[i] = s
    BY <2>1 DEF SourceNames
  <2> QED BY <2>2 DEF Range
<1>2. input[s][n] \in Range(input[s])
  BY DEF Range
<1>3. Brings(s, input[s][n]) \subseteq UNION {Brings(s, r) : r \in Range(input[s])}
  BY <1>2
<1>4. UNION {Brings(s, r) : r \in Range(input[s])}
        \in {UNION {Brings(t, r) : r \in Range(input[t])} : t \in Range(Sources)}
  BY <1>1
<1> QED BY <1>3, <1>4 DEF Pieces

(* What has been read of a source are places of it.                        *)
LEMMA TookPlaces ==
  ASSUME ReadingOK, NEW s \in SourceNames
  PROVE  Took(s) \subseteq DOMAIN input[s]
<1>1. DOMAIN input[s] = 1 .. Len(input[s]) /\ Len(input[s]) \in Nat
  BY SourcesAreLists DEF ReadingOK
<1>2. CASE pc = s
  <2>1. Len(rest) \in Nat
    BY <1>2 DEF ReadingOK
  <2> QED BY <1>1, <1>2, <2>1 DEF Took
<1> QED BY <1>2 DEF Took

(* Evidence that is left as it is goes on being what records bring.        *)
LEMMA PiecesStay ==
  ASSUME PiecesRead, store' = store, input' = input, {pc, pc'} \cap {"ask", "evidence"} = {}
  PROVE  PiecesRead'
BY PiecesFixed DEF PiecesRead, Accepted

(* Evidence made for a record in order is a piece that it brings.          *)
LEMMA PiecesMade ==
  ASSUME ReadInv, PiecesRead, pc \in SourceNames \ {"evidence", "statuses"}, pc' = pc, input' = input,
         NEW id, NEW content, id \notin store.rejected, store' = Generate(store, id, content),
         Made(id, content) \subseteq Pieces
  PROVE  PiecesRead'
<1>1. StoreOK(store)
  BY DEF ReadInv, TypeInv
<1>2. CASE id \in Taken(store)
  <2>1. store' = store
    BY <1>2 DEF Generate
  <2> QED BY <2>1, PiecesStay
<1>3. CASE id \notin Taken(store)
  <2>1. /\ Accepted(store') = Accepted(store) \cup {id} /\ id \notin Accepted(store)
        /\ store'.accepted[id] = content
        /\ \A i \in Accepted(store) : store'.accepted[i] = store.accepted[i]
    BY <1>1, <1>3 DEF Generate, Accept, Taken, Accepted, StoreOK
  <2>2. ~Tainted(id)
    BY BeyondEvidence
  <2>3. Sound({id}) = {}
    <3>1. Sound({id}) \subseteq Usable(store, {id})
      BY BeyondEvidence
    <3> QED BY <2>1, <3>1 DEF Usable
  <2>4. <<id, content>> \in Pieces
    BY <2>2, <2>3 DEF Made
  <2>5. \A i \in Accepted(store) : <<i, store.accepted[i]>> \in Pieces
    BY DEF PiecesRead, SourceNames
  <2>6. \A i \in Accepted(store') : <<i, store'.accepted[i]>> \in Pieces
    BY <2>1, <2>4, <2>5
  <2> QED BY <2>6, PiecesFixed DEF PiecesRead
<1> QED BY <1>2, <1>3

(* The queue, when it is left as it is, goes on being of records read.     *)
ItemSources == {"alerts", "rules", "checks"}
LEMMA QueueStays ==
  ASSUME QueueRead, queue' = queue, input' = input, \A t \in ItemSources : Took(t) \subseteq Took(t)'
  PROVE  QueueRead'
<1>1. \A x : Shown(x) => Shown(x)'
  <2> TAKE x
  <2>1. HAVE Shown(x)
  <2>2. CASE \E n \in Took("alerts") : AlertItem(x, n)
    BY <2>2, PiecesFixed DEF Shown, ItemSources
  <2>3. CASE \E n \in Took("rules") : RuleItem(x, n)
    BY <2>3, PiecesFixed DEF Shown, ItemSources
  <2>4. CASE \E n \in Took("checks") : CheckItem(x, n)
    BY <2>4, PiecesFixed DEF Shown, ItemSources
  <2> QED BY <2>1, <2>2, <2>3, <2>4 DEF Shown
<1> QED BY <1>1, PiecesFixed DEF QueueRead

(* An item is added to the queue for a record not read before.             *)
LEMMA QueueGrows ==
  ASSUME QueueRead, queue \in Seq(Range(queue)), input' = input, NEW x, queue' = Append(queue, x),
         \A t \in ItemSources : Took(t) \subseteq Took(t)',
         Shown(x)', \A y : Shown(y) /\ y.id = x.id => Namesakes
  PROVE  QueueRead'
<1>1. \A y : Shown(y) => Shown(y)'
  <2> TAKE y
  <2>1. HAVE Shown(y)
  <2>2. CASE \E n \in Took("alerts") : AlertItem(y, n)
    BY <2>2, PiecesFixed DEF Shown, ItemSources
  <2>3. CASE \E n \in Took("rules") : RuleItem(y, n)
    BY <2>3, PiecesFixed DEF Shown, ItemSources
  <2>4. CASE \E n \in Took("checks") : CheckItem(y, n)
    BY <2>4, PiecesFixed DEF Shown, ItemSources
  <2> QED BY <2>1, <2>2, <2>3, <2>4 DEF Shown
<1>2. Range(queue') = Range(queue) \cup {x}
  BY Appended
<1>3. \A y \in Range(queue') : Shown(y)'
  BY <1>1, <1>2 DEF QueueRead
<1> DEFINE l == Len(queue)
<1>4. /\ l \in Nat /\ DOMAIN queue = 1 .. l /\ DOMAIN queue' = 1 .. (l + 1)
      /\ queue'[l + 1] = x /\ \A i \in 1 .. l : queue'[i] = queue[i]
  OBVIOUS
<1> HIDE DEF l
<1>5. ASSUME ~Namesakes, NEW i \in DOMAIN queue', NEW j \in DOMAIN queue', i # j
      PROVE  queue'[i].id # queue'[j].id
  <2>1. \A k \in 1 .. l : queue[k].id # x.id
    <3>1. \A k \in 1 .. l : Shown(queue[k])
      BY <1>4 DEF QueueRead, Range
    <3> QED BY <1>5, <3>1
  <2>2. \A k, m \in 1 .. l : k # m => queue[k].id # queue[m].id
    BY <1>4, <1>5 DEF QueueRead
  <2>3. \A k \in 1 .. (l + 1) : k \in 1 .. l \/ k = l + 1
    BY <1>4
  <2> QED BY <1>4, <1>5, <2>1, <2>2, <2>3
<1> QED BY <1>3, <1>5, PiecesFixed DEF QueueRead

(* Only two alerts have items of one name: rules and checks are alone of   *)
(* their identifiers.                                                      *)
LEMMA AlertNames ==
  ASSUME ReadingOK, NEW n \in DOMAIN input.alerts, n \notin Took("alerts"), NEW x, AlertItem(x, n)
  PROVE  \A y : Shown(y) /\ y.id = x.id => Namesakes
<1> TAKE y
<1>1. HAVE Shown(y) /\ y.id = x.id
<1>2. PICK m \in Took("alerts") : AlertItem(y, m)
  BY <1>1 DEF Shown, AlertItem, RuleItem, CheckItem
<1>3. m \in DOMAIN input.alerts
  BY <1>2, TookPlaces DEF SourceNames
<1> DEFINE a == input.alerts[n]
           b == input.alerts[m]
<1>4. FineAlert(a) /\ FineAlert(b) /\ a.stem = b.stem
  BY <1>1, <1>2 DEF AlertItem
<1>5. a.fingerprint # b.fingerprint
  <2>1. Alone(input.alerts, input.alerts[n], "fingerprint") /\ m # n
    BY <1>2, <1>4 DEF FineAlert
  <2> QED BY <1>3, <2>1 DEF Alone
<1>6. a \in Range(input.alerts) /\ b \in Range(input.alerts)
  BY <1>3 DEF Range
<1> QED BY <1>4, <1>5, <1>6 DEF Namesakes

LEMMA RuleNames ==
  ASSUME ReadingOK, NEW n \in DOMAIN input.rules, n \notin Took("rules"), NEW x, RuleItem(x, n)
  PROVE  \A y : Shown(y) /\ y.id = x.id => Namesakes
<1> SUFFICES ASSUME NEW y, Shown(y), y.id = x.id
             PROVE  FALSE
  OBVIOUS
<1>1. PICK m \in Took("rules") : RuleItem(y, m)
  BY DEF Shown, AlertItem, RuleItem, CheckItem
<1>2. m \in DOMAIN input.rules
  BY <1>1, TookPlaces DEF SourceNames
<1> QED BY <1>1, <1>2 DEF RuleItem, Alone

LEMMA CheckNames ==
  ASSUME ReadingOK, NEW n \in DOMAIN input.checks, n \notin Took("checks"), NEW x, CheckItem(x, n)
  PROVE  \A y : Shown(y) /\ y.id = x.id => Namesakes
<1> SUFFICES ASSUME NEW y, Shown(y), y.id = x.id
             PROVE  FALSE
  OBVIOUS
<1>1. PICK m \in Took("checks") : CheckItem(y, m)
  BY DEF Shown, AlertItem, RuleItem, CheckItem
<1>2. m \in DOMAIN input.checks
  BY <1>1, TookPlaces DEF SourceNames
<1> QED BY <1>1, <1>2 DEF CheckItem, Alone

-----------------------------------------------------------------------------
(***************************************************************************)
(* One step, and what it shows                                             *)
(***************************************************************************)
(* What has been read is never unread.                                     *)
LEMMA TookMore ==
  ASSUME ReadingOK, input' = input, NEW s \in SourceNames, Read(s) \/ Exhausted(s)
  PROVE  \A t \in ItemSources : Took(t) \subseteq Took(t)'
<1>1. ItemSources \subseteq SourceNames
  BY DEF ItemSources, SourceNames
<1>2. CASE Read(s)
  <2>1. PICK n \in DOMAIN input[s] : Took(s)' = Took(s) \cup {n}
    BY <1>2, ReadNext
  <2>2. \A t \in SourceNames \ {s} : Took(t)' = Took(t)
    BY <1>2, ReadNext
  <2> QED BY <1>1, <2>1, <2>2
<1>3. CASE Exhausted(s)
  BY <1>1, <1>3, ReadOn
<1> QED BY <1>2, <1>3

(* A step beyond the evidence that accepts and queues nothing.             *)
LEMMA QuietStep ==
  ASSUME ReadInv, ShownInv, input' = input, NEW s \in SourceNames \ {"evidence"}, Read(s) \/ Exhausted(s),
         store' = store, queue' = queue
  PROVE  ShownInv'
<1>1. ReadingOK /\ pc = s
  BY DEF ReadInv, TypeInv, Read, Exhausted
<1>2. {pc, pc'} \cap {"ask", "evidence"} = {}
  <2>1. CASE Read(s)
    BY <1>1, <2>1 DEF Read, SourceNames
  <2>2. CASE Exhausted(s)
    <3>1. pc' = After(s)
      BY <1>1, <2>2, ReadOn
    <3> QED BY <1>1, <3>1, Succession DEF SourceNames
  <2> QED BY <2>1, <2>2
<1>3. PiecesRead'
  BY <1>2, PiecesStay DEF ShownInv
<1>4. QueueRead'
  BY <1>1, TookMore, QueueStays DEF ShownInv
<1> QED BY <1>3, <1>4 DEF ShownInv

(* What a record in order brings, source by source.                        *)
LEMMA BringsOf ==
  ASSUME NEW r
  PROVE  /\ r.inside /\ ~Tainted(r.id) => Brings("evidence", r) = {<<r.id, r.content>>}
         /\ FineAlert(r) =>
              Brings("alerts", r) = Made(AlertId(r), <<"alert", r.connector, r.at, r.summary>>)
         /\ r.inside /\ FineMetric(r) => Brings("metrics", r) = Made(MetricId(r), <<"metric", r.key>>)
         /\ r.enabled /\ FineRule(r) /\ Judged(r).verdict = "signal" =>
              Brings("rules", r) = Made(SignalId(r, Judged(r).at), <<"signal", r.key, Judged(r).at, r.name>>)
         /\ FineCheck(r) /\ CheckResult(r, input.results, Now).evidence # NoId =>
              Brings("checks", r) = Made(CheckResult(r, input.results, Now).evidence,
                                         <<"check", r.id, CheckResult(r, input.results, Now).outcome>>)
         /\ FineChange(r) => Brings("changes", r) = Made(ChangeId(r), <<"change", r.id>>)
         /\ FineEnvironment(r) =>
              Brings("environments", r) = Made(EnvironmentId(r), <<"environment", r.provider, r.at, r.detail>>)
BY DEF Brings

(* A record that is read next is one of its source, not read before.       *)
LEMMA NextRecord ==
  ASSUME ReadInv, input' = input, NEW s \in SourceNames, Read(s), NEW r, r = Head(rest)
  PROVE  /\ \E n \in DOMAIN input[s] : r = input[s][n] /\ n \notin Took(s) /\ n \in Took(s)'
         /\ Brings(s, r) \subseteq Pieces
<1>1. PICK n \in DOMAIN input[s] : r = input[s][n] /\ n \notin Took(s) /\ Took(s)' = Took(s) \cup {n}
  BY ReadNext DEF ReadInv, TypeInv
<1>2. Brings(s, input[s][n]) \subseteq Pieces
  BY PieceBrought
<1> QED BY <1>1, <1>2

(* A step that makes evidence of the record it reads, and queues nothing.  *)
LEMMA MadeStep ==
  ASSUME ReadInv, ShownInv, input' = input, NEW s \in SourceNames \ {"evidence", "statuses"}, Read(s),
         NEW r, r = Head(rest), NEW id, NEW content, id \notin store.rejected,
         Brings(s, r) = Made(id, content), store' = Generate(store, id, content), queue' = queue
  PROVE  ShownInv'
<1>1. ReadingOK /\ pc = s /\ pc' = pc
  BY DEF ReadInv, TypeInv, Read
<1>2. Made(id, content) \subseteq Pieces
  BY NextRecord
<1>3. PiecesRead'
  BY <1>1, <1>2, PiecesMade DEF ShownInv
<1>4. QueueRead'
  BY <1>1, TookMore, QueueStays DEF ShownInv
<1> QED BY <1>3, <1>4 DEF ShownInv

(* One that queues an item for the record as well.                         *)
LEMMA QueuedStep ==
  ASSUME ReadInv, ShownInv, input' = input, NEW s \in SourceNames \ {"evidence", "statuses"}, Read(s),
         NEW r, r = Head(rest), NEW id, NEW content, id \notin store.rejected,
         Brings(s, r) = Made(id, content), store' = Generate(store, id, content),
         NEW x, queue' = Append(queue, x),
         Shown(x)', \A y : Shown(y) /\ y.id = x.id => Namesakes
  PROVE  ShownInv'
<1>1. ReadingOK /\ pc = s /\ pc' = pc /\ queue \in Seq(Range(queue))
  BY DEF ReadInv, TypeInv, Read, Lists
<1>2. Made(id, content) \subseteq Pieces
  BY NextRecord
<1>3. PiecesRead'
  BY <1>1, <1>2, PiecesMade DEF ShownInv
<1>4. QueueRead'
  BY <1>1, TookMore, QueueGrows DEF ShownInv
<1> QED BY <1>3, <1>4 DEF ShownInv

(* Record by record: what a source's step accepts and queues.              *)
LEMMA AlertShown ==
  ASSUME ReadInv, ShownInv, ProjectAlert
  PROVE  ShownInv'
<1>1. PICK a : a = Head(rest)
  OBVIOUS
<1> DEFINE item == Item("alert", a.stem, a.severity, a.level, a.summary, AlertId(a))
<1>2. /\ Read("alerts") /\ input' = input
      /\ \/ store' = store /\ queue' = queue
         \/ /\ UsableAlert(a)
            /\ store' = Generate(store, AlertId(a), <<"alert", a.connector, a.at, a.summary>>)
            /\ queue' = queue \o <<item>>
  BY <1>1 DEF ProjectAlert, frame, Pass, Spoil, Keep
<1>3. "alerts" \in SourceNames \ {"evidence", "statuses"} /\ pc = "alerts"
  BY <1>2 DEF SourceNames, Read
<1>4. CASE store' = store /\ queue' = queue
  BY <1>2, <1>3, <1>4, QuietStep
<1>5. CASE /\ UsableAlert(a)
           /\ store' = Generate(store, AlertId(a), <<"alert", a.connector, a.at, a.summary>>)
           /\ queue' = queue \o <<item>>
  <2>1. FineAlert(a) /\ AlertId(a) \notin store.rejected
    <3>1. Doubled(input["alerts"], a, "fingerprint") <=> ~Alone(input["alerts"], a, "fingerprint")
      BY <1>3, BeyondEvidence DEF SourceNames
    <3>2. AlertId(a) \in store.rejected <=> Tainted(AlertId(a))
      BY <1>3, BeyondEvidence
    <3> QED BY <1>5, <3>1, <3>2 DEF UsableAlert, FineAlert
  <2>2. PICK n \in DOMAIN input["alerts"] :
          a = input["alerts"][n] /\ n \notin Took("alerts") /\ n \in Took("alerts")'
    BY <1>1, <1>2, <1>3, NextRecord
  <2>3. PICK x, id, content : /\ x = item /\ id = AlertId(a)
                              /\ content = <<"alert", a.connector, a.at, a.summary>>
    OBVIOUS
  <2>4. AlertItem(x, n)
    BY <2>1, <2>2, <2>3 DEF AlertItem, Item
  <2>5. Shown(x)'
    BY <1>2, <2>2, <2>4, PiecesFixed DEF Shown
  <2>6. \A y : Shown(y) /\ y.id = x.id => Namesakes
    BY <2>2, <2>4, AlertNames DEF ReadInv, TypeInv
  <2>7. queue' = Append(queue, x)
    <3>1. queue' = queue \o <<x>>
      BY <1>5, <2>3
    <3> QED BY <3>1, JoinedToList DEF ReadInv, TypeInv, Lists
  <2>8. /\ Brings("alerts", a) = Made(id, content)
        /\ id \notin store.rejected /\ store' = Generate(store, id, content)
    BY <1>5, <2>1, <2>3, BringsOf
  <2> QED BY <1>1, <1>2, <1>3, <2>5, <2>6, <2>7, <2>8, QueuedStep
<1> QED BY <1>2, <1>4, <1>5

LEMMA MetricShown ==
  ASSUME ReadInv, ShownInv, ReadMetric
  PROVE  ShownInv'
<1>1. PICK m : m = Head(rest)
  OBVIOUS
<1>2. /\ Read("metrics") /\ input' = input
      /\ \/ store' = store /\ queue' = queue
         \/ /\ m.inside /\ m.key # "" /\ ~Doubled(Metrics, m, "key") /\ MetricId(m) \notin store.rejected
            /\ store' = Generate(store, MetricId(m), <<"metric", m.key>>)
            /\ queue' = queue \o << >>
  BY <1>1 DEF ReadMetric, frame, Pass, Spoil, Keep
<1>3. "metrics" \in SourceNames \ {"evidence", "statuses"} /\ pc = "metrics"
  BY <1>2 DEF SourceNames, Read
<1>4. CASE store' = store /\ queue' = queue
  BY <1>2, <1>3, <1>4, QuietStep
<1>5. CASE /\ m.inside /\ m.key # "" /\ ~Doubled(Metrics, m, "key") /\ MetricId(m) \notin store.rejected
           /\ store' = Generate(store, MetricId(m), <<"metric", m.key>>)
           /\ queue' = queue \o << >>
  <2>1. FineMetric(m)
    <3>1. Doubled(Metrics, m, "key") <=> ~Alone(Metrics, m, "key")
      BY <1>3, BeyondEvidence
    <3>2. MetricId(m) \in store.rejected <=> Tainted(MetricId(m))
      BY <1>3, BeyondEvidence
    <3> QED BY <1>5, <3>1, <3>2 DEF FineMetric
  <2>2. PICK id, content : id = MetricId(m) /\ content = <<"metric", m.key>>
    OBVIOUS
  <2>3. queue' = queue
    BY <1>5, JoinedToList DEF ReadInv, TypeInv, Lists
  <2>4. /\ Brings("metrics", m) = Made(id, content)
        /\ id \notin store.rejected /\ store' = Generate(store, id, content)
    BY <1>5, <2>1, <2>2, BringsOf
  <2> QED BY <1>1, <1>2, <1>3, <2>3, <2>4, MadeStep
<1> QED BY <1>2, <1>4, <1>5

LEMMA RuleShown ==
  ASSUME ReadInv, ShownInv, ApplyRule
  PROVE  ShownInv'
<1>1. PICK r : r = Head(rest)
  OBVIOUS
<1> DEFINE e == Judged(r)
           made == SignalId(r, e.at)
           item == Item("anomaly", r.id, r.severity, Levels[r.severity], r.name, made)
<1>2. /\ Read("rules") /\ input' = input
      /\ \/ store' = store /\ queue' = queue
         \/ /\ r.enabled /\ e.verdict = "signal" /\ made \notin store.rejected
            /\ store' = Generate(store, made, <<"signal", r.key, e.at, r.name>>)
            /\ queue' = queue \o <<item>>
  BY <1>1 DEF ApplyRule, frame, Pass, Spoil, Keep
<1>3. "rules" \in SourceNames \ {"evidence", "statuses"} /\ pc = "rules"
  BY <1>2 DEF SourceNames, Read
<1>4. CASE store' = store /\ queue' = queue
  BY <1>2, <1>3, <1>4, QuietStep
<1>5. CASE /\ r.enabled /\ e.verdict = "signal" /\ made \notin store.rejected
           /\ store' = Generate(store, made, <<"signal", r.key, e.at, r.name>>)
           /\ queue' = queue \o <<item>>
  <2>1. FineRule(r)
    <3>1. Doubled(input["rules"], r, "id") <=> ~Alone(input["rules"], r, "id")
      BY <1>3, BeyondEvidence DEF SourceNames
    <3>2. made \in store.rejected <=> Tainted(made)
      BY <1>3, BeyondEvidence
    <3>3. Doubled(input.rules, r, "id") \/ Cardinality(Matching(r)) # 1 => e.verdict = "error"
      BY DEF Judged
    <3> QED BY <1>5, <3>1, <3>2, <3>3 DEF FineRule, Judged
  <2>2. PICK n \in DOMAIN input["rules"] :
          r = input["rules"][n] /\ n \notin Took("rules") /\ n \in Took("rules")'
    BY <1>1, <1>2, <1>3, NextRecord
  <2>3. PICK x, id, content : x = item /\ id = made /\ content = <<"signal", r.key, e.at, r.name>>
    OBVIOUS
  <2>4. RuleItem(x, n)
    BY <2>1, <2>2, <2>3 DEF RuleItem, Item, FineRule
  <2>5. Shown(x)'
    BY <1>2, <2>2, <2>4, PiecesFixed DEF Shown
  <2>6. \A y : Shown(y) /\ y.id = x.id => Namesakes
    BY <2>2, <2>4, RuleNames DEF ReadInv, TypeInv
  <2>7. queue' = Append(queue, x)
    <3>1. queue' = queue \o <<x>>
      BY <1>5, <2>3
    <3> QED BY <3>1, JoinedToList DEF ReadInv, TypeInv, Lists
  <2>8. /\ Brings("rules", r) = Made(id, content)
        /\ id \notin store.rejected /\ store' = Generate(store, id, content)
    BY <1>5, <2>1, <2>3, BringsOf
  <2> QED BY <1>1, <1>2, <1>3, <2>5, <2>6, <2>7, <2>8, QueuedStep
<1> QED BY <1>2, <1>4, <1>5

LEMMA CheckShown ==
  ASSUME ReadInv, ShownInv, RunCheck
  PROVE  ShownInv'
<1>1. PICK s : s = Head(rest)
  OBVIOUS
<1> DEFINE r == CheckResult(s, input.results, Now)
           usable == r.evidence # NoId /\ r.evidence \notin store.rejected
           severity == IF r.outcome = "degraded" THEN 3 ELSE 2
           item == Item("check", s.id, severity, Levels[severity], s.id \o r.outcome, r.evidence)
           said == <<"check", s.id, r.outcome>>
<1>2. /\ Read("checks") /\ input' = input
      /\ \/ store' = store /\ queue' = queue
         \/ /\ ~Doubled(input.checks, s, "id") /\ s.inside /\ r.outcome # "failed" /\ usable
            /\ store' = Generate(store, r.evidence, said)
            /\ queue' = queue \/ queue' = Append(queue, item)
  BY <1>1 DEF RunCheck, frame, Pass, Spoil
<1>3. "checks" \in SourceNames \ {"evidence", "statuses"} /\ pc = "checks"
  BY <1>2 DEF SourceNames, Read
<1>4. CASE store' = store /\ queue' = queue
  BY <1>2, <1>3, <1>4, QuietStep
<1>5. CASE /\ ~Doubled(input.checks, s, "id") /\ s.inside /\ r.outcome # "failed" /\ usable
           /\ store' = Generate(store, r.evidence, said)
           /\ queue' = queue \/ queue' = Append(queue, item)
  <2>1. FineCheck(s) /\ r.evidence # NoId
    <3>1. Doubled(input["checks"], s, "id") <=> ~Alone(input["checks"], s, "id")
      BY <1>3, BeyondEvidence DEF SourceNames
    <3>2. r.evidence \in store.rejected <=> Tainted(r.evidence)
      BY <1>3, BeyondEvidence
    <3>3. ~s.valid => r.outcome = "failed"
      BY DEF CheckResult, Failed
    <3> QED BY <1>5, <3>1, <3>2, <3>3 DEF FineCheck
  <2>2. PICK n \in DOMAIN input["checks"] :
          s = input["checks"][n] /\ n \notin Took("checks") /\ n \in Took("checks")'
    BY <1>1, <1>2, <1>3, NextRecord
  <2>3. PICK x, id, content : x = item /\ id = r.evidence /\ content = said
    OBVIOUS
  <2>4. CheckItem(x, n)
    BY <2>1, <2>2, <2>3 DEF CheckItem, Item, FineCheck
  <2>5. Shown(x)'
    BY <1>2, <2>2, <2>4, PiecesFixed DEF Shown
  <2>6. \A y : Shown(y) /\ y.id = x.id => Namesakes
    BY <2>2, <2>4, CheckNames DEF ReadInv, TypeInv
  <2>7. /\ Brings("checks", s) = Made(id, content)
        /\ id \notin store.rejected /\ store' = Generate(store, id, content)
    BY <1>5, <2>1, <2>3, BringsOf
  <2>8. queue' = queue \/ queue' = Append(queue, x)
    BY <1>5, <2>3
  <2> QED BY <1>1, <1>2, <1>3, <2>5, <2>6, <2>7, <2>8, MadeStep, QueuedStep
<1> QED BY <1>2, <1>4, <1>5

LEMMA ChangeShown ==
  ASSUME ReadInv, ShownInv, ProjectChange
  PROVE  ShownInv'
<1>1. PICK c : c = Head(rest)
  OBVIOUS
<1>2. /\ Read("changes") /\ input' = input /\ queue' = queue
      /\ \/ store' = store
         \/ /\ ReadableChange(c) /\ ChangeId(c) \notin store.rejected
            /\ store' = Generate(store, ChangeId(c), <<"change", c.id>>)
  BY <1>1 DEF ProjectChange, frame
<1>3. "changes" \in SourceNames \ {"evidence", "statuses"} /\ pc = "changes"
  BY <1>2 DEF SourceNames, Read
<1>4. CASE store' = store
  BY <1>2, <1>3, <1>4, QuietStep
<1>5. CASE /\ ReadableChange(c) /\ ChangeId(c) \notin store.rejected
           /\ store' = Generate(store, ChangeId(c), <<"change", c.id>>)
  <2>1. FineChange(c)
    <3>1. Doubled(input["changes"], c, "id") <=> ~Alone(input["changes"], c, "id")
      BY <1>3, BeyondEvidence DEF SourceNames
    <3>2. ChangeId(c) \in store.rejected <=> Tainted(ChangeId(c))
      BY <1>3, BeyondEvidence
    <3> QED BY <1>5, <3>1, <3>2 DEF FineChange, ReadableChange
  <2>2. PICK id, content : id = ChangeId(c) /\ content = <<"change", c.id>>
    OBVIOUS
  <2>3. /\ Brings("changes", c) = Made(id, content)
        /\ id \notin store.rejected /\ store' = Generate(store, id, content)
    BY <1>5, <2>1, <2>2, BringsOf
  <2> QED BY <1>1, <1>2, <1>3, <2>3, MadeStep
<1> QED BY <1>2, <1>4, <1>5

LEMMA EnvironmentShown ==
  ASSUME ReadInv, ShownInv, ProjectEnvironment
  PROVE  ShownInv'
<1>1. PICK e : e = Head(rest)
  OBVIOUS
<1> DEFINE said == <<"environment", e.provider, e.at, e.detail>>
           broken == e.id = "" \/ Doubled(input.environments, e, "id") \/ (e.inside /\ ~e.readable)
<1>2. /\ Read("environments") /\ input' = input /\ queue' = queue
      /\ \/ store' = store
         \/ /\ ~broken /\ e.inside /\ EnvironmentId(e) \notin store.rejected
            /\ store' = Generate(store, EnvironmentId(e), said)
  BY <1>1 DEF ProjectEnvironment, frame
<1>3. "environments" \in SourceNames \ {"evidence", "statuses"} /\ pc = "environments"
  BY <1>2 DEF SourceNames, Read
<1>4. CASE store' = store
  BY <1>2, <1>3, <1>4, QuietStep
<1>5. CASE /\ ~broken /\ e.inside /\ EnvironmentId(e) \notin store.rejected
           /\ store' = Generate(store, EnvironmentId(e), said)
  <2>1. FineEnvironment(e)
    <3>1. Doubled(input["environments"], e, "id") <=> ~Alone(input["environments"], e, "id")
      BY <1>3, BeyondEvidence DEF SourceNames
    <3> QED BY <1>5, <3>1 DEF FineEnvironment
  <2>2. PICK id, content : id = EnvironmentId(e) /\ content = said
    OBVIOUS
  <2>3. /\ Brings("environments", e) = Made(id, content)
        /\ id \notin store.rejected /\ store' = Generate(store, id, content)
    BY <1>5, <2>1, <2>2, BringsOf
  <2> QED BY <1>1, <1>2, <1>3, <2>3, MadeStep
<1> QED BY <1>2, <1>4, <1>5

(* What has been accepted while the evidence is read is evidence supplied. *)
LEMMA SiftShown ==
  ASSUME ReadInv, ShownInv, SiftEvidence
  PROVE  ShownInv'
<1>1. PICK e : e = Head(rest)
  OBVIOUS
<1>2. /\ Read("evidence") /\ store' = Sift(store, e) /\ input' = input /\ queue' = queue
      /\ pc = "evidence" /\ pc' = pc
  BY <1>1 DEF SiftEvidence, frame, Read
<1>3. "evidence" \in SourceNames /\ ReadingOK /\ StoreOK(store)
  BY DEF ReadInv, TypeInv, SourceNames
<1>4. PICK n \in DOMAIN input["evidence"] : /\ e = input["evidence"][n]
                                            /\ Took("evidence")' = Took("evidence") \cup {n}
  BY <1>1, <1>2, <1>3, ReadNext
<1> DEFINE From(s, places) ==
      \A id \in Accepted(s) :
        /\ id \notin s.rejected
        /\ \E k \in places : Supplies(k, id) /\ s.accepted[id] = input.evidence[k].content
<1>5. From(store, Took("evidence"))
  BY <1>2 DEF ShownInv, PiecesRead
<1>6. From(store', Took("evidence") \cup {n})
  <2>1. CASE store' = store
    BY <1>5, <2>1
  <2>2. CASE e.inside /\ e.id \notin Taken(store) /\ store' = Accept(store, e.id, e.content)
    <3>1. /\ Accepted(store') = Accepted(store) \cup {e.id} /\ store'.rejected = store.rejected
          /\ store'.accepted[e.id] = e.content
          /\ e.id \notin Accepted(store) /\ e.id \notin store.rejected
          /\ \A id \in Accepted(store) : store'.accepted[id] = store.accepted[id]
      BY <1>3, <2>2 DEF Accept, Taken, Accepted, StoreOK
    <3>2. Supplies(n, e.id) /\ e.content = input.evidence[n].content
      BY <1>4, <2>2 DEF Supplies
    <3> QED BY <1>5, <3>1, <3>2
  <2>3. CASE store' = Reject(store, e.id)
    <3>1. /\ Accepted(store') = Accepted(store) \ {e.id} /\ store'.rejected = store.rejected \cup {e.id}
          /\ \A id \in Accepted(store') : store'.accepted[id] = store.accepted[id]
      BY <1>3, <2>3 DEF Reject, Accepted, StoreOK, Restrict
    <3> QED BY <1>5, <3>1
  <2> QED BY <1>2, <2>1, <2>2, <2>3 DEF Sift
<1>7. PiecesRead'
  <2>1. \A k, id : Supplies(k, id)' <=> Supplies(k, id)
    BY <1>2 DEF Supplies
  <2> QED BY <1>2, <1>4, <1>6, <2>1 DEF PiecesRead
<1>8. QueueRead'
  BY <1>2, <1>3, TookMore, QueueStays DEF ShownInv
<1> QED BY <1>7, <1>8 DEF ShownInv

(* When it has been read, what was accepted was supplied once, verified.   *)
LEMMA LoadedShown ==
  ASSUME ReadInv, ShownInv, Loaded
  PROVE  ShownInv'
<1>1. PICK s \in {"evidence", "statuses", "metrics"} : Exhausted(s)
  BY DEF Loaded
<1>2. UNCHANGED <<input, store, queue>> /\ s \in SourceNames
  BY DEF Loaded, frame, SourceNames
<1>3. CASE s # "evidence"
  BY <1>1, <1>2, <1>3, QuietStep
<1>4. CASE s = "evidence"
  <2>1. ReadingOK /\ pc = "evidence" /\ pc' = "statuses"
    <3>1. ReadingOK /\ pc = "evidence"
      BY <1>1, <1>4 DEF Exhausted, ReadInv, TypeInv
    <3> QED BY <1>1, <1>2, <1>4, <3>1, ReadOn, Succession
  <2>2. "evidence" \in Behind(pc') /\ Took("evidence")' = Took("evidence")
    <3>1. Took("evidence")' = Took("evidence")
      BY <1>1, <1>2, <1>4, <2>1, ReadOn
    <3> QED BY <2>1, <3>1 DEF Behind
  <2>3. Took("evidence") = DOMAIN input.evidence
    BY <1>2, <2>1, <2>2 DEF Took
  <2>4. \A id : id \in store.rejected <=> Tainted(id)
    <3>1. \A id : TaintedBy(DOMAIN input.evidence, id) <=> Tainted(id)
      BY TaintedByAll DEF ReadInv, TypeInv
    <3> QED BY <2>3, <3>1 DEF ReadInv, EvidenceRead
  <2>5. ASSUME NEW id \in Accepted(store)
        PROVE  <<id, store.accepted[id]>> \in Pieces
    <3>1. PICK n \in DOMAIN input["evidence"] :
            Supplies(n, id) /\ store.accepted[id] = input.evidence[n].content /\ id \notin store.rejected
      BY <2>1, <2>3, <2>5 DEF ShownInv, PiecesRead
    <3>2. PICK r : r = input["evidence"][n]
      OBVIOUS
    <3>3. r.inside /\ r.id = id /\ ~Tainted(r.id) /\ r.content = store.accepted[id]
      BY <2>4, <3>1, <3>2 DEF Supplies
    <3>4. Brings("evidence", r) = {<<r.id, r.content>>}
      BY <3>3, BringsOf
    <3>5. Brings("evidence", r) \subseteq Pieces
      BY <1>2, <1>4, <3>2, PieceBrought
    <3> QED BY <3>3, <3>4, <3>5
  <2>6. PiecesRead'
    <3>1. \A id \in Accepted(store') : <<id, store'.accepted[id]>> \in Pieces
      BY <1>2, <2>5
    <3> QED BY <1>2, <2>1, <3>1, PiecesFixed DEF PiecesRead
  <2>7. QueueRead'
    BY <1>1, <1>2, <2>1, TookMore, QueueStays DEF ShownInv
  <2> QED BY <2>6, <2>7 DEF ShownInv
<1> QED BY <1>3, <1>4

(* Before anything has been read there is nothing to account for.          *)
LEMMA BeginShown ==
  ASSUME ReadInv, ShownInv, Begin, pc' # "done"
  PROVE  ShownInv'
<1>1. /\ pc = "ask" /\ pc' = "evidence" /\ UNCHANGED <<input, store, queue>>
  BY DEF Begin, Open
<1>2. Accepted(store') = {}
  BY <1>1 DEF ReadInv, EvidenceRead, EmptyStore, Accepted
<1>3. PiecesRead'
  BY <1>1, <1>2 DEF PiecesRead
<1>4. \A t \in ItemSources : Took(t) = {}
  BY <1>1 DEF Took, Behind, ItemSources
<1>5. QueueRead'
  BY <1>1, <1>4, QueueStays DEF ShownInv
<1> QED BY <1>3, <1>5 DEF ShownInv

(* The end of a source makes no evidence and queues nothing.               *)
LEMMA CloseShown ==
  ASSUME ReadInv, ShownInv,
         \/ LoadStatus \/ CloseAlerts \/ CloseRules \/ CloseChecks \/ CloseChanges \/ CloseEnvironments
  PROVE  ShownInv'
<1>1. PICK s \in SourceNames \ {"evidence"} : Read(s) \/ Exhausted(s)
  BY DEF LoadStatus, CloseAlerts, CloseRules, CloseChecks, CloseChanges, CloseEnvironments, SourceNames
<1>2. UNCHANGED <<input, store, queue>>
  BY DEF LoadStatus, CloseAlerts, CloseRules, CloseChecks, CloseChanges, CloseEnvironments, frame
<1> QED BY <1>1, <1>2, QuietStep

-----------------------------------------------------------------------------
(***************************************************************************)
(* The snapshot                                                            *)
(***************************************************************************)
LEMMA SnapshotSays ==
  /\ Snapshot.kind = "snapshot" /\ Snapshot.state = Posture
  /\ Snapshot.queue = Range(queue) /\ Snapshot.changes = Range(changes)
  /\ Snapshot.environments = Range(environments)
  /\ Snapshot.statuses = [k \in DOMAIN book |-> Final(book[k])]
  /\ Snapshot.evidence = Summed.accepted
BY DEF Snapshot

(* A snapshot that fails as a whole: two pieces of evidence say the same,  *)
(* one has a blank identifier, or two alerts have one item name.           *)
LEMMA FailedFor ==
  ASSUME ReadInv, ShownInv, pc = "summary", ~Valid(Summed.accepted)
  PROVE  SayTheSame \/ Nameless \/ Namesakes
<1>1. \A id \in Accepted(store) : <<id, store.accepted[id]>> \in Pieces
  BY DEF ShownInv, PiecesRead
<1>2. /\ \A id : id \in store.rejected <=> Tainted(id)
      /\ \A ids : Sound(ids) \subseteq Usable(store, ids)
  BY Sifted DEF Behind, SourceNames
<1> DEFINE keys == {key \in DOMAIN Numbers : Usable(store, Numbers[key]) = {}}
           new == {SummaryId(store, key) : key \in keys} \ Taken(store)
<1>3. /\ DOMAIN Summed.accepted = Accepted(store) \cup new
      /\ \A id \in new : Summed.accepted[id] = <<"summary", id[2]>>
      /\ \A id \in Accepted(store) : Summed.accepted[id] = store.accepted[id]
  BY DEF Summed, Fallback, Taken, Accepted, ReadInv, TypeInv, StoreOK
<1>4. ASSUME NEW id \in new
      PROVE  <<id, <<"summary", id[2]>>>> \in Pieces
  <2>1. PICK key \in DOMAIN Numbers : id = SummaryId(store, key)
    OBVIOUS
  <2>2. id = <<IF Tainted(<<"summary", key>>) THEN "generated" ELSE "summary", key>> /\ id[2] = key
    BY <1>2, <2>1 DEF SummaryId
  <2>3. id \notin Accepted(store) /\ id \notin store.rejected
    BY DEF Taken
  <2>4. ~Tainted(id) /\ Sound({id}) = {}
    BY <1>2, <2>3 DEF Usable
  <2>5. Made(id, <<"summary", key>>) = {<<id, <<"summary", key>>>>}
    BY <2>4 DEF Made
  <2>6. Made(id, <<"summary", key>>) \subseteq Summaries
    <3>1. Made(id, <<"summary", key>>) \in
            {Made(<<IF Tainted(<<"summary", k>>) THEN "generated" ELSE "summary", k>>, <<"summary", k>>) :
               k \in DOMAIN Numbers}
      BY <2>1, <2>2
    <3> QED BY <3>1 DEF Summaries
  <2>7. Summaries \subseteq Pieces
    BY DEF Pieces
  <2> QED BY <2>2, <2>5, <2>6, <2>7
<1>5. PICK evidence : evidence = Summed.accepted
  OBVIOUS
<1>6. \A id \in DOMAIN evidence : <<id, evidence[id]>> \in Pieces
  BY <1>1, <1>3, <1>4, <1>5
<1> HIDE DEF new
<1>7. \/ \E i, j \in DOMAIN evidence : i # j /\ evidence[i] = evidence[j]
      \/ Blank \in DOMAIN evidence
      \/ \E i, j \in DOMAIN queue : i # j /\ queue[i].id = queue[j].id
  BY <1>5 DEF Valid
<1>8. CASE \E i, j \in DOMAIN evidence : i # j /\ evidence[i] = evidence[j]
  BY <1>6, <1>8 DEF SayTheSame
<1>9. CASE Blank \in DOMAIN evidence
  BY <1>6, <1>9 DEF Nameless
<1>10. CASE \E i, j \in DOMAIN queue : i # j /\ queue[i].id = queue[j].id
  BY <1>10 DEF ShownInv, QueueRead
<1> QED BY <1>7, <1>8, <1>9, <1>10

(* When everything has been read, every record has been accounted for.     *)
LEMMA AllRead ==
  ASSUME ReadInv, pc = "summary"
  PROVE  /\ \A s \in Range(input.statuses) : StatusRead(s)
         /\ \A a \in Range(input.alerts) : AlertRead(a)
         /\ \A m \in Range(input.metrics) : MetricRead(m)
         /\ \A r \in Range(input.rules) : RuleRead(r)
         /\ \A s \in Range(input.checks) : CheckRead(s)
         /\ \A c \in Range(input.changes) : ChangeRead(c)
         /\ \A e \in Range(input.environments) : EnvironmentRead(e)
<1>1. /\ Took("statuses") = DOMAIN input.statuses /\ Took("alerts") = DOMAIN input.alerts
      /\ Took("metrics") = DOMAIN input.metrics /\ Took("rules") = DOMAIN input.rules
      /\ Took("checks") = DOMAIN input.checks /\ Took("changes") = DOMAIN input.changes
      /\ Took("environments") = DOMAIN input.environments
  BY DEF Took, Behind, SourceNames
<1> QED BY <1>1 DEF ReadInv, RecordsRead, Range

LEMMA RenderedAtTheEnd ==
  ASSUME ReadInv, pc = "summary", answer' = Snapshot, input' = input
  PROVE  HealthyRecordsRender'
<1>1. /\ answer'.queue = Range(queue) /\ answer'.changes = Range(changes)
      /\ answer'.environments = Range(environments)
  BY SnapshotSays
<1>2. \A a \in Range(input.alerts) : FineAlert(a) =>
        \E x \in Range(queue) : x.evidence = AlertId(a) /\ x.severity = a.severity
  BY AllRead DEF AlertRead
<1>3. \A s \in Range(input.checks) : FineCheck(s) /\ InTrouble(s) =>
        \E x \in Range(queue) : x.id = <<"check", s.id>>
  BY AllRead DEF CheckRead
<1>4. \A c \in Range(input.changes) : FineChange(c) => \E x \in Range(changes) : x.id = c.id
  BY AllRead DEF ChangeRead
<1>5. \A e \in Range(input.environments) : FineEnvironment(e) /\ Backed(e, Sound(e.evidence)) =>
        \E x \in Range(environments) : x.id = e.id /\ x.health = e.health
  BY AllRead DEF EnvironmentRead
<1>6. \A a \in Range(input'.alerts) : FineAlert(a)' =>
        \E x \in answer'.queue : x.evidence = AlertId(a) /\ x.severity = a.severity
  BY <1>1, <1>2, FinenessFixed
<1>7. \A s \in Range(input'.checks) : FineCheck(s)' /\ InTrouble(s)' =>
        \E x \in answer'.queue : x.id = <<"check", s.id>>
  BY <1>1, <1>3, FinenessFixed
<1>8. \A c \in Range(input'.changes) : FineChange(c)' => \E x \in answer'.changes : x.id = c.id
  BY <1>1, <1>4, FinenessFixed
<1>9. \A e \in Range(input'.environments) : FineEnvironment(e)' /\ Backed(e, Sound(e.evidence))' =>
        \E x \in answer'.environments : x.id = e.id /\ x.health = e.health
  <2>1. \A e : Backed(e, Sound(e.evidence))' <=> Backed(e, Sound(e.evidence))
    BY FinenessFixed DEF Backed
  <2> QED BY <1>1, <1>5, <2>1, FinenessFixed
<1>10. answer' # Error("snapshot")
  <2>1. Error("snapshot").kind = "error" /\ answer'.kind = "snapshot"
    BY SnapshotSays DEF Error
  <2> QED BY <2>1
<1> QED BY <1>6, <1>7, <1>8, <1>9, <1>10 DEF HealthyRecordsRender

(* A calm console: no source is in doubt, lacks evidence or is lost.       *)
LEMMA Calm ==
  ASSUME BookOK(book), Posture \in {"healthy", "degraded"}
  PROVE  \A k \in {k \in DOMAIN book : ~OfChanges(k)} :
           /\ book[k].state \in {"fresh", "stale"} /\ book[k].evidence # {}
           /\ ~Worse(k, "unverified") /\ ~Worse(k, "unavailable")
<1>1. \A k \in {k \in DOMAIN book : ~OfChanges(k)} :
        /\ ~(book[k].state = "unavailable" /\ book[k].evidence # {})
        /\ book[k].state # "unverified" /\ book[k].evidence # {}
  BY DEF Posture
<1>2. \A k \in {k \in DOMAIN book : ~OfChanges(k)} : book[k].state \in {"fresh", "stale"}
  BY <1>1 DEF BookOK, StatusOK, SourceStates
<1>3. \A k \in {k \in DOMAIN book : ~OfChanges(k)} : Rank(book[k].state) \in {0, 1}
  BY <1>2, Ranks
<1> QED BY <1>1, <1>2, <1>3, Ranks DEF Worse

(* A healthy one has nothing that calls for attention either.              *)
LEMMA Serene ==
  ASSUME TypeInv, Posture = "healthy"
  PROVE  /\ \A x \in Range(queue) : x.level = "none" /\ x.severity # 1
         /\ \A e \in Range(environments) : e.health = "healthy"
         /\ \A k \in DOMAIN book : book[k].state # "stale"
<1>1. /\ \A i \in DOMAIN queue : queue[i].severity # 1
      /\ ~(Count(queue, Impacted) > 0) /\ ~(Count(environments, Unwell) > 0)
      /\ \A k \in DOMAIN book : book[k].state # "stale"
  BY DEF Posture
<1>2. IsFiniteSet(DOMAIN queue) /\ IsFiniteSet(DOMAIN environments)
  BY ListsAreFinite DEF TypeInv, Lists
<1>3. \A i \in DOMAIN queue : ~Impacted(queue[i])
  <2> DEFINE S == {i \in DOMAIN queue : Impacted(queue[i])}
  <2>1. IsFiniteSet(S)
    BY <1>2, FS_Subset
  <2>2. Count(queue, Impacted) = Cardinality(S)
    BY DEF Count
  <2>3. Cardinality(S) \in Nat /\ (Cardinality(S) = 0 <=> S = {})
    BY <2>1, FS_CardinalityType, FS_EmptySet
  <2>4. S = {}
    BY <1>1, <2>2, <2>3
  <2> QED BY <2>4
<1>4. \A i \in DOMAIN environments : ~Unwell(environments[i])
  <2> DEFINE S == {i \in DOMAIN environments : Unwell(environments[i])}
  <2>1. IsFiniteSet(S)
    BY <1>2, FS_Subset
  <2>2. Count(environments, Unwell) = Cardinality(S)
    BY DEF Count
  <2>3. Cardinality(S) \in Nat /\ (Cardinality(S) = 0 <=> S = {})
    BY <2>1, FS_CardinalityType, FS_EmptySet
  <2>4. S = {}
    BY <1>1, <2>2, <2>3
  <2> QED BY <2>4
<1> QED BY <1>1, <1>3, <1>4 DEF Impacted, Unwell, Range

(* Summaries are added to the evidence and take none of it away.           *)
LEMMA SummariesAdd ==
  ASSUME StoreOK(store)
  PROVE  \A ids : Usable(store, ids) \subseteq Usable(Summed, ids)
<1>1. ASSUME NEW keys
      PROVE  Accepted(store) \subseteq Accepted(Fallback(store, keys))
  BY DEF Fallback, Accepted, StoreOK
<1>2. Accepted(store) \subseteq Accepted(Summed)
  BY <1>1 DEF Summed
<1> QED BY <1>2 DEF Usable

LEMMA HonestAtTheEnd ==
  ASSUME ReadInv, pc = "summary", answer' = Snapshot,
         UNCHANGED <<input, store, queue, due, timedOut, environments>>
  PROVE  NoFalseHealthy'
<1>1. /\ answer'.state = Posture /\ answer'.queue = Range(queue)
      /\ answer'.environments = Range(environments)
      /\ answer'.statuses = [k \in DOMAIN book |-> Final(book[k])]
  BY SnapshotSays
<1>2. TypeInv
  BY DEF ReadInv
<1>3. Summed' = Summed
  <2>1. Numbers' = Numbers
    BY DEF Numbers, EvidenceOf, Unwell, Impacted
  <2> QED BY <2>1 DEF Summed
<1>4. Metrics' = Metrics /\ Range(Metrics) \subseteq Range(input.metrics)
      /\ \A m \in Range(Metrics) : m.inside
  BY DEF Metrics, Restrict, Range
<1>5. CASE Posture \in {"healthy", "degraded"}
  <2>1. \A k \in {k \in DOMAIN book : ~OfChanges(k)} :
          /\ book[k].state \in {"fresh", "stale"} /\ book[k].evidence # {}
          /\ ~Worse(k, "unverified") /\ ~Worse(k, "unavailable")
    BY <1>2, <1>5, Calm DEF TypeInv
  <2>2. \A k : ~OfChanges(k) => ~Worse(k, "unverified") /\ ~Worse(k, "unavailable")
    BY <2>1 DEF Worse
  <2>3. /\ \A phases, k : phases \subseteq SourceNames /\ ~OfChanges(k) => ~Unusable(phases, k)
        /\ ~OfChanges(<<"alertmanager">>) /\ ~OfChanges(<<"prometheus">>) /\ ~OfChanges(<<"health_checks">>)
    BY <2>2, ChangeSourcesAssumption DEF Unusable, SourceNames, OfChanges
  <2>4. \A a \in Range(input.alerts) : a.state = "resolved" \/ FineAlert(a)
    <3>1. ~Unusable({"alerts"}, <<"alertmanager">>)
      BY <2>3 DEF SourceNames
    <3> QED BY <3>1, AllRead DEF AlertRead
  <2>5. \A m \in Range(Metrics) : FineMetric(m)
    <3>1. ~Unusable({"metrics", "rules"}, <<"prometheus">>)
      BY <2>3 DEF SourceNames
    <3> QED BY <1>4, <3>1, AllRead DEF MetricRead
  <2>6. \A r \in Range(input.rules) : ~r.enabled \/ FineRule(r)
    <3>1. ~Unusable({"rules"}, <<"prometheus">>)
      BY <2>3 DEF SourceNames
    <3> QED BY <3>1, AllRead DEF RuleRead
  <2>7. \A s \in Range(input.checks) : FineCheck(s)
    <3>1. ~Unusable({"checks"}, <<"health_checks">>)
      BY <2>3 DEF SourceNames
    <3> QED BY <3>1, AllRead DEF CheckRead
  <2>8. \A ids : Usable(store, ids) \subseteq Usable(Summed, ids)
    BY <1>2, SummariesAdd DEF TypeInv
  <2>9. \A e \in Range(input.environments) : FineEnvironment(e) /\ Backed(e, Usable(Summed, e.evidence))
    <3> TAKE e \in Range(input.environments)
    <3>1. FineEnvironment(e) /\ Backed(e, Usable(store, e.evidence))
      BY <2>2, AllRead DEF EnvironmentRead
    <3> QED BY <2>8, <3>1 DEF Backed
  <2>10. \A s \in Range(input.statuses) :
           OfChanges(s.key) \/ (s.state # "unverified" /\ (s.evidence = {} \/ Usable(Summed, s.evidence) # {}))
    <3> TAKE s \in Range(input.statuses)
    <3>1. StatusRead(s)
      BY AllRead
    <3>2. CASE ~OfChanges(s.key)
      <4>1. ~Worse(s.key, "unverified")
        BY <2>2, <3>2
      <4>2. s.state # "unverified" /\ (s.evidence = {} \/ Usable(store, s.evidence) # {})
        BY <3>1, <4>1 DEF StatusRead
      <4> QED BY <2>8, <4>2
    <3> QED BY <3>2
  <2>11. \A k \in {k \in DOMAIN book : ~OfChanges(k)} :
           Final(book[k]).evidence # {} /\ Final(book[k]).state = book[k].state
    BY <2>1 DEF Final
  <2>12. \A k \in {k \in DOMAIN answer'.statuses : ~OfChanges(k)} :
           answer'.statuses[k].evidence # {} /\ answer'.statuses[k].state = book[k].state
    BY <1>1, <2>11
  <2>13. answer'.state = "healthy" =>
           /\ \A x \in answer'.queue : x.level = "none" /\ x.severity # 1
           /\ \A e \in answer'.environments : e.health = "healthy"
           /\ \A k \in DOMAIN answer'.statuses : OfChanges(k) \/ answer'.statuses[k].state = "fresh"
    <3> HAVE answer'.state = "healthy"
    <3>1. /\ \A x \in Range(queue) : x.level = "none" /\ x.severity # 1
          /\ \A e \in Range(environments) : e.health = "healthy"
          /\ \A k \in DOMAIN book : book[k].state # "stale"
      BY <1>1, <1>2, Serene
    <3>2. \A k \in DOMAIN answer'.statuses : OfChanges(k) \/ answer'.statuses[k].state = "fresh"
      BY <1>1, <2>1, <2>12, <3>1
    <3> QED BY <1>1, <3>1, <3>2
  <2>14. /\ \A a \in Range(input'.alerts) : a.state = "resolved" \/ FineAlert(a)'
         /\ \A m \in Range(Metrics') : FineMetric(m)'
         /\ \A r \in Range(input'.rules) : ~r.enabled \/ FineRule(r)'
         /\ \A s \in Range(input'.checks) : FineCheck(s)'
    BY <1>4, <2>4, <2>5, <2>6, <2>7, FinenessFixed
  <2>15. \A e \in Range(input'.environments) : FineEnvironment(e)' /\ Backed(e, Usable(Summed, e.evidence))'
    <3>1. \A e : Backed(e, Usable(Summed, e.evidence))' <=> Backed(e, Usable(Summed, e.evidence))
      BY <1>3, FinenessFixed DEF Backed
    <3> QED BY <2>9, <3>1, FinenessFixed
  <2>16. \A s \in Range(input'.statuses) :
           OfChanges(s.key) \/ (s.state # "unverified" /\ (s.evidence = {} \/ Usable(Summed', s.evidence) # {}))
    BY <1>3, <2>10
  <2> QED BY <2>12, <2>13, <2>14, <2>15, <2>16 DEF NoFalseHealthy, OfChanges
<1>6. CASE Posture \notin {"healthy", "degraded"}
  BY <1>1, <1>6 DEF NoFalseHealthy
<1> QED BY <1>5, <1>6

-----------------------------------------------------------------------------
(***************************************************************************)
(* The invariant and the theorems                                          *)
(***************************************************************************)
ConsoleInv ==
  /\ pc # "done" => answer = NoAnswer /\ ReadInv /\ ShownInv
  /\ NoFalseHealthy /\ HealthyRecordsRender

(* Another error, named evidence and no answer yet make no claim.          *)
LEMMA NoClaim ==
  ASSUME ~Answered, answer # Error("snapshot")
  PROVE  NoFalseHealthy /\ HealthyRecordsRender
BY DEF NoFalseHealthy, HealthyRecordsRender

(* A stutter keeps the claims: they are about the input and the answer,    *)
(* and about the evidence they rest on.                                    *)
LEMMA ClaimKept ==
  ASSUME UNCHANGED vars, NoFalseHealthy, HealthyRecordsRender
  PROVE  NoFalseHealthy' /\ HealthyRecordsRender'
<1>1. UNCHANGED <<input, answer, store, queue, due, timedOut, environments>>
  BY DEF vars, checked
<1>2. Summed' = Summed
  <2>1. Numbers' = Numbers
    BY <1>1 DEF Numbers, EvidenceOf, Unwell, Impacted
  <2> QED BY <1>1, <2>1 DEF Summed
<1>3. Metrics' = Metrics
  BY <1>1 DEF Metrics
<1>4. \A e : /\ Backed(e, Usable(Summed, e.evidence))' <=> Backed(e, Usable(Summed, e.evidence))
             /\ Backed(e, Sound(e.evidence))' <=> Backed(e, Sound(e.evidence))
  BY <1>1, <1>2, FinenessFixed DEF Backed
<1>5. HealthyRecordsRender'
  <2>1. (answer = Error("snapshot"))' => (SayTheSame \/ Nameless \/ Namesakes)'
    <3>1. HAVE (answer = Error("snapshot"))'
    <3>2. answer = Error("snapshot")
      BY <1>1, <3>1 DEF Error
    <3>3. SayTheSame \/ Nameless \/ Namesakes
      BY <3>2 DEF HealthyRecordsRender
    <3> QED BY <1>1, <3>3, PiecesFixed DEF SayTheSame, Nameless
  <2> QED BY <1>1, <1>4, <2>1, FinenessFixed DEF HealthyRecordsRender, Answered
<1>6. NoFalseHealthy'
  BY <1>1, <1>2, <1>3, <1>4, FinenessFixed DEF NoFalseHealthy, Answered, OfChanges
<1> QED BY <1>5, <1>6

LEMMA ReadKept ==
  ASSUME UNCHANGED vars, ReadInv
  PROVE  ReadInv'
<1>1. UNCHANGED <<input, pc, rest, store, book, bad, queue, changes, environments>>
  BY DEF vars
<1>2. TypeInv
  BY DEF ReadInv
<1>3. Grows
  BY <1>1, <1>2, PassGrows
<1>4. DoubtStays
  BY <1>1, <1>2, <1>3, DoubtHeld
<1>5. \A t : Took(t)' = Took(t)
  BY <1>1 DEF Took
<1>7. TypeInv'
  BY <1>1, <1>2 DEF TypeInv, ReadingOK, Lists
<1>8. EvidenceRead'
  BY <1>1, <1>5 DEF ReadInv, EvidenceRead, TaintedBy, Supplies
<1>9. RecordsRead'
  BY <1>1, <1>3, <1>4, <1>5, ReadBefore DEF RecordsRead
<1> QED BY <1>7, <1>8, <1>9 DEF ReadInv

LEMMA ShownKept ==
  ASSUME UNCHANGED vars, ReadInv, ShownInv
  PROVE  ShownInv'
<1>1. UNCHANGED <<input, pc, rest, store, queue>>
  BY DEF vars
<1>2. \A t : Took(t)' = Took(t)
  BY <1>1 DEF Took
<1>3. PiecesRead'
  <2>1. \A n, id : Supplies(n, id)' <=> Supplies(n, id)
    BY <1>1 DEF Supplies
  <2> QED BY <1>1, <1>2, <2>1, PiecesFixed DEF ShownInv, PiecesRead
<1>4. QueueRead'
  BY <1>1, <1>2, QueueStays DEF ShownInv
<1> QED BY <1>3, <1>4 DEF ShownInv

LEMMA InitConsole == Init => ConsoleInv
<1> SUFFICES ASSUME Init PROVE ConsoleInv
  OBVIOUS
<1>1. ~Answered /\ answer = NoAnswer /\ answer # Error("snapshot")
  <2>1. answer = NoAnswer
    BY DEF Init
  <2>2. NoAnswer.kind = "none" /\ Error("snapshot").kind = "error"
    BY DEF NoAnswer, Error
  <2> QED BY <2>1, <2>2 DEF Answered
<1>2. \A t \in SourceNames : Took(t) = {}
  BY DEF Init, Took, Behind, SourceNames
<1>3. ReadingOK /\ StoreOK(store) /\ BookOK(book)
  BY DEF Init, ReadingOK, StoreOK, BookOK, EmptyStore, Phases, SourceNames
<1>4. Lists
  BY DEF Init, Lists
<1>5. EvidenceRead
  BY <1>2 DEF Init, EvidenceRead, SourceNames, TaintedBy, EmptyStore, Accepted
<1>6. RecordsRead
  BY <1>2 DEF RecordsRead, SourceNames
<1>7. ShownInv
  BY DEF Init, ShownInv, PiecesRead, QueueRead, Range
<1> QED BY <1>1, <1>3, <1>4, <1>5, <1>6, <1>7, NoClaim DEF ConsoleInv, ReadInv, TypeInv

LEMMA LastClaim ==
  ASSUME ConsoleInv, Summarize
  PROVE  ConsoleInv'
<1>1. /\ pc = "summary" /\ pc' = "done"
      /\ UNCHANGED <<input, store, queue, due, timedOut, environments>>
      /\ \/ answer' = Snapshot
         \/ \E ids \in Asked : answer' = Resolved(ids, Snapshot.evidence)
         \/ ~Valid(Snapshot.evidence) /\ answer' = Error("snapshot")
  BY DEF Summarize, checked
<1>2. ReadInv /\ ShownInv
  BY <1>1 DEF ConsoleInv
<1>3. CASE answer' = Snapshot
  BY <1>1, <1>2, <1>3, RenderedAtTheEnd, HonestAtTheEnd DEF ConsoleInv
<1>4. CASE \E ids \in Asked : answer' = Resolved(ids, Snapshot.evidence)
  <2>1. PICK ids, evidence : answer' = Resolved(ids, evidence)
    BY <1>4
  <2>2. answer'.kind \in {"error", "evidence"} /\ answer' # Error("snapshot")
    <3>1. /\ Error("snapshot").kind = "error" /\ Error("snapshot").of = "snapshot"
          /\ \A of : Error(of).kind = "error" /\ Error(of).of = of
      BY DEF Error
    <3>2. \A i : Objection(ids, i, evidence) # "snapshot"
      BY DEF Objection
    <3>3. \/ \E of : of # "snapshot" /\ answer' = Error(of)
          \/ answer'.kind = "evidence"
      BY <2>1, <3>2 DEF Resolved
    <3> QED BY <3>1, <3>3
  <2>3. ~Answered'
    BY <2>2 DEF Answered
  <2> QED BY <1>1, <2>2, <2>3 DEF ConsoleInv, NoFalseHealthy, HealthyRecordsRender, Error
<1>5. CASE ~Valid(Snapshot.evidence) /\ answer' = Error("snapshot")
  <2>1. SayTheSame \/ Nameless \/ Namesakes
    BY <1>1, <1>2, <1>5, SnapshotSays, FailedFor
  <2>2. (SayTheSame \/ Nameless \/ Namesakes)'
    BY <1>1, <2>1, PiecesFixed DEF SayTheSame, Nameless
  <2>3. ~Answered'
    BY <1>5 DEF Answered, Error
  <2> QED BY <1>1, <2>2, <2>3 DEF ConsoleInv, NoFalseHealthy, HealthyRecordsRender
<1> QED BY <1>1, <1>3, <1>4, <1>5

LEMMA NextConsole == ConsoleInv /\ [Next]_vars => ConsoleInv'
<1> SUFFICES ASSUME ConsoleInv, [Next]_vars
             PROVE  ConsoleInv'
  OBVIOUS
<1>1. CASE Begin
  <2>1. ReadInv /\ ShownInv /\ answer = NoAnswer
    BY <1>1 DEF Begin, ConsoleInv
  <2>2. pc' # "done" => ReadInv' /\ ShownInv' /\ answer' = NoAnswer
    <3>1. pc' # "done" => ReadInv' /\ ShownInv'
      BY <1>1, <2>1, BeginStep, BeginShown
    <3> QED BY <1>1, <2>1, <3>1 DEF Begin
  <2>3. answer' = NoAnswer \/ answer' = Error("denied")
    BY <1>1, <2>1 DEF Begin
  <2>4. ~Answered' /\ answer' # Error("snapshot")
    <3>1. /\ NoAnswer.kind = "none" /\ Error("denied").kind = "error" /\ Error("snapshot").kind = "error"
          /\ Error("denied").of = "denied" /\ Error("snapshot").of = "snapshot"
      BY DEF NoAnswer, Error
    <3> QED BY <2>3, <3>1 DEF Answered
  <2> QED BY <2>2, <2>4 DEF ConsoleInv, NoFalseHealthy, HealthyRecordsRender, Error
<1>2. ASSUME ReadInv', ShownInv', answer' = answer, pc # "done"
      PROVE  ConsoleInv'
  <2>1. answer' = NoAnswer
    BY <1>2 DEF ConsoleInv
  <2>2. ~Answered' /\ answer' # Error("snapshot")
    <3>1. NoAnswer.kind = "none" /\ Error("snapshot").kind = "error"
      BY DEF NoAnswer, Error
    <3> QED BY <2>1, <3>1 DEF Answered
  <2> QED BY <1>2, <2>1, <2>2 DEF ConsoleInv, NoFalseHealthy, HealthyRecordsRender, Error
<1>3. CASE SiftEvidence
  <2>1. answer' = answer /\ pc = "evidence"
    BY <1>3 DEF SiftEvidence, Read, frame
  <2>2. ReadInv /\ ShownInv
    BY <2>1 DEF ConsoleInv
  <2> QED BY <1>2, <1>3, <2>1, <2>2, SiftStep, SiftShown
<1>4. CASE LoadStatus
  <2>1. answer' = answer /\ pc = "statuses"
    BY <1>4 DEF LoadStatus, Read, frame
  <2>2. ReadInv /\ ShownInv
    BY <2>1 DEF ConsoleInv
  <2> QED BY <1>2, <1>4, <2>1, <2>2, StatusStep, CloseShown
<1>5. CASE Loaded
  <2>1. answer' = answer /\ pc # "done"
    BY <1>5 DEF Loaded, Exhausted, frame
  <2>2. ReadInv /\ ShownInv
    BY <2>1 DEF ConsoleInv
  <2> QED BY <1>2, <1>5, <2>1, <2>2, LoadedStep, LoadedShown
<1>6. CASE ProjectAlert
  <2>1. answer' = answer /\ pc = "alerts"
    BY <1>6 DEF ProjectAlert, Read, frame
  <2>2. ReadInv /\ ShownInv
    BY <2>1 DEF ConsoleInv
  <2> QED BY <1>2, <1>6, <2>1, <2>2, AlertStep, AlertShown
<1>7. CASE ReadMetric
  <2>1. answer' = answer /\ pc = "metrics"
    BY <1>7 DEF ReadMetric, Read, frame
  <2>2. ReadInv /\ ShownInv
    BY <2>1 DEF ConsoleInv
  <2> QED BY <1>2, <1>7, <2>1, <2>2, MetricStep, MetricShown
<1>8. CASE ApplyRule
  <2>1. answer' = answer /\ pc = "rules"
    BY <1>8 DEF ApplyRule, Read, frame
  <2>2. ReadInv /\ ShownInv
    BY <2>1 DEF ConsoleInv
  <2> QED BY <1>2, <1>8, <2>1, <2>2, RuleStep, RuleShown
<1>9. CASE RunCheck
  <2>1. answer' = answer /\ pc = "checks"
    BY <1>9 DEF RunCheck, Read, frame
  <2>2. ReadInv /\ ShownInv
    BY <2>1 DEF ConsoleInv
  <2> QED BY <1>2, <1>9, <2>1, <2>2, CheckStep, CheckShown
<1>10. CASE ProjectChange
  <2>1. answer' = answer /\ pc = "changes"
    BY <1>10 DEF ProjectChange, Read, frame
  <2>2. ReadInv /\ ShownInv
    BY <2>1 DEF ConsoleInv
  <2> QED BY <1>2, <1>10, <2>1, <2>2, ChangeStep, ChangeShown
<1>11. CASE ProjectEnvironment
  <2>1. answer' = answer /\ pc = "environments"
    BY <1>11 DEF ProjectEnvironment, Read, frame
  <2>2. ReadInv /\ ShownInv
    BY <2>1 DEF ConsoleInv
  <2> QED BY <1>2, <1>11, <2>1, <2>2, EnvironmentStep, EnvironmentShown
<1>12. CASE CloseAlerts \/ CloseRules \/ CloseChecks \/ CloseChanges
  <2>1. answer' = answer /\ pc # "done"
    BY <1>12 DEF CloseAlerts, CloseRules, CloseChecks, CloseChanges, Exhausted, frame
  <2>2. ReadInv /\ ShownInv
    BY <2>1 DEF ConsoleInv
  <2> QED BY <1>2, <1>12, <2>1, <2>2, CloseSteps, CloseShown
<1>13. CASE CloseEnvironments
  <2>1. answer' = answer /\ pc = "environments"
    BY <1>13 DEF CloseEnvironments, Exhausted, frame
  <2>2. ReadInv /\ ShownInv
    BY <2>1 DEF ConsoleInv
  <2> QED BY <1>2, <1>13, <2>1, <2>2, EnvironmentsStep, CloseShown
<1>14. CASE Summarize
  BY <1>14, LastClaim
<1>15. CASE UNCHANGED vars
  <2>1. CASE pc # "done"
    <3>1. ReadInv' /\ ShownInv'
      <4>1. ReadInv /\ ShownInv
        BY <2>1 DEF ConsoleInv
      <4> QED BY <1>15, <4>1, ReadKept, ShownKept
    <3> QED BY <1>2, <1>15, <2>1, <3>1 DEF vars
  <2>2. CASE pc = "done"
    <3>1. NoFalseHealthy' /\ HealthyRecordsRender'
      BY <1>15, ClaimKept DEF ConsoleInv
    <3> QED BY <1>15, <2>2, <3>1 DEF ConsoleInv, vars
  <2> QED BY <2>1, <2>2
<1> QED BY <1>1, <1>3, <1>4, <1>5, <1>6, <1>7, <1>8, <1>9, <1>10, <1>11, <1>12, <1>13, <1>14, <1>15
        DEF Next

LEMMA ConsoleHolds == Spec => []ConsoleInv
BY InitConsole, NextConsole, PTL DEF Spec

(* The console answers healthy or degraded only when every record that was *)
(* read could be used and nothing it read is in doubt, for every input and *)
(* whatever command asked.                                                 *)
THEOREM DoubtIsShown == Spec => []NoFalseHealthy
<1>1. ConsoleInv => NoFalseHealthy
  BY DEF ConsoleInv
<1> QED BY <1>1, ConsoleHolds, PTL

(* For every input: a snapshot shows each record that is in order, and it  *)
(* fails as a whole only for two pieces that say the same, a piece with a  *)
(* blank identifier, or two active alerts under one item name.             *)
THEOREM FineRecordsRender == Spec => []HealthyRecordsRender
<1>1. ConsoleInv => HealthyRecordsRender
  BY DEF ConsoleInv
<1> QED BY <1>1, ConsoleHolds, PTL
=============================================================================
