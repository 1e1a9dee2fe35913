-------------------------- MODULE AiRequestsProofs --------------------------
(***************************************************************************)
(* What is proved of the AI commands, for any calls, requests, providers,  *)
(* models, orders and policy document.                                     *)
(*                                                                         *)
(*   OneRuns            at most one call of a request runs, and the token  *)
(*                      table holds a token exactly while one does         *)
(*   FailsOverPermitted a request reaches no provider twice, and a second  *)
(*                      one only as its caller and the failures permit     *)
(*   AuditIsKept        records are written once, and content is handed    *)
(*                      out only by the step that records it: AiRequests   *)
(*                      implements AiAudit                                 *)
(*   CountsAnswered     what a call may still produce is counted together  *)
(*                      with every answer given before it began            *)
(*                                                                         *)
(* A failover tries the configured order with some providers taken out,    *)
(* so the proofs start from what a filtered sequence holds; the window     *)
(* budget adds up the audit's attempts, so the last one needs what a sum   *)
(* over a finite set is.                                                   *)
(***************************************************************************)
EXTENDS AiRequests, SequenceTheorems, FiniteSetTheorems, WellFoundedInduction,
        TLAPS

-----------------------------------------------------------------------------
(* Filtered sequences. *)

Less == {p \in Nat \X Nat : p[1] < p[2]}

\* Every non-empty set of naturals has a least element.
LEMMA LeastNatural ==
    ASSUME NEW T, T \subseteq Nat, T # {}
    PROVE  \E n \in T : \A m \in T : n <= m
<1>1. Less = OpToRel(<, Nat)
  BY DEF Less, OpToRel
<1>2. IsWellFoundedOn(Less, Nat)
  BY <1>1, NatLessThanWellFounded
<1>3. PICK n \in T : \A m \in T : <<m, n>> \notin Less
  BY <1>2, WFMin
<1>4. ASSUME NEW m \in T PROVE n <= m
  <2>1. <<m, n>> \in Less <=> m < n
    BY DEF Less
  <2>2. ~(m < n)
    BY <1>3, <2>1
  <2>3. m \in Nat /\ n \in Nat
    OBVIOUS
  <2> QED BY <2>2, <2>3
<1> QED BY <1>4

\* A set of positions is finite.
LEMMA PositionsFinite ==
    ASSUME NEW N \in Nat, NEW I, I \subseteq 1 .. N
    PROVE  IsFiniteSet(I) /\ Cardinality(I) \in Nat
<1>1. IsFiniteSet(1 .. N)
  BY FS_Interval
<1>2. IsFiniteSet(I)
  BY <1>1, FS_Subset
<1> QED BY <1>2, FS_CardinalityType

\* The position of rank n is one of the set's, and its rank is n.
LEMMA NthHasRank ==
    ASSUME NEW N \in Nat, NEW I, I \subseteq 1 .. N, NEW n \in 1 .. Cardinality(I)
    PROVE  Nth(I, n) \in I /\ Rank(I, Nth(I, n)) = n
<1>1. IsFiniteSet(I) /\ Cardinality(I) \in Nat
  BY PositionsFinite
<1>2. \A j \in I : j \in Nat /\ 1 <= j /\ j <= N
  OBVIOUS
<1> DEFINE Below(m) == {j \in I : j <= m}
           T == {m \in Nat : Cardinality(Below(m)) >= n}
<1>3. ASSUME NEW m \in Nat
      PROVE  IsFiniteSet(Below(m)) /\ Cardinality(Below(m)) \in Nat
  <2>1. Below(m) \in SUBSET (1 .. N)
    OBVIOUS
  <2> HIDE DEF Below
  <2> QED BY <2>1, PositionsFinite
<1>4. Below(N) = I /\ Below(0) = {}
  <2>1. \A j \in I : j <= N /\ ~(j <= 0)
    BY <1>2
  <2> QED BY <2>1
<1>5. ASSUME NEW m \in Nat
      PROVE  /\ m + 1 \in I => /\ Below(m + 1) = Below(m) \cup {m + 1}
                               /\ m + 1 \notin Below(m)
             /\ m + 1 \notin I => Below(m + 1) = Below(m)
  <2>1. \A j \in I : j <= m + 1 <=> j <= m \/ j = m + 1
    BY <1>2
  <2>2. ~(m + 1 <= m)
    OBVIOUS
  <2> QED BY <2>1, <2>2
<1> HIDE DEF Below
<1>6. N \in T /\ n \in Nat /\ n > 0
  BY <1>1, <1>4
<1>7. PICK m \in T : \A k \in T : m <= k
  <2>1. T \subseteq Nat /\ T # {}
    BY <1>6
  <2> HIDE DEF T
  <2> QED BY <2>1, LeastNatural
<1>8. m \in Nat /\ Cardinality(Below(m)) >= n
  OBVIOUS
<1>9. m # 0
  BY <1>4, <1>6, <1>8, FS_EmptySet
<1>10. PICK l \in Nat : m = l + 1
  <2>1. m - 1 \in Nat /\ m = (m - 1) + 1
    BY <1>8, <1>9
  <2> QED BY <2>1
<1>11. ~(Cardinality(Below(l)) >= n)
  <2>1. ~(m <= l)
    BY <1>10
  <2> QED BY <1>7, <2>1
<1> HIDE DEF T
<1>12. m \in I
  BY <1>5, <1>8, <1>10, <1>11
<1>13. Cardinality(Below(m)) = Cardinality(Below(l)) + 1
  BY <1>3, <1>5, <1>10, <1>12, FS_AddElement
<1>14. Cardinality(Below(m)) = n
  BY <1>3, <1>6, <1>8, <1>10, <1>11, <1>13
<1>15. m \in I /\ Rank(I, m) = n
  BY <1>12, <1>14 DEF Rank, Below
<1> QED BY <1>15 DEF Nth

\* A filtered sequence takes its elements at different positions, all among
\* those it was filtered by.
LEMMA SubsequencePositions ==
    ASSUME NEW S, NEW s \in Seq(S), NEW I, I \subseteq DOMAIN s
    PROVE  /\ Subsequence(s, I) \in Seq(S)
           /\ \A n \in DOMAIN Subsequence(s, I) :
                 Nth(I, n) \in I /\ Subsequence(s, I)[n] = s[Nth(I, n)]
           /\ \A m, n \in DOMAIN Subsequence(s, I) :
                 Nth(I, m) = Nth(I, n) => m = n
<1>1. Len(s) \in Nat /\ I \subseteq 1 .. Len(s)
  OBVIOUS
<1>2. Cardinality(I) \in Nat
  BY <1>1, PositionsFinite
<1>3. \A n \in 1 .. Cardinality(I) : Nth(I, n) \in I /\ Rank(I, Nth(I, n)) = n
  BY <1>1, NthHasRank
<1>4. \A i \in I : s[i] \in S
  OBVIOUS
<1>5. Subsequence(s, I) \in [1 .. Cardinality(I) -> S]
  BY <1>3, <1>4 DEF Subsequence
<1> QED BY <1>2, <1>3, <1>5 DEF Subsequence

-----------------------------------------------------------------------------
(* What the gateway selects. *)

Descriptors == UNION {{Models[p][i] : i \in DOMAIN Models[p]} : p \in Providers}

Offers == [provider : Providers, model : Descriptors]

\* The first of some positions is one of them.
LEMMA FirstPosition ==
    ASSUME NEW T, T \subseteq Nat, T # {}
    PROVE  Min(T) \in T
<1>1. \E n \in T : \A m \in T : n <= m
  BY LeastNatural
<1> QED BY <1>1 DEF Min

LEMMA SelectionsTyped ==
    ASSUME NEW selector, NEW p \in Providers, Usable(p, selector)
    PROVE  /\ Selections(selector)[p] \in Offers
           /\ Selections(selector)[p].provider = p
<1>1. Matching(p, selector) \subseteq DOMAIN Models[p]
  BY DEF Matching
<1>2. DOMAIN Models[p] \subseteq Nat
  BY ModelsAssumption
<1> DEFINE first == Min(Matching(p, selector))
<1>3. first \in DOMAIN Models[p]
  BY <1>1, <1>2, FirstPosition DEF Usable
<1> HIDE DEF first
<1>4. Models[p][first] \in Descriptors
  BY <1>3 DEF Descriptors
<1>5. Selections(selector)[p] = [provider |-> p, model |-> Models[p][first]]
  BY DEF Selections, first
<1> QED BY <1>4, <1>5 DEF Offers

\* What the registry selects is a registered provider and a model of its.
LEMMA SelectTyped ==
    ASSUME NEW selector, Select(selector) # None
    PROVE  Select(selector) \in Offers
<1> DEFINE found == {i \in DOMAIN Declared :
                       /\ selector.kind = "explicit" =>
                             Declared[i] = selector.provider
                       /\ Usable(Declared[i], selector)}
<1>1. /\ found # {}
      /\ Select(selector) = Selections(selector)[Declared[Min(found)]]
  BY DEF Select
<1>2. found \subseteq Nat /\ found \subseteq DOMAIN Declared
  BY ProvidersAssumption
<1>3. Min(found) \in found
  <2> HIDE DEF found
  <2> QED BY <1>1, <1>2, FirstPosition
<1> DEFINE p == Declared[Min(found)]
<1>4. p \in Providers /\ Usable(p, selector)
  BY <1>3, ProvidersAssumption
<1> HIDE DEF p
<1> QED BY <1>1, <1>4, SelectionsTyped DEF p

\* Distinct selections: no provider is chosen twice.
Distinct(s) == \A m, n \in DOMAIN s : s[m].provider = s[n].provider => m = n

\* A request is offered to each provider once, the selected one first.
LEMMA CandidatesSound ==
    ASSUME NEW selector, Select(selector) # None
    PROVE  /\ Candidates(selector) \in Seq(Offers)
           /\ Candidates(selector) # <<>>
           /\ Distinct(Candidates(selector))
<1> DEFINE first == Select(selector)
           I == {i \in DOMAIN Order : /\ Order[i] # first.provider
                                      /\ Usable(Order[i], selector)}
           listed == Subsequence(Order, I)
           rest == [n \in DOMAIN listed |-> Selections(selector)[listed[n]]]
<1>1. first \in Offers
  BY SelectTyped
<1>2. /\ listed \in Seq(Providers)
      /\ \A n \in DOMAIN listed : /\ Nth(I, n) \in I
                                  /\ listed[n] = Order[Nth(I, n)]
      /\ \A m, n \in DOMAIN listed : Nth(I, m) = Nth(I, n) => m = n
  <2>1. I \subseteq DOMAIN Order
    OBVIOUS
  <2> HIDE DEF I
  <2> QED BY <2>1, SubsequencePositions, ProvidersAssumption
<1>3. \A i \in I : /\ i \in DOMAIN Order
                   /\ Order[i] \in Providers
                   /\ Order[i] # first.provider
                   /\ Usable(Order[i], selector)
  BY ProvidersAssumption
<1> HIDE DEF I, listed
<1>4. \A n \in DOMAIN listed : /\ rest[n] \in Offers
                               /\ rest[n].provider = listed[n]
                               /\ listed[n] # first.provider
  BY <1>2, <1>3, SelectionsTyped
<1>5. \A m, n \in DOMAIN listed : listed[m] = listed[n] => m = n
  BY <1>2, <1>3, ProvidersAssumption
<1>6. /\ Len(listed) \in Nat /\ DOMAIN listed = 1 .. Len(listed)
      /\ DOMAIN rest = 1 .. Len(listed)
  BY <1>2
<1>7. rest \in Seq(Offers) /\ Len(rest) = Len(listed)
  <2>1. rest \in [1 .. Len(listed) -> Offers]
    BY <1>4, <1>6
  <2> QED BY <1>6, <2>1
<1> HIDE DEF rest, first
<1>8. /\ <<first>> \o rest \in Seq(Offers)
      /\ Len(<<first>> \o rest) = 1 + Len(rest)
      /\ (<<first>> \o rest)[1] = first
      /\ \A n \in 2 .. 1 + Len(rest) : /\ (<<first>> \o rest)[n] = rest[n - 1]
                                       /\ n - 1 \in 1 .. Len(rest)
  BY <1>1, <1>7
<1>9. Candidates(selector) = <<first>> \o rest
  BY DEF Candidates, Attempted, first, I, listed, rest
<1>10. Distinct(<<first>> \o rest)
  <2> DEFINE all == <<first>> \o rest
  <2> SUFFICES ASSUME NEW m \in DOMAIN all, NEW n \in DOMAIN all,
                      all[m].provider = all[n].provider
               PROVE  m = n
    BY DEF Distinct
  <2>1. DOMAIN all = 1 .. 1 + Len(rest) /\ Len(rest) \in Nat
    BY <1>7, <1>8
  <2>2. \A k \in 2 .. 1 + Len(rest) :
           /\ k - 1 \in DOMAIN listed
           /\ all[k].provider = listed[k - 1]
           /\ all[k].provider # all[1].provider
    BY <1>4, <1>6, <1>7, <1>8
  <2>3. m = 1 \/ m \in 2 .. 1 + Len(rest)
    BY <2>1
  <2>4. n = 1 \/ n \in 2 .. 1 + Len(rest)
    BY <2>1
  <2>5. CASE m \in 2 .. 1 + Len(rest) /\ n \in 2 .. 1 + Len(rest)
    <3>1. m - 1 = n - 1
      BY <1>5, <2>2, <2>5
    <3> QED BY <2>5, <3>1
  <2> QED BY <2>2, <2>3, <2>4, <2>5
<1> QED BY <1>8, <1>9, <1>10

-----------------------------------------------------------------------------
(* What a call has tried, is trying and may still try.                     *)

Trying == {"check", "send", "call"}
Ended == {"unregister", "record"}

AnsweredBy(tried) == tried # <<>> /\ tried[Len(tried)].outcome = "answered"

\* A call that is at phase, serves request q, has the selections open left,
\* recorded the attempts tried, sent to the providers sent and ended with
\* code.  Every attempt but one under way is recorded; the earlier ones moved
\* on as the caller and the failure allow; the providers sent to and those
\* still open are all different, but for the one being called.
CallHolds(phase, q, open, tried, sent, code) ==
    /\ phase # "idle" => q \in Requests
    /\ \A m, n \in DOMAIN sent : sent[m] = sent[n] => m = n
    /\ Len(tried) <= Len(sent) /\ Len(sent) <= Len(tried) + 1
    /\ \A n \in DOMAIN tried : tried[n].provider = sent[n]
    /\ \A n \in 1 .. Len(sent) - 1 : tried[n].outcome \in FailoverReason
    /\ Len(sent) > 1 => q.failover
    /\ phase \in {"idle", "window", "enter"} => sent = <<>>
    /\ phase \in Trying => open # <<>> /\ Distinct(open)
    /\ phase \in {"check", "send"} =>
          /\ Len(sent) = Len(tried)
          /\ \A n \in DOMAIN tried : tried[n].outcome \in FailoverReason
          /\ sent # <<>> => q.failover
          /\ \A m \in DOMAIN open, n \in DOMAIN sent :
                open[m].provider # sent[n]
    /\ phase = "call" =>
          /\ Len(sent) = Len(tried) + 1
          /\ sent[Len(sent)] = open[1].provider
          /\ \A m \in 2 .. Len(open), n \in DOMAIN sent :
                open[m].provider # sent[n]
    /\ phase \in Ended =>
          /\ code \in Codes
          /\ code \in Finished => AnsweredBy(tried)

RequestInv ==
    /\ pc \in [Calls -> Phases]
    /\ req = [c \in Calls |-> req[c]]
    /\ queue \in [Calls -> Seq(Offers)]
    /\ attempts \in [Calls -> Seq(AttemptRecords)]
    /\ made \in [Calls -> Seq(Providers)]
    /\ result = [c \in Calls |-> result[c]]
    /\ reply = [c \in Calls |-> reply[c]]
    /\ audit \in [RequestIds -> AuditRecords \cup {None}]
    /\ \A c \in Calls : CallHolds(pc[c], req[c], queue[c], attempts[c],
                                  made[c], result[c])


\* A sequence with an element added, and one with its first element taken.
LEMMA Appended ==
    ASSUME NEW S, NEW s \in Seq(S), NEW x \in S
    PROVE  /\ Append(s, x) \in Seq(S) /\ Len(Append(s, x)) = Len(s) + 1
           /\ \A n \in DOMAIN s : Append(s, x)[n] = s[n]
           /\ Append(s, x)[Len(s) + 1] = x
           /\ DOMAIN Append(s, x) = DOMAIN s \cup {Len(s) + 1}
           /\ Len(s) \in Nat /\ DOMAIN s = 1 .. Len(s)
OBVIOUS

LEMMA Popped ==
    ASSUME NEW S, NEW s \in Seq(S), Len(s) > 1
    PROVE  /\ Tail(s) \in Seq(S) /\ Tail(s) # <<>>
           /\ \A m \in DOMAIN Tail(s) : /\ Tail(s)[m] = s[m + 1]
                                        /\ m + 1 \in 2 .. Len(s)
                                        /\ m + 1 \in DOMAIN s
                                        /\ m \in Nat
<1>1. /\ Tail(s) \in Seq(S) /\ Len(s) \in Nat /\ Len(Tail(s)) = Len(s) - 1
      /\ \A m \in 1 .. Len(s) - 1 : Tail(s)[m] = s[m + 1]
  BY HeadTailProperties
<1>2. /\ DOMAIN Tail(s) = 1 .. Len(s) - 1
      /\ DOMAIN s = 1 .. Len(s)
  BY <1>1
<1>3. Tail(s) # <<>>
  <2>1. Len(Tail(s)) # 0
    BY <1>1
  <2>2. Len(<<>>) = 0
    OBVIOUS
  <2> QED BY <2>1, <2>2, Zenon
<1> QED BY <1>1, <1>2, <1>3

LEMMA PhaseNames ==
    /\ Phases = {"idle", "window", "enter", "check", "send", "call",
                 "unregister", "record", "done"}
    /\ Trying \cap Ended = {}
    /\ {"idle", "window", "enter", "done"} \cap (Trying \cup Ended) = {}
BY DEF Trying, Ended, Phases, InFlight, InGateway

\* A step of one call.
LEMMA OneCall ==
    ASSUME RequestInv, NEW c \in Calls,
           NEW phase \in Phases, NEW open \in Seq(Offers),
           NEW tried \in Seq(AttemptRecords), NEW sent \in Seq(Providers),
           NEW code,
           pc' = [pc EXCEPT ![c] = phase], UNCHANGED <<audit, req, reply>>,
           queue' = [queue EXCEPT ![c] = open],
           attempts' = [attempts EXCEPT ![c] = tried],
           made' = [made EXCEPT ![c] = sent],
           result' = [result EXCEPT ![c] = code],
           CallHolds(phase, req[c], open, tried, sent, code)
    PROVE  RequestInv'
<1>1. \A d \in Calls :
         CallHolds(pc[d], req[d], queue[d], attempts[d], made[d], result[d])'
  <2> TAKE d \in Calls
  <2>1. CASE d = c
    <3>1. /\ pc'[d] = phase /\ req'[d] = req[c] /\ queue'[d] = open
          /\ attempts'[d] = tried /\ made'[d] = sent /\ result'[d] = code
      BY <2>1 DEF RequestInv
    <3> QED BY <3>1
  <2>2. CASE d # c
    <3>1. /\ pc'[d] = pc[d] /\ req'[d] = req[d] /\ queue'[d] = queue[d]
          /\ attempts'[d] = attempts[d] /\ made'[d] = made[d]
          /\ result'[d] = result[d]
      BY <2>2 DEF RequestInv
    <3> QED BY <3>1 DEF RequestInv
  <2> QED BY <2>1, <2>2
<1>2. /\ pc' \in [Calls -> Phases]
      /\ queue' \in [Calls -> Seq(Offers)]
      /\ attempts' \in [Calls -> Seq(AttemptRecords)]
      /\ made' \in [Calls -> Seq(Providers)]
      /\ result' = [d \in Calls |-> result'[d]]
  BY DEF RequestInv
<1> QED BY <1>1, <1>2 DEF RequestInv

\* Calls that answer.
LEMMA CallsAnswer ==
    ASSUME RequestInv, NEW D, D \subseteq Calls,
           pc' = [c \in Calls |-> IF c \in D THEN "done" ELSE pc[c]],
           queue' = [c \in Calls |-> IF c \in D THEN <<>> ELSE queue[c]],
           attempts' = [c \in Calls |-> IF c \in D THEN <<>> ELSE attempts[c]],
           made' = [c \in Calls |-> IF c \in D THEN <<>> ELSE made[c]],
           result' = [c \in Calls |-> IF c \in D THEN None ELSE result[c]],
           reply' = [c \in Calls |-> reply'[c]],
           req' = [c \in Calls |-> req'[c]],
           \A c \in D : req'[c] \in Requests,
           \A c \in Calls \ D : req'[c] = req[c],
           audit' \in [RequestIds -> AuditRecords \cup {None}]
    PROVE  RequestInv'
<1>1. \A c \in Calls :
         CallHolds(pc[c], req[c], queue[c], attempts[c], made[c], result[c])'
  <2> TAKE c \in Calls
  <2>1. CASE c \in D
    <3>1. /\ pc'[c] = "done" /\ req'[c] \in Requests /\ queue'[c] = <<>>
          /\ attempts'[c] = <<>> /\ made'[c] = <<>> /\ result'[c] = None
      BY <2>1
    <3>2. ASSUME NEW q \in Requests
          PROVE  CallHolds("done", q, <<>>, <<>>, <<>>, None)
      BY DEF CallHolds, Trying, Ended
    <3> QED BY <3>1, <3>2
  <2>2. CASE c \notin D
    <3>1. /\ pc'[c] = pc[c] /\ req'[c] = req[c] /\ queue'[c] = queue[c]
          /\ attempts'[c] = attempts[c] /\ made'[c] = made[c]
          /\ result'[c] = result[c]
      BY <2>2
    <3> QED BY <3>1 DEF RequestInv
  <2> QED BY <2>1, <2>2
<1>2. /\ pc' \in [Calls -> Phases]
      /\ queue' \in [Calls -> Seq(Offers)]
      /\ attempts' \in [Calls -> Seq(AttemptRecords)]
      /\ made' \in [Calls -> Seq(Providers)]
      /\ result' = [d \in Calls |-> result'[d]]
  BY PhaseNames DEF RequestInv
<1> QED BY <1>1, <1>2 DEF RequestInv

LEMMA CallAnswers ==
    ASSUME RequestInv, NEW c \in Calls, NEW code, Answer(c, code),
           req' = [d \in Calls |-> req'[d]], req'[c] \in Requests,
           \A d \in Calls \ {c} : req'[d] = req[d],
           audit' \in [RequestIds -> AuditRecords \cup {None}]
    PROVE  RequestInv'
<1> DEFINE D == {c}
<1>1. /\ D \subseteq Calls
      /\ pc' = [d \in Calls |-> IF d \in D THEN "done" ELSE pc[d]]
      /\ queue' = [d \in Calls |-> IF d \in D THEN <<>> ELSE queue[d]]
      /\ attempts' = [d \in Calls |-> IF d \in D THEN <<>> ELSE attempts[d]]
      /\ made' = [d \in Calls |-> IF d \in D THEN <<>> ELSE made[d]]
      /\ result' = [d \in Calls |-> IF d \in D THEN None ELSE result[d]]
  BY DEF Answer, AnswerAll
<1>2. reply' = [d \in Calls |-> reply'[d]]
  BY DEF Answer, AnswerAll
<1>3. (\A d \in D : req'[d] \in Requests) /\ \A d \in Calls \ D : req'[d] = req[d]
  OBVIOUS
<1> HIDE DEF D
<1> QED BY <1>1, <1>2, <1>3, CallsAnswer

\* What Gateway::complete returns before a provider answered.
LEMMA FailureHolds ==
    ASSUME NEW phase \in Phases \ {"idle"}, NEW q, NEW open, NEW tried,
           NEW sent, NEW old, NEW code \in Codes \ Finished,
           CallHolds(phase, q, open, tried, sent, old)
    PROVE  CallHolds("unregister", q, open, tried, sent, code)
BY PhaseNames DEF CallHolds, Trying, Ended

LEMMA CodeNames ==
    /\ {"ai_provider_selection_failed", "ai_audit_store_failed",
        "ai_request_cancelled", "ai_deadline_exceeded", "model_request_invalid",
        "policy_denied"} \subseteq Codes \ Finished
    /\ Bounds \subseteq Codes \ Finished
    /\ ProviderErrorReason \ {"cancelled"} \subseteq Codes \ Finished
    /\ Finished \subseteq Codes
    /\ "lost" \notin Codes
    /\ "lost" # "permission_denied" /\ "lost" # "ai_request_in_flight"
    /\ {"permission_denied", "ai_request_in_flight"} \cap Finished = {}
BY DEF Codes, Bounds, ProviderErrorReason, Finished

\* A call under way returns with an error.
LEMMA CallFails ==
    ASSUME RequestInv, NEW c \in Calls, pc[c] \in Phases \ {"idle"},
           NEW code \in Codes \ Finished, Return(c, code),
           UNCHANGED <<audit, req, reply, queue, attempts, made>>
    PROVE  RequestInv'
<1>1. CallHolds("unregister", req[c], queue[c], attempts[c], made[c], code)
  BY FailureHolds DEF RequestInv
<1>2. /\ queue' = [queue EXCEPT ![c] = queue[c]]
      /\ attempts' = [attempts EXCEPT ![c] = attempts[c]]
      /\ made' = [made EXCEPT ![c] = made[c]]
  BY DEF RequestInv
<1>3. /\ queue[c] \in Seq(Offers) /\ attempts[c] \in Seq(AttemptRecords)
      /\ made[c] \in Seq(Providers)
  BY DEF RequestInv
<1>4. "unregister" \in Phases
  BY PhaseNames DEF Ended
<1> QED BY <1>1, <1>2, <1>3, <1>4, OneCall DEF Return, Goto

\* A call under way moves on with what it has.
LEMMA CallMoves ==
    ASSUME RequestInv, NEW c \in Calls, NEW phase \in Phases, Goto(c, phase),
           UNCHANGED <<audit, req, reply, queue, attempts, made, result>>,
           CallHolds(phase, req[c], queue[c], attempts[c], made[c], result[c])
    PROVE  RequestInv'
<1>1. /\ pc' \in [Calls -> Phases]
      /\ \A d \in Calls : pc'[d] = IF d = c THEN phase ELSE pc[d]
  BY DEF Goto, RequestInv
<1>2. \A d \in Calls :
         CallHolds(pc'[d], req[d], queue[d], attempts[d], made[d], result[d])
  BY <1>1 DEF RequestInv
<1> QED BY <1>1, <1>2 DEF RequestInv

\* What refuses a request over budget is one of the bounds.
LEMMA RefusalTyped ==
    ASSUME NEW q, NEW m, NEW w
    PROVE  Refusal(q, m, w) \in Bounds \cup {None}
<1> DEFINE checks == BudgetChecks(q, m, w)
           failed == {i \in DOMAIN checks : checks[i][2]}
<1>1. /\ DOMAIN checks = 1 .. 8
      /\ \A i \in 1 .. 8 : checks[i][1] \in Bounds
  BY DEF BudgetChecks, Bounds
<1>2. failed \subseteq 1 .. 8
  BY <1>1
<1> HIDE DEF failed
<1>3. failed # {} => Min(failed) \in 1 .. 8
  <2>1. failed \subseteq Nat
    BY <1>2
  <2>2. failed # {} => Min(failed) \in failed
    BY <2>1, FirstPosition
  <2> QED BY <1>2, <2>2
<1> QED BY <1>1, <1>3 DEF Refusal, failed

LEMMA StateCodes ==
    ASSUME NEW c
    PROVE  RequestState(c) # None => RequestState(c) \in Codes \ Finished
BY CodeNames DEF RequestState

LEMMA EnterHolds ==
    ASSUME RequestInv, NEW c \in Calls, Enter(c)
    PROVE  RequestInv'
<1> DEFINE q == req[c]
           refusal == IF ~ValidRequest(q) THEN "model_request_invalid"
                      ELSE IF RequestState(c) # None THEN RequestState(c)
                      ELSE IF Select(q.model) = None
                      THEN "ai_provider_selection_failed" ELSE None
<1>1. /\ pc[c] = "enter"
      /\ UNCHANGED <<audit, req, reply, attempts, made>>
      /\ IF refusal # None
         THEN Return(c, refusal) /\ UNCHANGED queue
         ELSE /\ queue' = [queue EXCEPT ![c] = Candidates(q.model)]
              /\ Goto(c, "check")
              /\ UNCHANGED result
  BY DEF Enter, shared
<1>2. refusal # None => refusal \in Codes \ Finished
  BY StateCodes, CodeNames
<1>3. CASE refusal # None
  <2> HIDE DEF refusal
  <2> QED BY <1>1, <1>2, <1>3, PhaseNames, CallFails
<1>4. CASE refusal = None
  <2>1. Select(q.model) # None
    BY <1>4, NoneAssumption, CodeNames
  <2> HIDE DEF refusal
  <2> DEFINE open == Candidates(q.model)
  <2>2. open \in Seq(Offers) /\ open # <<>> /\ Distinct(open)
    BY <2>1, CandidatesSound
  <2> HIDE DEF open
  <2>3. /\ attempts' = [attempts EXCEPT ![c] = attempts[c]]
        /\ made' = [made EXCEPT ![c] = made[c]]
        /\ result' = [result EXCEPT ![c] = result[c]]
        /\ attempts[c] \in Seq(AttemptRecords) /\ made[c] \in Seq(Providers)
    BY <1>1, <1>4 DEF RequestInv
  <2>4. CallHolds("enter", q, queue[c], attempts[c], made[c], result[c])
    BY <1>1 DEF RequestInv
  <2>5. CallHolds("check", q, open, attempts[c], made[c], result[c])
    <3>1. made[c] = <<>> /\ Len(attempts[c]) = 0
      BY <2>3, <2>4 DEF CallHolds
    <3>2. DOMAIN attempts[c] = {} /\ DOMAIN made[c] = {}
      BY <2>3, <3>1
    <3> QED BY <2>2, <2>4, <3>1, <3>2, PhaseNames DEF CallHolds, Trying, Ended
  <2>6. /\ queue' = [queue EXCEPT ![c] = open]
        /\ pc' = [pc EXCEPT ![c] = "check"]
    BY <1>1, <1>4 DEF open, Goto
  <2>7. "check" \in Phases
    BY PhaseNames DEF Trying
  <2> QED BY <1>1, <2>2, <2>3, <2>5, <2>6, <2>7, OneCall
<1> QED BY <1>3, <1>4

LEMMA SendHolds ==
    ASSUME RequestInv, NEW c \in Calls, Send(c)
    PROVE  RequestInv'
<1> DEFINE s == Head(queue[c])
           bound == Refusal(req[c], s.model, used[c])
<1>1. /\ pc[c] = "send"
      /\ UNCHANGED <<audit, req, reply, queue, attempts>>
  BY DEF Send, shared
<1>2. CASE Return(c, "policy_denied") /\ UNCHANGED made
  BY <1>1, <1>2, PhaseNames, CodeNames, CallFails
<1>3. CASE bound # None /\ Return(c, bound) /\ UNCHANGED made
  <2>1. bound \in Codes \ Finished
    BY <1>3, RefusalTyped, CodeNames
  <2> HIDE DEF bound
  <2> QED BY <1>1, <1>3, <2>1, PhaseNames, CallFails
<1>4. CASE /\ made' = [made EXCEPT ![c] = Append(@, s.provider)]
           /\ Goto(c, "call")
           /\ UNCHANGED result
  <2> DEFINE open == queue[c]
             tried == attempts[c]
             sent == made[c]
             new == Append(sent, s.provider)
  <2>1. /\ open \in Seq(Offers) /\ tried \in Seq(AttemptRecords)
        /\ sent \in Seq(Providers)
        /\ CallHolds("send", req[c], open, tried, sent, result[c])
    BY <1>1 DEF RequestInv
  <2>2. open # <<>> /\ s = open[1] /\ s.provider \in Providers
    <3>1. open # <<>>
      BY <2>1 DEF CallHolds, Trying
    <3>2. s = open[1] /\ open[1] \in Offers
      BY <2>1, <3>1
    <3> QED BY <3>1, <3>2 DEF Offers
  <2>3. /\ new \in Seq(Providers) /\ Len(new) = Len(sent) + 1
        /\ \A n \in DOMAIN sent : new[n] = sent[n]
        /\ new[Len(sent) + 1] = open[1].provider
        /\ DOMAIN new = DOMAIN sent \cup {Len(sent) + 1}
        /\ Len(sent) \in Nat /\ DOMAIN sent = 1 .. Len(sent)
    BY <2>1, <2>2
  <2>4. Len(open) \in Nat /\ DOMAIN open = 1 .. Len(open) /\ Len(open) > 0
    BY <2>1, <2>2
  <2> HIDE DEF s, new
  <2>5. /\ \A m, n \in DOMAIN sent : sent[m] = sent[n] => m = n
        /\ Len(sent) = Len(tried)
        /\ \A n \in DOMAIN tried : /\ tried[n].provider = sent[n]
                                   /\ tried[n].outcome \in FailoverReason
        /\ sent # <<>> => req[c].failover
        /\ \A m \in DOMAIN open, n \in DOMAIN sent : open[m].provider # sent[n]
        /\ Distinct(open)
        /\ req[c] \in Requests
    BY <2>1 DEF CallHolds, Trying
  <2>6. DOMAIN tried = DOMAIN sent
    BY <2>1, <2>5
  <2>7. \A m, n \in DOMAIN new : new[m] = new[n] => m = n
    BY <2>3, <2>4, <2>5
  <2>8. \A m \in 2 .. Len(open), n \in DOMAIN new : open[m].provider # new[n]
    <3>1. \A m \in 2 .. Len(open) : /\ m \in DOMAIN open
                                    /\ open[m].provider # open[1].provider
      BY <2>4, <2>5 DEF Distinct
    <3> QED BY <2>3, <2>5, <3>1
  <2>9. CallHolds("call", req[c], open, tried, new, result[c])
    <3>1. /\ \A n \in DOMAIN tried : tried[n].provider = new[n]
          /\ \A n \in 1 .. Len(new) - 1 : tried[n].outcome \in FailoverReason
      BY <2>3, <2>5, <2>6
    <3>2. /\ Len(tried) <= Len(new) /\ Len(new) <= Len(tried) + 1
          /\ Len(new) = Len(tried) + 1
          /\ new[Len(new)] = open[1].provider
      BY <2>3, <2>5
    <3>3. Len(new) > 1 => req[c].failover
      BY <2>3, <2>5
    <3>4. "call" \notin Ended /\ "call" \notin {"idle", "window", "enter"}
                              /\ "call" \notin {"check", "send"}
      BY DEF Ended
    <3> HIDE DEF open, tried, sent
    <3> QED BY <2>2, <2>5, <2>7, <2>8, <3>1, <3>2, <3>3, <3>4 DEF CallHolds
  <2>10. /\ pc' = [pc EXCEPT ![c] = "call"]
         /\ made' = [made EXCEPT ![c] = new]
         /\ queue' = [queue EXCEPT ![c] = open]
         /\ attempts' = [attempts EXCEPT ![c] = tried]
         /\ result' = [result EXCEPT ![c] = result[c]]
    BY <1>1, <1>4 DEF Goto, RequestInv, new
  <2>11. "call" \in Phases
    BY PhaseNames DEF Trying
  <2> QED BY <1>1, <2>1, <2>3, <2>9, <2>10, <2>11, OneCall
<1> QED BY <1>2, <1>3, <1>4 DEF Send

LEMMA ReplyAnswerHolds ==
    ASSUME RequestInv, NEW c \in Calls, NEW usage \in Usages,
           ReplyAnswer(c, usage)
    PROVE  RequestInv'
<1> DEFINE open == queue[c]
           tried == attempts[c]
           sent == made[c]
           attempt == [provider |-> Head(queue[c]).provider,
                       outcome |-> "answered", usage |-> usage]
           new == Append(tried, attempt)
<1>1. /\ pc[c] = "call"
      /\ UNCHANGED <<audit, req, reply, queue, made>>
      /\ attempts' = [attempts EXCEPT ![c] = new]
  BY DEF ReplyAnswer, shared, Attempt
<1>2. PICK code \in Finished : Return(c, code)
  BY DEF ReplyAnswer, Finished
<1>3. /\ open \in Seq(Offers) /\ tried \in Seq(AttemptRecords)
      /\ sent \in Seq(Providers)
      /\ CallHolds("call", req[c], open, tried, sent, result[c])
  BY <1>1 DEF RequestInv
<1>4. open # <<>> /\ Len(sent) = Len(tried) + 1
                  /\ sent[Len(sent)] = open[1].provider
  BY <1>3 DEF CallHolds, Trying
<1>5. attempt.provider = open[1].provider /\ attempt \in AttemptRecords
  <2>1. Head(open) = open[1] /\ open[1] \in Offers
    BY <1>3, <1>4
  <2> QED BY <2>1, UsagesAssumption DEF Offers, AttemptRecords
<1>6. /\ new \in Seq(AttemptRecords) /\ Len(new) = Len(tried) + 1
      /\ \A n \in DOMAIN tried : new[n] = tried[n]
      /\ new[Len(tried) + 1] = attempt
      /\ DOMAIN new = DOMAIN tried \cup {Len(tried) + 1}
      /\ Len(tried) \in Nat /\ DOMAIN tried = 1 .. Len(tried)
  BY <1>3, <1>5, Appended
<1>7. attempt.outcome = "answered"
  OBVIOUS
<1> HIDE DEF open, tried, sent, attempt, new
<1>8. AnsweredBy(new)
  BY <1>6, <1>7 DEF AnsweredBy
<1>9. CallHolds("unregister", req[c], open, new, sent, code)
  <2>1. /\ \A n \in DOMAIN new : new[n].provider = sent[n]
        /\ \A n \in 1 .. Len(sent) - 1 : new[n].outcome \in FailoverReason
        /\ Len(new) <= Len(sent) /\ Len(sent) <= Len(new) + 1
    <3>1. /\ \A n \in DOMAIN tried : tried[n].provider = sent[n]
          /\ \A n \in 1 .. Len(sent) - 1 : tried[n].outcome \in FailoverReason
      BY <1>3 DEF CallHolds
    <3>2. Len(sent) = Len(new) /\ 1 .. Len(sent) - 1 = DOMAIN tried
      BY <1>4, <1>6
    <3> QED BY <1>4, <1>5, <1>6, <3>1, <3>2
  <2>2. "unregister" \notin Trying
    BY DEF Trying
  <2> QED BY <1>2, <1>3, <1>8, <2>1, <2>2, CodeNames DEF CallHolds, Trying
<1>10. /\ queue' = [queue EXCEPT ![c] = open]
       /\ made' = [made EXCEPT ![c] = sent]
  BY <1>1 DEF RequestInv, open, sent
<1> QED BY <1>1, <1>2, <1>3, <1>6, <1>9, <1>10, PhaseNames, OneCall
        DEF Return, Goto

\* What a call reports of a failure its failover cannot mend.
FailureCode(reason) ==
    CASE reason = "deadline_exceeded" -> "ai_deadline_exceeded"
      [] reason = "cancelled" -> "ai_request_cancelled"
      [] OTHER -> reason

LEMMA ReplyErrorHolds ==
    ASSUME RequestInv, NEW c \in Calls, NEW reason \in Errors,
           ReplyError(c, reason)
    PROVE  RequestInv'
<1> DEFINE open == queue[c]
           tried == attempts[c]
           sent == made[c]
           attempt == [provider |-> Head(queue[c]).provider,
                       outcome |-> reason, usage |-> None]
           new == Append(tried, attempt)
<1>1. /\ pc[c] = "call"
      /\ UNCHANGED <<audit, req, reply, made>>
      /\ attempts' = [attempts EXCEPT ![c] = new]
  BY DEF ReplyError, shared, Attempt
<1>2. /\ open \in Seq(Offers) /\ tried \in Seq(AttemptRecords)
      /\ sent \in Seq(Providers)
      /\ CallHolds("call", req[c], open, tried, sent, result[c])
  BY <1>1 DEF RequestInv
<1>3. open # <<>> /\ Distinct(open) /\ Len(sent) = Len(tried) + 1
                  /\ sent[Len(sent)] = open[1].provider
  BY <1>2 DEF CallHolds, Trying
<1>4. attempt.provider = open[1].provider /\ attempt \in AttemptRecords
  <2>1. Head(open) = open[1] /\ open[1] \in Offers
    BY <1>2, <1>3
  <2> QED BY <2>1, ErrorsAssumption DEF Offers, AttemptRecords
<1>5. /\ new \in Seq(AttemptRecords) /\ Len(new) = Len(tried) + 1
      /\ \A n \in DOMAIN tried : new[n] = tried[n]
      /\ new[Len(tried) + 1] = attempt
      /\ DOMAIN new = DOMAIN tried \cup {Len(tried) + 1}
      /\ Len(tried) \in Nat /\ DOMAIN tried = 1 .. Len(tried)
  BY <1>2, <1>4, Appended
<1>6. attempt.outcome = reason
  OBVIOUS
<1>7. made' = [made EXCEPT ![c] = sent]
  BY <1>1 DEF RequestInv
<1> HIDE DEF attempt, new
<1>8. /\ \A n \in DOMAIN new : new[n].provider = sent[n]
      /\ \A n \in 1 .. Len(sent) - 1 : new[n].outcome \in FailoverReason
      /\ Len(new) = Len(sent) /\ Len(sent) <= Len(new) + 1
  <2>1. /\ \A n \in DOMAIN tried : tried[n].provider = sent[n]
        /\ \A n \in 1 .. Len(sent) - 1 : tried[n].outcome \in FailoverReason
    BY <1>2 DEF CallHolds
  <2>2. Len(sent) = Len(new) /\ 1 .. Len(sent) - 1 = DOMAIN tried
    BY <1>3, <1>5
  <2> HIDE DEF open, tried, sent
  <2> QED BY <1>3, <1>4, <1>5, <2>1, <2>2
<1>9. CASE MayFailOver(c, reason)
  <2> DEFINE rest == Tail(open)
  <2>1. /\ req[c].failover /\ reason \in FailoverReason /\ Len(open) > 1
    BY <1>9 DEF MayFailOver
  <2>2. /\ rest \in Seq(Offers) /\ rest # <<>>
        /\ \A m \in DOMAIN rest : /\ rest[m] = open[m + 1]
                                  /\ m + 1 \in 2 .. Len(open)
                                  /\ m + 1 \in DOMAIN open
                                  /\ m \in Nat
    BY <1>2, <2>1, Popped
  <2>3. /\ queue' = [queue EXCEPT ![c] = rest]
        /\ pc' = [pc EXCEPT ![c] = "check"]
        /\ result' = [result EXCEPT ![c] = result[c]]
    BY <1>9 DEF ReplyError, Goto, RequestInv
  <2> HIDE DEF rest
  <2>4. Distinct(rest)
    <3> SUFFICES ASSUME NEW m \in DOMAIN rest, NEW n \in DOMAIN rest,
                        rest[m].provider = rest[n].provider
                 PROVE  m = n
      BY DEF Distinct
    <3>1. m + 1 = n + 1
      BY <1>3, <2>2 DEF Distinct
    <3>2. m \in Nat /\ n \in Nat
      BY <2>2
    <3> QED BY <3>1, <3>2
  <2>5. \A m \in DOMAIN rest, n \in DOMAIN sent : rest[m].provider # sent[n]
    <3>1. \A m \in 2 .. Len(open), n \in DOMAIN sent : open[m].provider # sent[n]
      BY <1>2 DEF CallHolds
    <3> HIDE DEF open, sent
    <3> QED BY <2>2, <3>1
  <2>6. \A n \in DOMAIN new : new[n].outcome \in FailoverReason
    BY <1>3, <1>5, <1>6, <1>8, <2>1
  <2>7. CallHolds("check", req[c], rest, new, sent, result[c])
    <3>1. "check" \in Trying /\ "check" \notin Ended
      BY DEF Trying, Ended
    <3>2. Len(new) <= Len(sent) /\ Len(sent) \in Nat
      BY <1>3, <1>5, <1>8
    <3>3. /\ req[c] \in Requests
          /\ \A m, n \in DOMAIN sent : sent[m] = sent[n] => m = n
      BY <1>2 DEF CallHolds
    <3> HIDE DEF open, tried, sent
    <3> QED BY <1>8, <2>1, <2>2, <2>4, <2>5, <2>6, <3>1, <3>2, <3>3
            DEF CallHolds
  <2> QED BY <1>1, <1>2, <1>5, <1>7, <2>2, <2>3, <2>7, PhaseNames, OneCall
<1>10. CASE ~MayFailOver(c, reason)
  <2> DEFINE code == FailureCode(reason)
  <2>1. Return(c, code) /\ UNCHANGED queue
    BY <1>10 DEF ReplyError, FailureCode
  <2>2. code \in Codes \ Finished
    BY ErrorsAssumption, CodeNames DEF FailureCode
  <2> HIDE DEF code
  <2>3. CallHolds("unregister", req[c], open, new, sent, code)
    <3>1. Len(new) <= Len(sent)
      BY <1>3, <1>5, <1>8
    <3>2. "unregister" \notin Trying
      BY DEF Trying
    <3>3. /\ req[c] \in Requests
          /\ \A m, n \in DOMAIN sent : sent[m] = sent[n] => m = n
          /\ Len(sent) > 1 => req[c].failover
      BY <1>2 DEF CallHolds
    <3> HIDE DEF open, tried, sent
    <3> QED BY <1>8, <2>2, <3>1, <3>2, <3>3 DEF CallHolds, Trying
  <2>4. queue' = [queue EXCEPT ![c] = open]
    BY <2>1 DEF RequestInv
  <2> QED BY <1>1, <1>2, <1>5, <1>7, <2>1, <2>3, <2>4, PhaseNames, OneCall
          DEF Return, Goto
<1> QED BY <1>9, <1>10

LEMMA CheckHolds ==
    ASSUME RequestInv, NEW c \in Calls, Check(c)
    PROVE  RequestInv'
<1>1. /\ pc[c] = "check"
      /\ UNCHANGED <<audit, req, reply, queue, attempts, made>>
  BY DEF Check, shared
<1>2. CASE RequestState(c) # None /\ Return(c, RequestState(c))
  BY <1>1, <1>2, StateCodes, PhaseNames, CallFails
<1>3. CASE Goto(c, "send") /\ UNCHANGED result
  <2>1. CallHolds("check", req[c], queue[c], attempts[c], made[c], result[c])
    BY <1>1 DEF RequestInv
  <2>2. CallHolds("send", req[c], queue[c], attempts[c], made[c], result[c])
    BY <2>1 DEF CallHolds, Trying, Ended
  <2> QED BY <1>1, <1>3, <2>2, PhaseNames, CallMoves
<1> QED BY <1>2, <1>3 DEF Check

LEMMA ReadWindowHolds ==
    ASSUME RequestInv, NEW c \in Calls, ReadWindow(c)
    PROVE  RequestInv'
<1>1. /\ pc[c] = "window"
      /\ UNCHANGED <<audit, req, reply, queue, attempts, made>>
  BY DEF ReadWindow, shared
<1>2. CASE \E code \in {"ai_provider_selection_failed", "ai_audit_store_failed"} :
              Return(c, code)
  BY <1>1, <1>2, CodeNames, PhaseNames, CallFails
<1>3. CASE Goto(c, "enter") /\ UNCHANGED result
  <2>1. CallHolds("window", req[c], queue[c], attempts[c], made[c], result[c])
    BY <1>1 DEF RequestInv
  <2>2. CallHolds("enter", req[c], queue[c], attempts[c], made[c], result[c])
    BY <2>1 DEF CallHolds, Trying, Ended
  <2> QED BY <1>1, <1>3, <2>2, PhaseNames, CallMoves
<1> QED BY <1>2, <1>3 DEF ReadWindow

LEMMA CompleteHolds ==
    ASSUME RequestInv, NEW c \in Calls, NEW q \in Requests, Complete(c, q)
    PROVE  RequestInv'
<1>1. /\ pc[c] = "idle" /\ req' = [req EXCEPT ![c] = q] /\ audit' = audit
  BY DEF Complete
<1>2. CASE \E code : Answer(c, code)
  <2>1. /\ req' = [d \in Calls |-> req'[d]] /\ req'[c] \in Requests
        /\ \A d \in Calls \ {c} : req'[d] = req[d]
        /\ audit' \in [RequestIds -> AuditRecords \cup {None}]
    BY <1>1 DEF RequestInv
  <2> QED BY <1>2, <2>1, CallAnswers
<1>3. CASE /\ Goto(c, "window")
           /\ UNCHANGED <<queue, attempts, result, reply, made>>
  <2>1. CallHolds("idle", req[c], queue[c], attempts[c], made[c], result[c])
    BY <1>1 DEF RequestInv
  <2>2. CallHolds("window", q, queue[c], attempts[c], made[c], result[c])
    <3>1. made[c] = <<>>
      BY <2>1 DEF CallHolds
    <3>2. Len(made[c]) = 0
      BY <3>1
    <3> QED BY <2>1, <3>1, <3>2 DEF CallHolds, Trying, Ended
  <2>3. /\ pc' \in [Calls -> Phases]
        /\ req' = [d \in Calls |-> req'[d]]
        /\ \A d \in Calls : /\ pc'[d] = IF d = c THEN "window" ELSE pc[d]
                            /\ req'[d] = IF d = c THEN q ELSE req[d]
    BY <1>1, <1>3, PhaseNames DEF Goto, RequestInv
  <2>4. \A d \in Calls : CallHolds(pc'[d], req'[d], queue[d], attempts[d],
                                   made[d], result[d])
    BY <2>2, <2>3 DEF RequestInv
  <2> QED BY <1>1, <1>3, <2>3, <2>4 DEF RequestInv
<1> QED BY <1>2, <1>3 DEF Complete

LEMMA UnregisterHolds ==
    ASSUME RequestInv, NEW c \in Calls, Unregister(c)
    PROVE  RequestInv'
<1>1. pc[c] = "unregister" /\ UNCHANGED <<audit, req>>
  BY DEF Unregister
<1>2. CallHolds("unregister", req[c], queue[c], attempts[c], made[c], result[c])
  BY <1>1 DEF RequestInv
<1>3. CASE \E code : Answer(c, code)
  <2>1. req[c] \in Requests
    BY <1>2 DEF CallHolds
  <2>2. /\ req' = [d \in Calls |-> req'[d]] /\ req'[c] \in Requests
        /\ \A d \in Calls \ {c} : req'[d] = req[d]
        /\ audit' \in [RequestIds -> AuditRecords \cup {None}]
    BY <1>1, <2>1 DEF RequestInv
  <2> QED BY <1>3, <2>2, CallAnswers
<1>4. CASE /\ Goto(c, "record")
           /\ UNCHANGED <<queue, attempts, result, reply, made>>
  <2>1. CallHolds("record", req[c], queue[c], attempts[c], made[c], result[c])
    BY <1>2 DEF CallHolds, Trying, Ended
  <2> QED BY <1>1, <1>4, <2>1, PhaseNames, CallMoves
<1> QED BY <1>3, <1>4 DEF Unregister

LEMMA RecordHolds ==
    ASSUME RequestInv, NEW c \in Calls, Record(c)
    PROVE  RequestInv'
<1>1. pc[c] = "record" /\ req' = req /\ (\E code : Answer(c, code))
  BY DEF Record
<1>2. CallHolds("record", req[c], queue[c], attempts[c], made[c], result[c])
  BY <1>1 DEF RequestInv
<1>3. req[c] \in Requests /\ result[c] \in Codes
  BY <1>2 DEF CallHolds, Ended
<1>4. req[c].id \in RequestIds
  BY <1>3, RequestsAssumption
<1>5. [result |-> result[c], attempts |-> attempts[c]] \in AuditRecords
  BY <1>3 DEF AuditRecords, RequestInv
<1>6. audit' \in [RequestIds -> AuditRecords \cup {None}]
  <2> DEFINE record == [result |-> result[c], attempts |-> attempts[c]]
  <2>1. audit' = audit \/ audit' = [audit EXCEPT ![req[c].id] = record]
    BY DEF Record
  <2>2. audit \in [RequestIds -> AuditRecords \cup {None}]
    BY DEF RequestInv
  <2> HIDE DEF record
  <2>3. record \in AuditRecords
    BY <1>5 DEF record
  <2> QED BY <1>4, <2>1, <2>2, <2>3
<1>7. /\ req' = [d \in Calls |-> req'[d]] /\ req'[c] \in Requests
      /\ \A d \in Calls \ {c} : req'[d] = req[d]
  BY <1>1, <1>3 DEF RequestInv
<1> QED BY <1>1, <1>6, <1>7, CallAnswers

LEMMA RequestStep == RequestInv /\ [Next]_vars => RequestInv'
<1> SUFFICES ASSUME RequestInv, [Next]_vars PROVE RequestInv'
  OBVIOUS
<1>1. ASSUME NEW c \in Calls, Step(c) PROVE RequestInv'
  <2>1. CASE ReplyLate(c)
    <3>1. /\ pc[c] = "call" /\ Return(c, "ai_deadline_exceeded")
          /\ UNCHANGED <<audit, req, reply, queue, attempts, made>>
      BY <2>1 DEF ReplyLate, shared
    <3> QED BY <3>1, CodeNames, PhaseNames, CallFails
  <2> QED BY <1>1, <2>1, ReadWindowHolds, EnterHolds, CheckHolds, SendHolds,
             ReplyAnswerHolds, ReplyErrorHolds, UnregisterHolds, RecordHolds
          DEF Step
<1>2. CASE \/ UNCHANGED vars
           \/ \E c \in Calls : Expire(c)
           \/ \E i \in RequestIds : Cancel(i)
  BY <1>2 DEF vars, Expire, Cancel, shared, RequestInv
<1>3. CASE Restart
  <2> DEFINE lost == {c \in Calls : pc[c] \notin {"idle", "done"}}
  <2>1. /\ AnswerAll(lost, LAMBDA c : "lost") /\ UNCHANGED <<audit, req>>
    BY <1>3 DEF Restart
  <2>2. \A c \in lost : req[c] \in Requests
    BY DEF RequestInv, CallHolds
  <2> QED BY <2>1, <2>2, CallsAnswer DEF AnswerAll, RequestInv
<1> QED BY <1>1, <1>2, <1>3, CompleteHolds DEF Next

LEMMA RequestInit == Init => RequestInv
<1> SUFFICES ASSUME Init PROVE RequestInv
  OBVIOUS
<1>1. ASSUME NEW c \in Calls
      PROVE  CallHolds(pc[c], req[c], queue[c], attempts[c], made[c], result[c])
  <2>1. /\ pc[c] = "idle" /\ attempts[c] = <<>> /\ made[c] = <<>>
    BY DEF Init
  <2>2. CallHolds("idle", req[c], queue[c], <<>>, <<>>, result[c])
    BY DEF CallHolds, Trying, Ended
  <2> QED BY <2>1, <2>2
<1> QED BY <1>1, PhaseNames DEF Init, RequestInv

\* Gateway::complete sends a request to no provider twice, and to a second
\* one only with the caller's permission and after a failure that allows it,
\* whatever order is configured and however providers fail.
THEOREM FailsOverPermitted == Spec => []FailoverPermitted
<1>1. RequestInv => FailoverPermitted
  <2> SUFFICES ASSUME RequestInv, NEW c \in Calls
               PROVE  /\ \A m, n \in DOMAIN made[c] :
                            m # n => made[c][m] # made[c][n]
                      /\ Len(made[c]) > 1 => req[c].failover
                      /\ \A n \in 1 .. Len(made[c]) - 1 :
                            /\ attempts[c][n].provider = made[c][n]
                            /\ attempts[c][n].outcome \in FailoverReason
    BY DEF FailoverPermitted
  <2>1. CallHolds(pc[c], req[c], queue[c], attempts[c], made[c], result[c])
    BY DEF RequestInv
  <2>2. attempts[c] \in Seq(AttemptRecords) /\ made[c] \in Seq(Providers)
    BY DEF RequestInv
  <2>3. 1 .. Len(made[c]) - 1 \subseteq DOMAIN attempts[c]
    BY <2>1, <2>2 DEF CallHolds
  <2> QED BY <2>1, <2>3 DEF CallHolds
<1> QED BY <1>1, RequestInit, RequestStep, PTL DEF Spec

-----------------------------------------------------------------------------
(* The audit's promise. *)

StandingOf(phase, told) ==
    CASE phase = "idle" -> "new"
      [] phase = "done" -> IF told \in Finished THEN "ok"
                           ELSE IF told = "lost" THEN "lost" ELSE "error"
      [] OTHER -> "open"

AuditStep == [Audit!Next]_(Audit!vars)

\* A step in which every call keeps its standing and the audit its records.
LEMMA AuditStutters ==
    ASSUME audit' = audit, \A c \in Calls : Standing(c)' = Standing(c)
    PROVE  AuditStep
<1>1. [c \in Calls |-> Standing(c)'] = [c \in Calls |-> Standing(c)]
  OBVIOUS
<1> QED BY <1>1 DEF AuditStep, Audit!vars

LEMMA MovesKeepStanding ==
    ASSUME RequestInv, NEW c \in Calls, NEW phase, Goto(c, phase),
           UNCHANGED <<audit, reply>>,
           pc[c] \notin {"idle", "done"}, phase \notin {"idle", "done"}
    PROVE  AuditStep
<1>1. ASSUME NEW d \in Calls PROVE Standing(d)' = Standing(d)
  <2>1. pc'[d] = IF d = c THEN phase ELSE pc[d]
    BY DEF Goto, RequestInv
  <2> QED BY <2>1 DEF Standing
<1> QED BY <1>1, AuditStutters

LEMMA AnswerStandings ==
    ASSUME RequestInv, NEW c \in Calls, NEW code, Answer(c, code)
    PROVE  \A d \in Calls :
              Standing(d)' = IF d = c THEN StandingOf("done", code)
                                      ELSE Standing(d)
<1> TAKE d \in Calls
<1>1. /\ pc'[d] = IF d = c THEN "done" ELSE pc[d]
      /\ reply'[d] = IF d = c THEN code ELSE reply[d]
  BY DEF Answer, AnswerAll
<1> QED BY <1>1 DEF Standing, StandingOf

\* An answer that hands out no content and records nothing.
LEMMA RejectStep ==
    ASSUME RequestInv, NEW c \in Calls, NEW code, Answer(c, code),
           pc[c] # "done", code \notin Finished \cup {"lost"}, audit' = audit
    PROVE  AuditStep
<1>1. Standing(c) \in {"new", "open"}
  BY DEF Standing
<1>2. \A d \in Calls : Standing(d)' = IF d = c THEN "error" ELSE Standing(d)
  BY AnswerStandings DEF StandingOf
<1>3. Audit!Reject(c)
  BY <1>1, <1>2 DEF Audit!Reject
<1> QED BY <1>3 DEF AuditStep, Audit!Next

LEMMA RecordStep ==
    ASSUME RequestInv, NEW c \in Calls, Record(c)
    PROVE  AuditStep
<1>1. pc[c] = "record"
  BY DEF Record
<1>2. CallHolds("record", req[c], queue[c], attempts[c], made[c], result[c])
  BY <1>1 DEF RequestInv
<1>3. CASE Answer(c, "ai_audit_store_failed") /\ audit' = audit
  BY <1>1, <1>3, CodeNames, RejectStep
<1>4. CASE /\ audit[req[c].id] = None
           /\ audit' = [audit EXCEPT ![req[c].id] =
                           [result |-> result[c], attempts |-> attempts[c]]]
           /\ Answer(c, result[c])
  <2> DEFINE i == req[c].id
             record == [result |-> result[c], attempts |-> attempts[c]]
  <2>1. /\ req[c] \in Requests /\ result[c] \in Codes
        /\ result[c] \in Finished => AnsweredBy(attempts[c])
    BY <1>2 DEF CallHolds, Ended
  <2>2. i \in RequestIds /\ record \in AuditRecords
    BY <2>1, RequestsAssumption DEF AuditRecords, RequestInv
  <2>3. result[c] \in Finished => record \in AnsweredRecords
    BY <2>1, <2>2 DEF AnsweredRecords, AnsweredBy, Last
  <2>4. Standing(c) = "open"
    BY <1>1 DEF Standing
  <2>5. /\ result[c] # "lost"
        /\ StandingOf("done", result[c]) =
              IF result[c] \in Finished THEN "ok" ELSE "error"
    BY <2>1, CodeNames DEF StandingOf
  <2>6. \A d \in Calls :
           Standing(d)' = IF d = c
                          THEN IF result[c] \in Finished THEN "ok" ELSE "error"
                          ELSE Standing(d)
    BY <1>4, <2>5, AnswerStandings
  <2> HIDE DEF record
  <2>7. audit' = [audit EXCEPT ![i] = record] /\ audit'[i] = record
    BY <1>4, <2>2 DEF record, RequestInv
  <2>8. Audit!Settle(c, i)
    BY <1>4, <2>2, <2>3, <2>4, <2>6, <2>7 DEF Audit!Settle
  <2> QED BY <2>2, <2>8 DEF AuditStep, Audit!Next
<1> QED BY <1>3, <1>4 DEF Record

LEMMA CompleteStep ==
    ASSUME RequestInv, NEW c \in Calls, NEW q \in Requests, Complete(c, q)
    PROVE  AuditStep
<1>1. pc[c] = "idle" /\ audit' = audit
  BY DEF Complete
<1>2. CASE \E code \in {"permission_denied", "ai_request_in_flight"} :
              Answer(c, code)
  BY <1>1, <1>2, CodeNames, RejectStep
<1>3. CASE Goto(c, "window") /\ reply' = reply
  <2>1. \A d \in Calls : Standing(d)' = IF d = c THEN "open" ELSE Standing(d)
    <3> TAKE d \in Calls
    <3>1. pc'[d] = IF d = c THEN "window" ELSE pc[d]
      BY <1>3 DEF Goto, RequestInv
    <3> QED BY <1>3, <3>1 DEF Standing
  <2>2. Standing(c) = "new"
    BY <1>1 DEF Standing
  <2>3. Audit!Open(c)
    BY <1>1, <2>1, <2>2 DEF Audit!Open
  <2> QED BY <2>3 DEF AuditStep, Audit!Next
<1> QED BY <1>2, <1>3 DEF Complete

LEMMA StepOfCall ==
    ASSUME RequestInv, NEW c \in Calls, Step(c)
    PROVE  AuditStep
<1>1. CASE \/ ReadWindow(c) \/ Enter(c) \/ Check(c) \/ Send(c) \/ ReplyLate(c)
           \/ \E u \in Usages : ReplyAnswer(c, u)
           \/ \E r \in Errors : ReplyError(c, r)
  <2>1. /\ pc[c] \notin {"idle", "done"}
        /\ UNCHANGED <<audit, reply>>
        /\ \E phase \in {"enter", "check", "send", "call", "unregister"} :
              Goto(c, phase)
    BY <1>1 DEF ReadWindow, Enter, Check, Send, ReplyLate, ReplyAnswer,
                ReplyError, Return, shared
  <2> QED BY <2>1, MovesKeepStanding
<1>2. CASE Unregister(c)
  <2>1. /\ pc[c] = "unregister" /\ audit' = audit
        /\ \/ Answer(c, "ai_audit_store_failed")
           \/ Goto(c, "record") /\ reply' = reply
    BY <1>2 DEF Unregister
  <2>2. CASE Answer(c, "ai_audit_store_failed")
    BY <2>1, <2>2, CodeNames, RejectStep
  <2> QED BY <2>1, <2>2, MovesKeepStanding
<1> QED BY <1>1, <1>2, RecordStep DEF Step

\* ai_complete accounts for what it hands out: a record is written once and
\* never changed, no answer of a provider reaches its caller without a record
\* of it, and none after the application stopped.  Every step of AiRequests
\* is a step of AiAudit or leaves its view as it is.
THEOREM AuditIsKept == Spec => AuditKept
<1>1. Init => Audit!Init
  <2> SUFFICES ASSUME Init PROVE Audit!Init
    OBVIOUS
  <2>1. \A c \in Calls : Standing(c) = "new"
    BY DEF Init, Standing
  <2> QED BY <2>1 DEF Init, Audit!Init
<1>2. RequestInv /\ [Next]_vars => [Audit!Next]_(Audit!vars)
  <2> SUFFICES ASSUME RequestInv, [Next]_vars PROVE AuditStep
    BY DEF AuditStep
  <2>1. CASE \/ UNCHANGED vars
             \/ \E c \in Calls : Expire(c)
             \/ \E i \in RequestIds : Cancel(i)
    <3>1. UNCHANGED <<audit, pc, reply>>
      BY <2>1 DEF vars, Expire, Cancel, shared
    <3>2. \A c \in Calls : Standing(c)' = Standing(c)
      BY <3>1 DEF Standing
    <3> QED BY <3>1, <3>2, AuditStutters
  <2>2. CASE Restart
    <3> DEFINE lost == {c \in Calls : pc[c] \notin {"idle", "done"}}
    <3>1. AnswerAll(lost, LAMBDA c : "lost") /\ audit' = audit
      BY <2>2 DEF Restart
    <3>2. \A c \in Calls :
             /\ pc'[c] = IF c \in lost THEN "done" ELSE pc[c]
             /\ reply'[c] = IF c \in lost THEN "lost" ELSE reply[c]
      BY <3>1 DEF AnswerAll
    <3>3. "lost" \notin Finished
      BY CodeNames
    <3>4. \A c \in Calls : Standing(c)' =
             IF Standing(c) = "open" THEN "lost" ELSE Standing(c)
      BY <3>2, <3>3 DEF Standing
    <3>5. Audit!Stop
      BY <3>1, <3>4 DEF Audit!Stop
    <3> QED BY <3>5 DEF AuditStep, Audit!Next
  <2> QED BY <2>1, <2>2, CompleteStep, StepOfCall DEF Next
<1> QED BY <1>1, <1>2, RequestInit, RequestStep, PTL
        DEF Spec, AuditKept, Audit!Spec
-----------------------------------------------------------------------------
(* That at most one call of an identifier runs, for any calls, identifiers *)
(* and requests.                                                           *)

TableInv ==
    /\ tokens \in [RequestIds -> Calls \cup {None}]
    /\ pc = [c \in Calls |-> pc[c]]
    /\ req = [c \in Calls |-> req[c]]
    /\ \A c \in Calls :
          pc[c] \in InFlight =>
              req[c].id \in RequestIds /\ tokens[req[c].id] # None
    /\ \A i \in RequestIds : tokens[i] # None => Running(i) # {}
    /\ \A c, d \in Calls :
          /\ pc[c] \in InFlight /\ pc[d] \in InFlight
          /\ req[c].id = req[d].id
          => c = d

\* A step that moves a call within its flight, or changes none.
LEMMA FlightKept ==
    ASSUME TableInv, UNCHANGED <<tokens, req>>, pc' = [c \in Calls |-> pc'[c]],
           \A c \in Calls : pc'[c] \in InFlight <=> pc[c] \in InFlight
    PROVE  TableInv'
BY DEF TableInv, Running

LEMMA GotoKeeps ==
    ASSUME TableInv, NEW c \in Calls, NEW phase, UNCHANGED <<tokens, req>>,
           pc[c] \in InFlight, phase \in InFlight, Goto(c, phase)
    PROVE  TableInv'
<1>1. /\ pc' = [d \in Calls |-> pc'[d]]
      /\ \A d \in Calls : pc'[d] \in InFlight <=> pc[d] \in InFlight
  BY DEF Goto, TableInv
<1> QED BY <1>1, FlightKept

LEMMA TablePhases ==
    /\ {"window", "enter", "check", "send", "call", "unregister"} = InFlight
    /\ "idle" \notin InFlight /\ "record" \notin InFlight /\ "done" \notin InFlight
BY DEF InFlight, InGateway

LEMMA CompleteKeeps ==
    ASSUME TableInv, NEW c \in Calls, NEW q \in Requests, Complete(c, q)
    PROVE  TableInv'
<1>1. /\ q.id \in RequestIds
      /\ pc[c] \notin InFlight
      /\ req' = [req EXCEPT ![c] = q]
      /\ c # None
  BY RequestsAssumption, NoneAssumption, TablePhases DEF Complete
<1>2. CASE pc' = [d \in Calls |-> IF d = c THEN "done" ELSE pc[d]]
  <2>1. \/ tokens' = tokens
        \/ tokens[q.id] # None /\ tokens' = [tokens EXCEPT ![q.id] = c]
    BY <1>2, TablePhases DEF Complete, Goto, TableInv
  <2>2. \A d \in Calls :
           /\ pc'[d] \in InFlight <=> pc[d] \in InFlight
           /\ pc[d] \in InFlight => req'[d] = req[d]
    BY <1>1, <1>2, TablePhases DEF TableInv
  <2>3. \A i \in RequestIds : Running(i)' = Running(i)
    BY <2>2 DEF Running
  <2>4. /\ tokens' \in [RequestIds -> Calls \cup {None}]
        /\ \A i \in RequestIds : tokens'[i] = None <=> tokens[i] = None
    BY <1>1, <2>1 DEF TableInv
  <2>5. req' = [d \in Calls |-> req'[d]]
    BY <1>1 DEF TableInv
  <2> QED BY <1>2, <2>2, <2>3, <2>4, <2>5 DEF TableInv
<1>3. CASE /\ tokens[q.id] = None
           /\ tokens' = [tokens EXCEPT ![q.id] = c]
           /\ pc' = [pc EXCEPT ![c] = "window"]
  <2>1. \A d \in Calls :
           /\ pc'[d] \in InFlight <=> d = c \/ pc[d] \in InFlight
           /\ req'[d] = IF d = c THEN q ELSE req[d]
    BY <1>1, <1>3, TablePhases DEF TableInv
  <2>2. \A d \in Calls : pc[d] \in InFlight => req[d].id # q.id
    BY <1>3 DEF TableInv
  <2>3. \A i \in RequestIds : tokens'[i] = IF i = q.id THEN c ELSE tokens[i]
    BY <1>1, <1>3 DEF TableInv
  <2>4. \A i \in RequestIds :
           Running(i)' = IF i = q.id THEN Running(i) \cup {c} ELSE Running(i)
    BY <1>1, <2>1 DEF Running
  <2>5. /\ tokens' \in [RequestIds -> Calls \cup {None}]
        /\ pc' = [d \in Calls |-> pc'[d]]
        /\ req' = [d \in Calls |-> req'[d]]
    BY <1>1, <1>3 DEF TableInv
  <2>6. \A d \in Calls :
           pc'[d] \in InFlight =>
               req'[d].id \in RequestIds /\ tokens'[req'[d].id] # None
    BY <1>1, <2>1, <2>3 DEF TableInv
  <2>7. \A i \in RequestIds : tokens'[i] # None => Running(i)' # {}
    BY <2>3, <2>4 DEF TableInv
  <2>8. \A d, e \in Calls :
           /\ pc'[d] \in InFlight /\ pc'[e] \in InFlight
           /\ req'[d].id = req'[e].id
           => d = e
    BY <2>1, <2>2 DEF TableInv
  <2> QED BY <2>5, <2>6, <2>7, <2>8 DEF TableInv
<1> QED BY <1>2, <1>3 DEF Complete, Answer, AnswerAll, Goto

LEMMA UnregisterKeeps ==
    ASSUME TableInv, NEW c \in Calls, Unregister(c)
    PROVE  TableInv'
<1>1. /\ pc[c] \in InFlight
      /\ tokens' = [tokens EXCEPT ![req[c].id] = None]
      /\ req' = req
  BY TablePhases DEF Unregister
<1>2. \E phase \in {"done", "record"} :
         pc' = [d \in Calls |-> IF d = c THEN phase ELSE pc[d]]
  BY DEF Unregister, Answer, AnswerAll, Goto, TableInv
<1> QED BY <1>1, <1>2, TablePhases DEF TableInv, Running

LEMMA StepKeeps ==
    ASSUME TableInv, NEW c \in Calls, Step(c)
    PROVE  TableInv'
<1>1. CASE ReadWindow(c)
  BY <1>1, GotoKeeps, TablePhases DEF ReadWindow, Return, shared
<1>2. CASE Enter(c)
  BY <1>2, GotoKeeps, TablePhases DEF Enter, Return, shared
<1>3. CASE Check(c) \/ Send(c)
  BY <1>3, GotoKeeps, TablePhases DEF Check, Send, Return, shared
<1>4. CASE ReplyLate(c) \/ \E u \in Usages : ReplyAnswer(c, u)
  BY <1>4, GotoKeeps, TablePhases DEF ReplyLate, ReplyAnswer, Return, shared
<1>5. CASE \E r \in Errors : ReplyError(c, r)
  BY <1>5, GotoKeeps, TablePhases DEF ReplyError, Return, shared
<1>6. CASE Record(c)
  <2>1. /\ pc[c] = "record" /\ UNCHANGED <<tokens, req>>
        /\ pc' = [d \in Calls |-> IF d = c THEN "done" ELSE pc[d]]
    BY <1>6 DEF Record, Answer, AnswerAll
  <2> QED BY <2>1, FlightKept, TablePhases
<1> QED BY <1>1, <1>2, <1>3, <1>4, <1>5, <1>6, UnregisterKeeps DEF Step

\* ai_complete runs one call of a request at a time, and its token is in the
\* table exactly while it runs.
THEOREM OneRuns == Spec => []OneRunning
<1>1. Init => TableInv
  BY TablePhases DEF Init, TableInv
<1>2. TableInv /\ [Next]_vars => TableInv'
  <2> SUFFICES ASSUME TableInv, [Next]_vars PROVE TableInv'
    OBVIOUS
  <2>1. CASE (\E c \in Calls : Expire(c)) \/ (\E i \in RequestIds : Cancel(i))
    BY <2>1, FlightKept DEF Expire, Cancel, shared, TableInv
  <2>2. CASE Restart
    <3>1. /\ tokens' = [i \in RequestIds |-> None]
          /\ req' = req
          /\ pc' = [c \in Calls |-> IF pc[c] \in {"idle", "done"} THEN pc[c]
                                    ELSE "done"]
      BY <2>2 DEF Restart, AnswerAll
    <3> QED BY <3>1, TablePhases DEF TableInv
  <2>3. CASE UNCHANGED vars
    BY <2>3 DEF vars, TableInv, Running
  <2> QED BY <2>1, <2>2, <2>3, CompleteKeeps, StepKeeps DEF Next
<1>3. TableInv => OneRunning
  BY DEF TableInv, OneRunning, Running
<1> QED BY <1>1, <1>2, <1>3, PTL DEF Spec

-----------------------------------------------------------------------------
(* Sums over finite sets.                                                  *)

\* A set of subsets of a finite set has a smallest member.
LEMMA MinimalSet ==
    ASSUME NEW S, IsFiniteSet(S), NEW B, B \subseteq SUBSET S, B # {}
    PROVE  \E s \in B : \A x \in s : s \ {x} \notin B
<1> DEFINE T == {Cardinality(s) : s \in B}
<1>1. \A s \in B : IsFiniteSet(s) /\ Cardinality(s) \in Nat
  <2> TAKE s \in B
  <2>1. IsFiniteSet(s)
    BY FS_Subset
  <2> QED BY <2>1, FS_CardinalityType
<1>2. PICK n \in T : \A m \in T : n <= m
  <2>1. T \subseteq Nat /\ T # {}
    BY <1>1
  <2> HIDE DEF T
  <2> QED BY <2>1, LeastNatural
<1>3. PICK s \in B : Cardinality(s) = n
  OBVIOUS
<1>4. ASSUME NEW x \in s, s \ {x} \in B PROVE FALSE
  <2> DEFINE rest == s \ {x}
  <2>1. IsFiniteSet(rest) /\ Cardinality(rest) \in Nat /\ n <= Cardinality(rest)
    BY <1>1, <1>2, <1>4
  <2>2. rest \cup {x} = s /\ x \notin rest
    OBVIOUS
  <2> HIDE DEF rest
  <2>3. Cardinality(rest \cup {x}) = Cardinality(rest) + 1
    BY <2>1, <2>2, FS_AddElement
  <2>4. n = Cardinality(rest) + 1
    BY <1>3, <2>2, <2>3
  <2> QED BY <2>1, <2>4
<1> QED BY <1>4

Pick(s) == CHOOSE x \in s : TRUE

Partial(f, h, s) == IF s = {} THEN 0 ELSE f[Pick(s)] + h[s \ {Pick(s)}]

\* The table of the sums of f over the subsets of S.
Sums(f, S, h) == h = [s \in SUBSET S |-> Partial(f, h, s)]

Table(f, S) == CHOOSE h : Sums(f, S, h)

LEMMA SumIsTable ==
    ASSUME NEW f, NEW S
    PROVE  SumFunctionOnSet(f, S) = Table(f, S)[S]
BY DEF SumFunctionOnSet, FoldFunctionOnSet, MapThenFoldSet, Table, Sums,
       Partial, Pick

LEMMA PickIn ==
    ASSUME NEW s, s # {}
    PROVE  Pick(s) \in s
BY DEF Pick

\* Two tables agree where both are defined.
LEMMA TablesAgree ==
    ASSUME NEW f, NEW S, NEW R, NEW h, NEW k, Sums(f, S, h), Sums(f, R, k),
           NEW s, s \subseteq S, s \subseteq R, IsFiniteSet(s)
    PROVE  h[s] = k[s]
<1> DEFINE B == {t \in SUBSET s : h[t] # k[t]}
<1>1. SUFFICES ASSUME B # {} PROVE FALSE
  OBVIOUS
<1>2. PICK t \in B : \A x \in t : t \ {x} \notin B
  <2>1. B \subseteq SUBSET s
    OBVIOUS
  <2> HIDE DEF B
  <2> QED BY <1>1, <2>1, MinimalSet
<1>3. h[t] = Partial(f, h, t) /\ k[t] = Partial(f, k, t)
  BY DEF Sums
<1>4. t # {} => h[t \ {Pick(t)}] = k[t \ {Pick(t)}]
  <2> SUFFICES ASSUME t # {} PROVE h[t \ {Pick(t)}] = k[t \ {Pick(t)}]
    OBVIOUS
  <2>1. Pick(t) \in t
    BY PickIn
  <2> QED BY <1>2, <2>1
<1>5. Partial(f, h, t) = Partial(f, k, t)
  BY <1>4 DEF Partial
<1> QED BY <1>3, <1>5

\* Part of a table is a table.
LEMMA TableRestricts ==
    ASSUME NEW f, NEW S, NEW R, R \subseteq S, NEW h, Sums(f, S, h)
    PROVE  \E k : Sums(f, R, k)
<1> DEFINE k == [s \in SUBSET R |-> h[s]]
<1>1. ASSUME NEW s \in SUBSET R PROVE k[s] = Partial(f, k, s)
  <2>1. h[s] = Partial(f, h, s)
    BY DEF Sums
  <2>2. s # {} => k[s \ {Pick(s)}] = h[s \ {Pick(s)}]
    OBVIOUS
  <2>3. Partial(f, k, s) = Partial(f, h, s)
    <3> HIDE DEF k
    <3> QED BY <2>2 DEF Partial
  <2> QED BY <2>1, <2>3
<1>2. k = [s \in SUBSET R |-> k[s]]
  OBVIOUS
<1> HIDE DEF k
<1>3. Sums(f, R, k)
  BY <1>1, <1>2 DEF Sums
<1> QED BY <1>3

\* Every function has its sums over the subsets of a finite set.
LEMMA TableExists ==
    ASSUME NEW f, NEW S, IsFiniteSet(S)
    PROVE  Sums(f, S, Table(f, S))
<1> DEFINE B == {s \in SUBSET S : ~\E h : Sums(f, s, h)}
<1>1. SUFFICES ASSUME B # {} PROVE FALSE
  <2> SUFFICES \E h : Sums(f, S, h)
    BY DEF Table
  <2> QED BY <1>1
<1>2. PICK s \in B : \A x \in s : s \ {x} \notin B
  <2>1. B \subseteq SUBSET S
    OBVIOUS
  <2> HIDE DEF B
  <2> QED BY <1>1, <2>1, MinimalSet
<1>3. s \in SUBSET S /\ ~\E h : Sums(f, s, h)
  OBVIOUS
<1>4. ASSUME NEW t \in SUBSET s, t # s
      PROVE  Sums(f, t, Table(f, t)) /\ IsFiniteSet(t)
  <2>1. PICK x \in s : t \subseteq s \ {x}
    BY <1>4
  <2>2. \E h : Sums(f, s \ {x}, h)
    BY <1>2, <1>3
  <2>3. \E h : Sums(f, t, h)
    BY <2>1, <2>2, TableRestricts
  <2>4. IsFiniteSet(t)
    BY <1>3, FS_Subset
  <2> QED BY <2>3, <2>4 DEF Table
<1> HIDE DEF B
<1> DEFINE total(t) == Table(f, t)[t]
           whole(t) == IF t = {} THEN 0 ELSE f[Pick(t)] + total(t \ {Pick(t)})
           h == [t \in SUBSET s |-> whole(t)]
<1>5. ASSUME NEW t \in SUBSET s, t # s PROVE total(t) = whole(t)
  <2> DEFINE rest == t \ {Pick(t)}
  <2>1. Sums(f, t, Table(f, t))
    BY <1>4, <1>5
  <2>2. total(t) = Partial(f, Table(f, t), t)
    BY <2>1 DEF Sums
  <2>3. t # {} => Table(f, t)[rest] = total(rest)
    <3> SUFFICES ASSUME t # {} PROVE Table(f, t)[rest] = total(rest)
      OBVIOUS
    <3>1. rest \in SUBSET s /\ rest # s /\ rest \subseteq t
      BY <1>5, PickIn
    <3>2. Sums(f, rest, Table(f, rest)) /\ IsFiniteSet(rest)
      BY <1>4, <3>1
    <3> HIDE DEF rest
    <3> QED BY <2>1, <3>1, <3>2, TablesAgree
  <2> QED BY <2>2, <2>3 DEF Partial
<1>6. ASSUME NEW t \in SUBSET s PROVE h[t] = Partial(f, h, t)
  <2> DEFINE rest == t \ {Pick(t)}
  <2>1. h[t] = whole(t)
    OBVIOUS
  <2>2. t # {} => h[rest] = total(rest)
    <3> SUFFICES ASSUME t # {} PROVE h[rest] = total(rest)
      OBVIOUS
    <3>1. rest \in SUBSET s /\ rest # s
      BY PickIn
    <3>2. total(rest) = whole(rest)
      BY <1>5, <3>1
    <3>3. h[rest] = whole(rest)
      BY <3>1
    <3> QED BY <3>2, <3>3
  <2> HIDE DEF h, total
  <2> QED BY <2>1, <2>2 DEF Partial
<1>7. h = [t \in SUBSET s |-> h[t]]
  OBVIOUS
<1> HIDE DEF h
<1>8. Sums(f, s, h)
  BY <1>6, <1>7 DEF Sums
<1> QED BY <1>3, <1>8

\* A sum takes an element, and the sum of the rest.
LEMMA SumUnfolds ==
    ASSUME NEW f, NEW S, IsFiniteSet(S)
    PROVE  SumFunctionOnSet(f, S) =
              IF S = {} THEN 0
              ELSE f[Pick(S)] + SumFunctionOnSet(f, S \ {Pick(S)})
<1> DEFINE rest == S \ {Pick(S)}
<1>1. IsFiniteSet(rest) /\ rest \subseteq S
  BY FS_Subset
<1>2. Sums(f, S, Table(f, S)) /\ Sums(f, rest, Table(f, rest))
  BY <1>1, TableExists
<1> HIDE DEF rest
<1>3. Table(f, S)[rest] = Table(f, rest)[rest]
  BY <1>1, <1>2, TablesAgree
<1>4. Table(f, S)[S] = Partial(f, Table(f, S), S)
  BY <1>2 DEF Sums
<1> QED BY <1>3, <1>4, SumIsTable DEF Partial, rest

Amounts(f, S) == \A x \in S : f[x] \in Nat

LEMMA SumIsNatural ==
    ASSUME NEW f, NEW S, IsFiniteSet(S), Amounts(f, S)
    PROVE  SumFunctionOnSet(f, S) \in Nat
<1> DEFINE B == {s \in SUBSET S : SumFunctionOnSet(f, s) \notin Nat}
<1>1. SUFFICES ASSUME B # {} PROVE FALSE
  OBVIOUS
<1>2. PICK s \in B : \A x \in s : s \ {x} \notin B
  <2>1. B \subseteq SUBSET S
    OBVIOUS
  <2> HIDE DEF B
  <2> QED BY <1>1, <2>1, MinimalSet
<1>3. IsFiniteSet(s)
  BY FS_Subset
<1>4. CASE s = {}
  <2>1. SumFunctionOnSet(f, s) = 0
    BY <1>3, <1>4, SumUnfolds
  <2>2. SumFunctionOnSet(f, s) \notin Nat
    OBVIOUS
  <2> QED BY <2>1, <2>2
<1>5. CASE s # {}
  <2>1. Pick(s) \in s
    BY <1>5, PickIn
  <2>2. SumFunctionOnSet(f, s \ {Pick(s)}) \in Nat
    BY <1>2, <2>1
  <2>3. f[Pick(s)] \in Nat
    BY <2>1 DEF Amounts
  <2>4. SumFunctionOnSet(f, s) \in Nat
    BY <1>3, <1>5, <2>2, <2>3, SumUnfolds
  <2> QED BY <2>4
<1> QED BY <1>4, <1>5

\* Whichever element it takes first.
LEMMA SumTakes ==
    ASSUME NEW f, NEW S, IsFiniteSet(S), Amounts(f, S), NEW x \in S
    PROVE  SumFunctionOnSet(f, S) = f[x] + SumFunctionOnSet(f, S \ {x})
<1> DEFINE B == {s \in SUBSET S :
                   \E y \in s : SumFunctionOnSet(f, s)
                                  # f[y] + SumFunctionOnSet(f, s \ {y})}
<1>1. SUFFICES ASSUME B # {} PROVE FALSE
  OBVIOUS
<1>2. PICK s \in B : \A y \in s : s \ {y} \notin B
  <2>1. B \subseteq SUBSET S
    OBVIOUS
  <2> HIDE DEF B
  <2> QED BY <1>1, <2>1, MinimalSet
<1>3. PICK y \in s : SumFunctionOnSet(f, s)
                       # f[y] + SumFunctionOnSet(f, s \ {y})
  OBVIOUS
<1> DEFINE p == Pick(s)
<1>4. p \in s /\ s \in SUBSET S /\ IsFiniteSet(s)
  BY PickIn, FS_Subset
<1>5. SumFunctionOnSet(f, s) = f[p] + SumFunctionOnSet(f, s \ {p})
  BY <1>4, SumUnfolds
<1>6. p # y
  BY <1>3, <1>5
<1>7. /\ SumFunctionOnSet(f, s \ {p})
            = f[y] + SumFunctionOnSet(f, (s \ {p}) \ {y})
      /\ SumFunctionOnSet(f, s \ {y})
            = f[p] + SumFunctionOnSet(f, (s \ {y}) \ {p})
  <2>1. s \ {p} \notin B /\ s \ {y} \notin B
    BY <1>2, <1>4
  <2>2. s \ {p} \in SUBSET S /\ s \ {y} \in SUBSET S
    BY <1>4
  <2>3. y \in s \ {p} /\ p \in s \ {y}
    BY <1>4, <1>6
  <2> HIDE DEF p
  <2> QED BY <2>1, <2>2, <2>3
<1>8. (s \ {p}) \ {y} = (s \ {y}) \ {p}
  OBVIOUS
<1>9. SumFunctionOnSet(f, (s \ {p}) \ {y}) \in Nat
  <2> DEFINE u == (s \ {p}) \ {y}
  <2>1. u \subseteq S
    BY <1>4
  <2>2. IsFiniteSet(u) /\ Amounts(f, u)
    BY <2>1, FS_Subset DEF Amounts
  <2> HIDE DEF u
  <2>3. SumFunctionOnSet(f, u) \in Nat
    BY <2>2, SumIsNatural
  <2> QED BY <2>3 DEF u
<1>10. f[p] \in Nat /\ f[y] \in Nat
  BY <1>4 DEF Amounts
<1> HIDE DEF B, p
<1>11. \A a, b, n \in Nat : a + (b + n) = b + (a + n)
  OBVIOUS
<1>12. SumFunctionOnSet(f, s) = f[y] + SumFunctionOnSet(f, s \ {y})
  <2>1. SumFunctionOnSet(f, s)
          = f[p] + (f[y] + SumFunctionOnSet(f, (s \ {p}) \ {y}))
    BY <1>5, <1>7, Zenon
  <2>2. f[y] + SumFunctionOnSet(f, s \ {y})
          = f[y] + (f[p] + SumFunctionOnSet(f, (s \ {p}) \ {y}))
    BY <1>7, <1>8, Zenon
  <2> QED BY <1>9, <1>10, <1>11, <2>1, <2>2, Zenon
<1> QED BY <1>3, <1>12

\* What can be matched one by one with something at least as large adds up
\* to no more.
LEMMA SumFits ==
    ASSUME NEW f, NEW g, NEW S, NEW R, NEW e \in [S -> R],
           IsFiniteSet(S), IsFiniteSet(R), Amounts(f, S), Amounts(g, R),
           \A x \in S : f[x] <= g[e[x]],
           \A x, y \in S : e[x] = e[y] => x = y
    PROVE  SumFunctionOnSet(f, S) <= SumFunctionOnSet(g, R)
<1> DEFINE into(s, r) == s \in SUBSET S /\ r \in SUBSET R /\ \A x \in s : e[x] \in r
           fits(s, r) == SumFunctionOnSet(f, s) <= SumFunctionOnSet(g, r)
           B == {s \in SUBSET S : \E r \in SUBSET R : into(s, r) /\ ~fits(s, r)}
<1>1. SUFFICES ASSUME B # {} PROVE FALSE
  <2>1. into(S, R)
    OBVIOUS
  <2> QED BY <1>1, <2>1
<1>2. PICK s \in B : \A x \in s : s \ {x} \notin B
  <2>1. B \subseteq SUBSET S
    OBVIOUS
  <2> HIDE DEF B
  <2> QED BY <1>1, <2>1, MinimalSet
<1>3. PICK r \in SUBSET R : into(s, r) /\ ~fits(s, r)
  OBVIOUS
<1>4. ASSUME NEW t \in SUBSET S
      PROVE  /\ IsFiniteSet(t) /\ Amounts(f, t)
             /\ SumFunctionOnSet(f, t) \in Nat
  <2>1. IsFiniteSet(t) /\ Amounts(f, t)
    BY FS_Subset DEF Amounts
  <2> QED BY <2>1, SumIsNatural
<1>5. ASSUME NEW t \in SUBSET R
      PROVE  /\ IsFiniteSet(t) /\ Amounts(g, t)
             /\ SumFunctionOnSet(g, t) \in Nat
  <2>1. IsFiniteSet(t) /\ Amounts(g, t)
    BY FS_Subset DEF Amounts
  <2> QED BY <2>1, SumIsNatural
<1>6. CASE s = {}
  <2>1. SumFunctionOnSet(f, s) = 0
    BY <1>4, <1>6, SumUnfolds
  <2>2. SumFunctionOnSet(g, r) \in Nat
    BY <1>5
  <2> QED BY <1>3, <2>1, <2>2
<1>7. CASE s # {}
  <2>1. PICK x \in s : TRUE
    BY <1>7
  <2> DEFINE t == s \ {x}
             u == r \ {e[x]}
  <2>2. x \in S /\ e[x] \in r /\ e[x] \in R /\ s \in SUBSET S
    BY <1>3
  <2>3. into(t, u)
    <3>1. \A y \in t : e[y] # e[x]
      BY <2>2
    <3> QED BY <1>3, <2>2, <3>1
  <2>4. fits(t, u)
    <3>1. t \notin B
      BY <1>2
    <3>2. t \in SUBSET S /\ u \in SUBSET R
      BY <2>3
    <3> HIDE DEF t, u, fits, into
    <3> QED BY <2>3, <3>1, <3>2
  <2>5. SumFunctionOnSet(f, s) = f[x] + SumFunctionOnSet(f, t)
    BY <1>4, <2>2, SumTakes
  <2>6. SumFunctionOnSet(g, r) = g[e[x]] + SumFunctionOnSet(g, u)
    BY <1>5, <2>2, SumTakes
  <2>7. f[x] \in Nat /\ g[e[x]] \in Nat /\ f[x] <= g[e[x]]
    BY <2>2 DEF Amounts
  <2>8. /\ SumFunctionOnSet(f, t) \in Nat /\ SumFunctionOnSet(g, u) \in Nat
        /\ SumFunctionOnSet(f, t) <= SumFunctionOnSet(g, u)
    BY <1>4, <1>5, <2>3, <2>4
  <2>9. ~(SumFunctionOnSet(f, s) <= SumFunctionOnSet(g, r))
    BY <1>3
  <2> HIDE DEF t, u, into, fits, B
  <2> QED BY <2>5, <2>6, <2>7, <2>8, <2>9
<1> QED BY <1>6, <1>7

-----------------------------------------------------------------------------
(* That what was answered is counted. *)

\* Finitely many things, each with finitely many positions.
LEMMA PairsFinite ==
    ASSUME NEW S, IsFiniteSet(S), NEW n \in [S -> Nat]
    PROVE  IsFiniteSet(UNION {{i} \X (1 .. n[i]) : i \in S})
<1> DEFINE pairs(s) == UNION {{i} \X (1 .. n[i]) : i \in s}
           B == {s \in SUBSET S : ~IsFiniteSet(pairs(s))}
<1>1. SUFFICES ASSUME B # {} PROVE FALSE
  OBVIOUS
<1>2. PICK s \in B : \A x \in s : s \ {x} \notin B
  <2>1. B \subseteq SUBSET S
    OBVIOUS
  <2> HIDE DEF B
  <2> QED BY <1>1, <2>1, MinimalSet
<1>3. s \in SUBSET S /\ ~IsFiniteSet(pairs(s))
  OBVIOUS
<1>4. CASE s = {}
  <2>1. pairs(s) = {}
    BY <1>4
  <2> QED BY <1>3, <2>1, FS_EmptySet
<1>5. CASE s # {}
  <2>1. PICK x \in s : TRUE
    BY <1>5
  <2> DEFINE rest == s \ {x}
             own == {x} \X (1 .. n[x])
  <2>2. IsFiniteSet(pairs(rest))
    <3>1. rest \in SUBSET S /\ rest \notin B
      BY <1>2, <1>3
    <3> HIDE DEF rest, pairs
    <3> QED BY <3>1
  <2>3. IsFiniteSet(own)
    <3> DEFINE g == [k \in 1 .. n[x] |-> <<x, k>>]
    <3>1. n[x] \in Nat
      BY <1>3
    <3>2. IsFiniteSet(1 .. n[x])
      BY <3>1, FS_Interval
    <3>3. g \in Surjection(1 .. n[x], own)
      <4>1. \A k \in 1 .. n[x] : g[k] = <<x, k>> /\ <<x, k>> \in own
        OBVIOUS
      <4>2. \A t \in own : \E k \in 1 .. n[x] : t = <<x, k>>
        OBVIOUS
      <4>3. g = [k \in 1 .. n[x] |-> g[k]]
        OBVIOUS
      <4> HIDE DEF g, own
      <4>4. g \in [1 .. n[x] -> own]
        BY <4>1, <4>3
      <4>5. \A t \in own : \E k \in 1 .. n[x] : g[k] = t
        BY <4>1, <4>2
      <4> QED BY <4>4, <4>5 DEF Surjection
    <3> HIDE DEF g, own
    <3> QED BY <3>2, <3>3, FS_Surjection
  <2>4. pairs(s) = pairs(rest) \cup own
    OBVIOUS
  <2> HIDE DEF pairs, rest, own
  <2> QED BY <1>3, <2>2, <2>3, <2>4, FS_Union
<1> QED BY <1>4, <1>5

Measured(tried) ==
    \A n \in DOMAIN tried : tried[n].outcome = "answered" => tried[n].usage # None

AnsweredIds == {i \in Audited : AnsweredBy(audit[i].attempts)}

Counted(ids) == SumFunction([i \in ids |-> OutputOf(i)])

\* A call that is at phase, serves request q, was told told, began after the
\* requests seen were answered, sent to the providers sent and read spent as
\* the window's output.
CountHolds(phase, q, told, seen, sent, spent) ==
    /\ phase # "done" => told \notin Finished
    /\ told \in Finished => q.id \in AnsweredIds
    /\ seen \subseteq AnsweredIds
    /\ phase \in InGateway \/ sent # <<>> =>
          spent \in Nat /\ Counted(seen) <= spent
    /\ sent # <<>> /\ Window.output # None =>
          spent + q.budget.output <= Window.output

CountInv ==
    /\ IsFiniteSet(Audited)
    /\ \A c \in Calls : Measured(attempts[c])
    /\ \A i \in Audited : Measured(audit[i].attempts)
    /\ used = [c \in Calls |-> used[c]]
    /\ before = [c \in Calls |-> before[c]]
    /\ \A c \in Calls : CountHolds(pc[c], req[c], reply[c], before[c], made[c],
                                   used[c].output)

\* The usage of an answered request's last attempt is in the audit's sums.
LEMMA AnsweredUsage ==
    ASSUME RequestInv, CountInv, NEW i \in AnsweredIds
    PROVE  /\ i \in Audited
           /\ Len(audit[i].attempts) \in DOMAIN audit[i].attempts
           /\ <<i, Len(audit[i].attempts)>> \in Recorded
           /\ OutputOf(i) =
                 audit[i].attempts[Len(audit[i].attempts)].usage.output
<1> DEFINE tried == audit[i].attempts
           n == Len(tried)
<1>1. i \in Audited /\ AnsweredBy(tried) /\ Measured(tried)
  BY DEF AnsweredIds, CountInv
<1>2. tried \in Seq(AttemptRecords)
  BY <1>1 DEF RequestInv, Audited, AuditRecords
<1>3. n \in DOMAIN tried
  BY <1>1, <1>2 DEF AnsweredBy
<1>4. tried[n].usage # None
  BY <1>1, <1>3 DEF AnsweredBy, Measured
<1> DEFINE own == {i} \X DOMAIN tried
<1>5. own \in {{j} \X DOMAIN audit[j].attempts : j \in Audited}
  BY <1>1
<1>6. <<i, n>> \in UNION {{j} \X DOMAIN audit[j].attempts : j \in Audited}
  BY <1>3, <1>5
<1>7. <<i, n>> \in Recorded
  BY <1>4, <1>6 DEF Recorded
<1> QED BY <1>1, <1>3, <1>7 DEF OutputOf, Last

\* The attempts with usage are finitely many, and their usage is an amount.
LEMMA RecordedUsage ==
    ASSUME RequestInv, CountInv
    PROVE  /\ IsFiniteSet(Recorded)
           /\ \A a \in Recorded :
                 audit[a[1]].attempts[a[2]].usage.output \in Nat
<1>1. \A i \in Audited : audit[i].attempts \in Seq(AttemptRecords)
  BY DEF RequestInv, Audited, AuditRecords
<1> DEFINE n == [i \in Audited |-> Len(audit[i].attempts)]
           all == UNION {{i} \X DOMAIN audit[i].attempts : i \in Audited}
<1>2. n \in [Audited -> Nat] /\ \A i \in Audited : DOMAIN audit[i].attempts = 1 .. n[i]
  BY <1>1
<1>3. all = UNION {{i} \X (1 .. n[i]) : i \in Audited}
  <2> HIDE DEF n
  <2> QED BY <1>2
<1>4. IsFiniteSet(all)
  <2>1. IsFiniteSet(Audited)
    BY DEF CountInv
  <2> HIDE DEF n, all
  <2> QED BY <1>2, <1>3, <2>1, PairsFinite
<1>5. Recorded \subseteq all
  BY DEF Recorded
<1>6. IsFiniteSet(Recorded)
  <2> HIDE DEF all
  <2> QED BY <1>4, <1>5, FS_Subset
<1>7. ASSUME NEW a \in Recorded
      PROVE  audit[a[1]].attempts[a[2]].usage.output \in Nat
  <2>1. PICK i \in Audited : a \in {i} \X DOMAIN audit[i].attempts
    BY <1>7 DEF Recorded
  <2>2. a[1] = i /\ a[2] \in DOMAIN audit[i].attempts
    BY <2>1
  <2>3. audit[i].attempts[a[2]] \in AttemptRecords
    BY <1>1, <2>2
  <2>4. audit[i].attempts[a[2]].usage # None
    BY <2>2 DEF Recorded
  <2>5. audit[i].attempts[a[2]].usage \in ModelUsage
    BY <2>3, <2>4 DEF AttemptRecords
  <2> QED BY <2>2, <2>5 DEF ModelUsage
<1> QED BY <1>6, <1>7

\* The window usage read from the audit counts every answered request.
LEMMA WindowCounts ==
    ASSUME RequestInv, CountInv, NEW ids, ids \subseteq AnsweredIds
    PROVE  /\ WindowUsage.output \in Nat /\ Counted(ids) \in Nat
           /\ Counted(ids) <= WindowUsage.output
<1> DEFINE f == [i \in ids |-> OutputOf(i)]
           g == [a \in Recorded |-> audit[a[1]].attempts[a[2]].usage.output]
           e == [i \in ids |-> <<i, Len(audit[i].attempts)>>]
<1>1. /\ Counted(ids) = SumFunctionOnSet(f, ids)
      /\ WindowUsage.output = SumFunctionOnSet(g, Recorded)
  BY DEF Counted, WindowUsage, SumFunction
<1>2. IsFiniteSet(ids)
  <2>1. IsFiniteSet(Audited) /\ ids \subseteq Audited
    BY DEF CountInv, AnsweredIds
  <2> QED BY <2>1, FS_Subset
<1>3. IsFiniteSet(Recorded) /\ Amounts(g, Recorded)
  BY RecordedUsage DEF Amounts
<1>4. ASSUME NEW i \in ids
      PROVE  e[i] \in Recorded /\ f[i] = g[e[i]] /\ f[i] \in Nat
  <2>1. i \in AnsweredIds
    OBVIOUS
  <2>2. e[i] \in Recorded /\ f[i] = g[e[i]]
    BY <2>1, AnsweredUsage
  <2> QED BY <1>3, <2>2 DEF Amounts
<1>5. e \in [ids -> Recorded] /\ Amounts(f, ids)
  <2>1. \A i \in ids : e[i] \in Recorded
    BY <1>4
  <2>2. e = [i \in ids |-> e[i]]
    OBVIOUS
  <2>3. Amounts(f, ids)
    BY <1>4 DEF Amounts
  <2> HIDE DEF e
  <2> QED BY <2>1, <2>2, <2>3
<1>6. \A i, j \in ids : e[i] = e[j] => i = j
  OBVIOUS
<1>7. \A i \in ids : f[i] <= g[e[i]]
  <2> SUFFICES ASSUME NEW i \in ids PROVE f[i] <= g[e[i]]
    OBVIOUS
  <2>1. f[i] \in Nat /\ g[e[i]] = f[i]
    BY <1>4
  <2> HIDE DEF f, g, e
  <2> QED BY <2>1
<1> HIDE DEF f, g, e
<1> QED BY <1>1, <1>2, <1>3, <1>5, <1>6, <1>7, SumFits, SumIsNatural

\* Records of the audit that last keep what is counted of them.
LEMMA CountLasts ==
    ASSUME \A i \in Audited : i \in Audited' /\ audit'[i] = audit[i]
    PROVE  /\ AnsweredIds \subseteq AnsweredIds'
           /\ \A ids : ids \subseteq AnsweredIds => Counted(ids)' = Counted(ids)
<1>1. AnsweredIds \subseteq AnsweredIds'
  BY DEF AnsweredIds
<1>2. ASSUME NEW ids, ids \subseteq AnsweredIds
      PROVE  Counted(ids)' = Counted(ids)
  <2>1. \A i \in ids : OutputOf(i)' = OutputOf(i)
    BY <1>2 DEF AnsweredIds, OutputOf
  <2>2. [i \in ids |-> OutputOf(i)'] = [i \in ids |-> OutputOf(i)]
    BY <2>1
  <2> QED BY <2>2 DEF Counted
<1> QED BY <1>1, <1>2

\* The calls of D step, the others are as they were.
LEMMA CountStep ==
    ASSUME CountInv, NEW D,
           \A i \in Audited : i \in Audited' /\ audit'[i] = audit[i],
           IsFiniteSet(Audited)',
           \A c \in Calls : Measured(attempts'[c]),
           \A i \in Audited' : Measured(audit'[i].attempts),
           used' = [c \in Calls |-> used'[c]],
           before' = [c \in Calls |-> before'[c]],
           \A c \in Calls \ D :
              UNCHANGED <<pc[c], req[c], reply[c], before[c], made[c], used[c]>>,
           \A c \in Calls \cap D :
              CountHolds(pc[c], req[c], reply[c], before[c], made[c],
                         used[c].output)'
    PROVE  CountInv'
<1>1. ASSUME NEW c \in Calls \ D
      PROVE  CountHolds(pc[c], req[c], reply[c], before[c], made[c],
                        used[c].output)'
  <2> PICK phase, q, told, seen, sent, spent :
         /\ phase = pc[c] /\ q = req[c] /\ told = reply[c] /\ seen = before[c]
         /\ sent = made[c] /\ spent = used[c].output
    OBVIOUS
  <2>1. CountHolds(phase, q, told, seen, sent, spent)
    BY DEF CountInv
  <2>2. CountHolds(phase, q, told, seen, sent, spent)'
    BY <2>1, CountLasts DEF CountHolds
  <2> QED BY <2>2
<1>2. \A c \in Calls :
         CountHolds(pc[c], req[c], reply[c], before[c], made[c],
                    used[c].output)'
  BY <1>1
<1> QED BY <1>2 DEF CountInv

\* What changes no record of the audit.
LEMMA SameAudit ==
    ASSUME CountInv, audit' = audit
    PROVE  /\ \A i \in Audited : i \in Audited' /\ audit'[i] = audit[i]
           /\ IsFiniteSet(Audited)'
           /\ \A i \in Audited' : Measured(audit'[i].attempts)
           /\ AnsweredIds' = AnsweredIds
           /\ \A ids : ids \subseteq AnsweredIds => Counted(ids)' = Counted(ids)
<1>1. Audited' = Audited
  BY DEF Audited
<1>2. AnsweredIds' = AnsweredIds
  BY <1>1 DEF AnsweredIds
<1> QED BY <1>1, <1>2, CountLasts DEF CountInv

\* A call moves on and is not answered.
LEMMA CountMoves ==
    ASSUME RequestInv, CountInv, NEW c \in Calls, NEW phase, Goto(c, phase),
           UNCHANGED <<audit, req, reply, before, made, used>>,
           pc[c] # "done", phase \in InGateway => pc[c] \in InGateway,
           \A d \in Calls : Measured(attempts'[d])
    PROVE  CountInv'
<1>1. \A d \in Calls : pc'[d] = IF d = c THEN phase ELSE pc[d]
  BY DEF Goto, RequestInv
<1> PICK q, told, seen, sent, spent :
       /\ q = req[c] /\ told = reply[c] /\ seen = before[c]
       /\ sent = made[c] /\ spent = used[c].output
  OBVIOUS
<1>2. CountHolds(pc[c], q, told, seen, sent, spent)
  BY DEF CountInv
<1>3. CountHolds(phase, q, told, seen, sent, spent)'
  BY <1>2, SameAudit DEF CountHolds
<1>4. CountHolds(pc[c], req[c], reply[c], before[c], made[c], used[c].output)'
  BY <1>1, <1>3
<1> DEFINE D == {c}
<1>5. /\ used' = [d \in Calls |-> used'[d]]
      /\ before' = [d \in Calls |-> before'[d]]
  BY DEF CountInv
<1>6. /\ \A d \in Calls \ D :
            UNCHANGED <<pc[d], req[d], reply[d], before[d], made[d], used[d]>>
      /\ \A d \in Calls \cap D :
            CountHolds(pc[d], req[d], reply[d], before[d], made[d],
                       used[d].output)'
  BY <1>1, <1>4
<1> HIDE DEF D
<1> QED BY <1>5, <1>6, SameAudit, CountStep

LEMMA NothingMeasured == Measured(<<>>)
BY DEF Measured

\* The calls of D answer, none of them with what a provider answered unless
\* the audit then holds a record of it.
LEMMA CountAnswers ==
    ASSUME CountInv, NEW D, D \subseteq Calls,
           \A i \in Audited : i \in Audited' /\ audit'[i] = audit[i],
           IsFiniteSet(Audited)',
           \A i \in Audited' : Measured(audit'[i].attempts),
           pc' = [c \in Calls |-> IF c \in D THEN "done" ELSE pc[c]],
           used' = [c \in Calls |-> IF c \in D THEN NoUsage ELSE used[c]],
           attempts' = [c \in Calls |-> IF c \in D THEN <<>> ELSE attempts[c]],
           made' = [c \in Calls |-> IF c \in D THEN <<>> ELSE made[c]],
           before' = [c \in Calls |-> before'[c]],
           \A c \in Calls \ D : /\ reply'[c] = reply[c] /\ req'[c] = req[c]
                                /\ before'[c] = before[c],
           \A c \in D : /\ before'[c] \subseteq AnsweredIds
                        /\ reply'[c] \in Finished => req'[c].id \in AnsweredIds'
    PROVE  CountInv'
<1>1. ASSUME NEW c \in Calls \cap D
      PROVE  CountHolds(pc[c], req[c], reply[c], before[c], made[c],
                        used[c].output)'
  <2>1. pc'[c] = "done" /\ made'[c] = <<>>
    OBVIOUS
  <2>2. before'[c] \subseteq AnsweredIds'
    BY CountLasts
  <2>3. "done" \notin InGateway
    BY DEF InGateway
  <2>4. reply'[c] \in Finished => req'[c].id \in AnsweredIds'
    OBVIOUS
  <2> QED BY <2>1, <2>2, <2>3, <2>4 DEF CountHolds
<1>2. \A c \in Calls : Measured(attempts'[c])
  BY NothingMeasured DEF CountInv
<1>3. used' = [c \in Calls |-> used'[c]]
  OBVIOUS
<1>4. \A c \in Calls \ D :
         UNCHANGED <<pc[c], req[c], reply[c], before[c], made[c], used[c]>>
  BY DEF CountInv
<1> QED BY <1>1, <1>2, <1>3, <1>4, CountStep

\* One call answers, with no record made.
LEMMA CountRefuses ==
    ASSUME CountInv, NEW c \in Calls, NEW code, code \notin Finished,
           Answer(c, code), audit' = audit,
           \A d \in Calls \ {c} : req'[d] = req[d] /\ before'[d] = before[d],
           before' = [d \in Calls |-> before'[d]],
           before'[c] \subseteq AnsweredIds
    PROVE  CountInv'
<1> DEFINE D == {c}
<1>1. /\ pc' = [d \in Calls |-> IF d \in D THEN "done" ELSE pc[d]]
      /\ used' = [d \in Calls |-> IF d \in D THEN NoUsage ELSE used[d]]
      /\ attempts' = [d \in Calls |-> IF d \in D THEN <<>> ELSE attempts[d]]
      /\ made' = [d \in Calls |-> IF d \in D THEN <<>> ELSE made[d]]
      /\ reply' = [d \in Calls |-> IF d \in D THEN code ELSE reply[d]]
  BY DEF Answer, AnswerAll
<1>2. \A d \in Calls \ D : reply'[d] = reply[d]
  BY <1>1
<1>3. \A d \in D : reply'[d] \notin Finished /\ before'[d] \subseteq AnsweredIds
  BY <1>1
<1>4. D \subseteq Calls /\ \A d \in Calls \ D : req'[d] = req[d] /\ before'[d] = before[d]
  OBVIOUS
<1> HIDE DEF D
<1> QED BY <1>1, <1>2, <1>3, <1>4, SameAudit, CountAnswers

LEMMA CountComplete ==
    ASSUME RequestInv, CountInv, NEW c \in Calls, NEW q \in Requests,
           Complete(c, q)
    PROVE  CountInv'
<1> DEFINE seen == {req[d].id : d \in {e \in Calls : reply[e] \in Finished}}
<1>1. /\ pc[c] = "idle" /\ audit' = audit
      /\ req' = [req EXCEPT ![c] = q]
      /\ before' = [before EXCEPT ![c] = seen]
  BY DEF Complete
<1>2. seen \subseteq AnsweredIds
  BY DEF CountInv, CountHolds
<1> HIDE DEF seen
<1>3. /\ before' = [d \in Calls |-> before'[d]] /\ before'[c] = seen
      /\ \A d \in Calls \ {c} : req'[d] = req[d] /\ before'[d] = before[d]
  BY <1>1 DEF CountInv, RequestInv
<1>4. CASE \E code \in {"permission_denied", "ai_request_in_flight"} :
              Answer(c, code)
  BY <1>1, <1>2, <1>3, <1>4, CodeNames, CountRefuses
<1>5. CASE /\ Goto(c, "window")
           /\ UNCHANGED <<flags, used, queue, attempts, result, reply, made>>
  <2>1. /\ made[c] = <<>> /\ reply[c] \notin Finished
    <3>1. CallHolds("idle", req[c], queue[c], attempts[c], made[c], result[c])
      BY <1>1 DEF RequestInv
    <3>2. CountHolds("idle", req[c], reply[c], before[c], made[c],
                     used[c].output)
      BY <1>1 DEF CountInv
    <3> QED BY <3>1, <3>2 DEF CallHolds, CountHolds
  <2>2. \A d \in Calls : pc'[d] = IF d = c THEN "window" ELSE pc[d]
    BY <1>5 DEF Goto, RequestInv
  <2>3. CountHolds(pc[c], req[c], reply[c], before[c], made[c], used[c].output)'
    <3>1. before'[c] \subseteq AnsweredIds'
      BY <1>1, <1>2, <1>3, SameAudit
    <3>2. "window" \notin InGateway
      BY DEF InGateway
    <3>3. pc'[c] = "window" /\ made'[c] = <<>> /\ reply'[c] \notin Finished
      BY <1>5, <2>1, <2>2
    <3> QED BY <3>1, <3>2, <3>3 DEF CountHolds
  <2> DEFINE D == {c}
  <2>4. /\ \A d \in Calls \ D :
              UNCHANGED <<pc[d], req[d], reply[d], before[d], made[d], used[d]>>
        /\ \A d \in Calls \cap D :
              CountHolds(pc[d], req[d], reply[d], before[d], made[d],
                         used[d].output)'
    BY <1>3, <1>5, <2>2, <2>3
  <2>5. /\ used' = [d \in Calls |-> used'[d]]
        /\ \A d \in Calls : Measured(attempts'[d])
    BY <1>5 DEF CountInv
  <2> HIDE DEF D
  <2> QED BY <1>1, <1>3, <2>4, <2>5, SameAudit, CountStep
<1> QED BY <1>4, <1>5 DEF Complete

LEMMA CountRead ==
    ASSUME RequestInv, CountInv, NEW c \in Calls, ReadWindow(c)
    PROVE  CountInv'
<1>1. /\ pc[c] = "window"
      /\ UNCHANGED <<audit, req, reply, before, attempts, made>>
      /\ \A d \in Calls : Measured(attempts'[d])
  BY DEF ReadWindow, shared, CountInv
<1>2. CASE (\E code : Return(c, code)) /\ UNCHANGED used
  <2>1. Goto(c, "unregister") /\ "unregister" \notin InGateway
    BY <1>2 DEF Return, InGateway
  <2> QED BY <1>1, <1>2, <2>1, CountMoves
<1>3. CASE used' = [used EXCEPT ![c] = WindowUsage] /\ Goto(c, "enter")
  <2>1. CallHolds("window", req[c], queue[c], attempts[c], made[c], result[c])
    BY <1>1 DEF RequestInv
  <2>2. made[c] = <<>>
    BY <2>1 DEF CallHolds
  <2> PICK q, told, seen, spent :
         /\ q = req[c] /\ told = reply[c] /\ seen = before[c]
         /\ spent = WindowUsage.output
    OBVIOUS
  <2>3. \E old : CountHolds("window", q, told, seen, <<>>, old)
    BY <1>1, <2>2 DEF CountInv
  <2>4. seen \subseteq AnsweredIds
    BY <2>3 DEF CountHolds
  <2>5. spent \in Nat /\ Counted(seen) <= spent
    BY <2>4, WindowCounts
  <2>6. CountHolds("enter", q, told, seen, <<>>, spent)'
    BY <1>1, <2>3, <2>4, <2>5, SameAudit DEF CountHolds
  <2>7. /\ \A d \in Calls : pc'[d] = IF d = c THEN "enter" ELSE pc[d]
        /\ used'[c].output = spent
        /\ used' = [d \in Calls |-> used'[d]]
        /\ before' = [d \in Calls |-> before'[d]]
        /\ \A d \in Calls \ {c} : used'[d] = used[d]
    BY <1>1, <1>3 DEF Goto, RequestInv, CountInv
  <2>8. CountHolds(pc[c], req[c], reply[c], before[c], made[c], used[c].output)'
    BY <1>1, <2>2, <2>6, <2>7
  <2> DEFINE D == {c}
  <2>9. /\ \A d \in Calls \ D :
              UNCHANGED <<pc[d], req[d], reply[d], before[d], made[d], used[d]>>
        /\ \A d \in Calls \cap D :
              CountHolds(pc[d], req[d], reply[d], before[d], made[d],
                         used[d].output)'
    BY <1>1, <2>7, <2>8
  <2> HIDE DEF D
  <2> QED BY <1>1, <2>7, <2>9, SameAudit, CountStep
<1> QED BY <1>2, <1>3 DEF ReadWindow

\* A request no bound refuses fits in what its window has left.
LEMMA UnrefusedFits ==
    ASSUME NEW q \in Requests, NEW m, NEW w, w.output \in Nat,
           Refusal(q, m, w) = None, Window.output # None
    PROVE  w.output + q.budget.output <= Window.output
<1> DEFINE checks == BudgetChecks(q, m, w)
           failed == {i \in DOMAIN checks : checks[i][2]}
<1>1. /\ DOMAIN checks = 1 .. 8
      /\ \A i \in 1 .. 8 : checks[i][1] \in Bounds
      /\ checks[6][2] = Over(w.output + q.budget.output, Window.output)
  BY DEF BudgetChecks, Bounds
<1>2. Refusal(q, m, w) = IF failed = {} THEN None ELSE checks[Min(failed)][1]
  BY DEF Refusal
<1>3. None \notin Bounds
  BY NoneAssumption DEF Codes
<1>4. failed \subseteq 1 .. 8 /\ failed \subseteq Nat
  BY <1>1
<1> HIDE DEF failed, checks
<1>5. failed = {}
  <2> SUFFICES ASSUME failed # {} PROVE FALSE
    OBVIOUS
  <2>1. Min(failed) \in 1 .. 8
    BY <1>4, FirstPosition
  <2> QED BY <1>1, <1>2, <1>3, <2>1
<1>6. ~checks[6][2]
  BY <1>1, <1>5 DEF failed
<1>7. ~(w.output + q.budget.output > Window.output)
  BY <1>1, <1>6 DEF Over
<1>8. q.budget.output \in Nat /\ Window.output \in Nat
  BY RequestsAssumption, WindowAssumption
<1> QED BY <1>7, <1>8

LEMMA CountSend ==
    ASSUME RequestInv, CountInv, NEW c \in Calls, Send(c)
    PROVE  CountInv'
<1> DEFINE s == Head(queue[c])
           bound == Refusal(req[c], s.model, used[c])
<1>1. /\ pc[c] = "send"
      /\ UNCHANGED <<audit, req, reply, before, used, attempts>>
      /\ \A d \in Calls : Measured(attempts'[d])
  BY DEF Send, shared, CountInv
<1>2. CASE (\E code : Return(c, code)) /\ UNCHANGED made
  <2>1. Goto(c, "unregister") /\ "unregister" \notin InGateway
    BY <1>2 DEF Return, InGateway
  <2> QED BY <1>1, <1>2, <2>1, CountMoves
<1>3. CASE /\ bound = None
           /\ made' = [made EXCEPT ![c] = Append(@, s.provider)]
           /\ Goto(c, "call")
  <2> PICK q, told, seen, spent :
         /\ q = req[c] /\ told = reply[c] /\ seen = before[c]
         /\ spent = used[c].output
    OBVIOUS
  <2>1. CountHolds("send", q, told, seen, made[c], spent)
    BY <1>1 DEF CountInv
  <2>2. "send" \in InGateway /\ "call" \in InGateway
    BY DEF InGateway
  <2>3. spent \in Nat
    BY <2>1, <2>2 DEF CountHolds
  <2>4. q \in Requests
    <3>1. CallHolds("send", q, queue[c], attempts[c], made[c], result[c])
      BY <1>1 DEF RequestInv
    <3> QED BY <3>1 DEF CallHolds
  <2>5. Window.output # None => spent + q.budget.output <= Window.output
    BY <1>3, <2>3, <2>4, UnrefusedFits
  <2>6. \A sent : CountHolds("call", q, told, seen, sent, spent)'
    BY <1>1, <2>1, <2>2, <2>5, SameAudit DEF CountHolds
  <2>7. /\ \A d \in Calls : pc'[d] = IF d = c THEN "call" ELSE pc[d]
        /\ \A d \in Calls \ {c} : made'[d] = made[d]
        /\ used' = [d \in Calls |-> used'[d]]
        /\ before' = [d \in Calls |-> before'[d]]
    BY <1>1, <1>3 DEF Goto, RequestInv, CountInv
  <2>8. CountHolds(pc[c], req[c], reply[c], before[c], made[c], used[c].output)'
    BY <1>1, <2>6, <2>7
  <2> DEFINE D == {c}
  <2>9. /\ \A d \in Calls \ D :
              UNCHANGED <<pc[d], req[d], reply[d], before[d], made[d], used[d]>>
        /\ \A d \in Calls \cap D :
              CountHolds(pc[d], req[d], reply[d], before[d], made[d],
                         used[d].output)'
    BY <1>1, <2>7, <2>8
  <2> HIDE DEF D
  <2> QED BY <1>1, <2>7, <2>9, SameAudit, CountStep
<1> QED BY <1>2, <1>3 DEF Send

\* An attempt recorded of a call has usage if it answered.
LEMMA AttemptMeasured ==
    ASSUME RequestInv, CountInv, NEW c \in Calls, pc[c] = "call",
           NEW outcome \in {"answered"} \cup ProviderErrorReason,
           NEW usage \in ModelUsage \cup {None},
           outcome = "answered" => usage # None,
           Attempt(c, outcome, usage)
    PROVE  \A d \in Calls : Measured(attempts'[d])
<1> DEFINE tried == attempts[c]
           attempt == [provider |-> Head(queue[c]).provider,
                       outcome |-> outcome, usage |-> usage]
           new == Append(tried, attempt)
<1>1. Head(queue[c]) \in Offers
  <2>1. CallHolds("call", req[c], queue[c], attempts[c], made[c], result[c])
    BY DEF RequestInv
  <2>2. queue[c] # <<>> /\ queue[c] \in Seq(Offers)
    BY <2>1 DEF CallHolds, Trying, RequestInv
  <2> QED BY <2>2
<1>2. attempt \in AttemptRecords
  BY <1>1 DEF Offers, AttemptRecords
<1>3. tried \in Seq(AttemptRecords) /\ Measured(tried)
  BY DEF RequestInv, CountInv
<1>4. attempt.outcome = outcome /\ attempt.usage = usage
  OBVIOUS
<1>5. attempts' = [attempts EXCEPT ![c] = new]
  BY DEF Attempt
<1> HIDE DEF tried, attempt
<1>6. /\ \A n \in DOMAIN tried : new[n] = tried[n]
      /\ new[Len(tried) + 1] = attempt
      /\ DOMAIN new = DOMAIN tried \cup {Len(tried) + 1}
  BY <1>2, <1>3, Appended
<1> HIDE DEF new
<1>7. Measured(new)
  BY <1>3, <1>4, <1>6 DEF Measured
<1>8. \A d \in Calls : attempts'[d] = IF d = c THEN new ELSE attempts[d]
  BY <1>5 DEF RequestInv
<1> QED BY <1>7, <1>8 DEF CountInv

LEMMA CountReply ==
    ASSUME RequestInv, CountInv, NEW c \in Calls,
           \/ \E u \in Usages : ReplyAnswer(c, u)
           \/ \E r \in Errors : ReplyError(c, r)
    PROVE  CountInv'
<1>1. /\ pc[c] = "call"
      /\ UNCHANGED <<audit, req, reply, before, used, made>>
      /\ Goto(c, "check") \/ Goto(c, "unregister")
  BY DEF ReplyAnswer, ReplyError, Return, shared
<1>2. \A d \in Calls : Measured(attempts'[d])
  <2>1. CASE \E u \in Usages : Attempt(c, "answered", u)
    BY <1>1, <2>1, UsagesAssumption, NoneAssumption, AttemptMeasured
  <2>2. CASE \E r \in Errors : Attempt(c, r, None)
    <3>1. PICK r \in Errors : Attempt(c, r, None)
      BY <2>2
    <3>2. r \in ProviderErrorReason /\ r # "answered"
      BY ErrorsAssumption DEF ProviderErrorReason
    <3> QED BY <1>1, <3>1, <3>2, AttemptMeasured
  <2> QED BY <2>1, <2>2 DEF ReplyAnswer, ReplyError
<1>3. "call" \in InGateway /\ "unregister" \notin InGateway
  BY DEF InGateway
<1> QED BY <1>1, <1>2, <1>3, CountMoves

LEMMA CountRecord ==
    ASSUME RequestInv, CountInv, NEW c \in Calls, Record(c)
    PROVE  CountInv'
<1>1. pc[c] = "record" /\ UNCHANGED <<req, before>>
  BY DEF Record
<1>2. /\ before' = [d \in Calls |-> before'[d]]
      /\ \A d \in Calls : before'[d] = before[d] /\ before'[d] \subseteq AnsweredIds
  BY <1>1 DEF CountInv, CountHolds
<1>3. CASE Answer(c, "ai_audit_store_failed") /\ audit' = audit
  BY <1>1, <1>2, <1>3, CodeNames, CountRefuses
<1>4. CASE /\ audit[req[c].id] = None
           /\ audit' = [audit EXCEPT ![req[c].id] =
                           [result |-> result[c], attempts |-> attempts[c]]]
           /\ Answer(c, result[c])
  <2> PICK i, code, tried : i = req[c].id /\ code = result[c] /\ tried = attempts[c]
    OBVIOUS
  <2> DEFINE record == [result |-> code, attempts |-> tried]
  <2>1. CallHolds("record", req[c], queue[c], tried, made[c], code)
    BY <1>1 DEF RequestInv
  <2>2. /\ req[c] \in Requests /\ code \in Codes
        /\ code \in Finished => AnsweredBy(tried)
    BY <2>1 DEF CallHolds, Ended
  <2>3. i \in RequestIds /\ tried \in Seq(AttemptRecords) /\ Measured(tried)
    BY <2>2, RequestsAssumption DEF RequestInv, CountInv
  <2>4. record \in AuditRecords /\ record.attempts = tried
    BY <2>2, <2>3 DEF AuditRecords
  <2>5. record # None
    BY <2>4, RecordAssumption
  <2> HIDE DEF record
  <2>6. /\ audit[i] = None /\ audit' = [audit EXCEPT ![i] = record]
        /\ audit'[i] = record
        /\ \A j \in RequestIds \ {i} : audit'[j] = audit[j]
    BY <1>4, <2>3 DEF record, RequestInv
  <2>7. Audited' = Audited \cup {i} /\ i \notin Audited
    BY <2>3, <2>5, <2>6 DEF Audited
  <2>8. IsFiniteSet(Audited)'
    <3>1. IsFiniteSet(Audited \cup {i})
      BY FS_AddElement DEF CountInv
    <3> QED BY <2>7, <3>1
  <2>9. \A j \in Audited : j \in Audited' /\ audit'[j] = audit[j]
    BY <2>6, <2>7 DEF Audited
  <2>10. \A j \in Audited' : Measured(audit'[j].attempts)
    BY <2>3, <2>4, <2>6, <2>7, <2>9 DEF CountInv
  <2>11. code \in Finished => i \in AnsweredIds'
    BY <2>2, <2>4, <2>6, <2>7 DEF AnsweredIds
  <2> DEFINE D == {c}
  <2>12. /\ pc' = [d \in Calls |-> IF d \in D THEN "done" ELSE pc[d]]
         /\ used' = [d \in Calls |-> IF d \in D THEN NoUsage ELSE used[d]]
         /\ attempts' = [d \in Calls |-> IF d \in D THEN <<>> ELSE attempts[d]]
         /\ made' = [d \in Calls |-> IF d \in D THEN <<>> ELSE made[d]]
         /\ reply' = [d \in Calls |-> IF d \in D THEN code ELSE reply[d]]
    BY <1>4 DEF Answer, AnswerAll
  <2>13. /\ D \subseteq Calls
         /\ \A d \in Calls \ D : /\ reply'[d] = reply[d] /\ req'[d] = req[d]
                                 /\ before'[d] = before[d]
         /\ \A d \in D : /\ before'[d] \subseteq AnsweredIds
                         /\ reply'[d] \in Finished => req'[d].id \in AnsweredIds'
    BY <1>1, <1>2, <2>11, <2>12
  <2> HIDE DEF D
  <2> QED BY <1>2, <2>8, <2>9, <2>10, <2>12, <2>13, CountAnswers
<1> QED BY <1>3, <1>4 DEF Record

LEMMA CountUnregister ==
    ASSUME RequestInv, CountInv, NEW c \in Calls, Unregister(c)
    PROVE  CountInv'
<1>1. pc[c] = "unregister" /\ UNCHANGED <<audit, req, before>>
  BY DEF Unregister
<1>2. CASE Answer(c, "ai_audit_store_failed")
  <2>1. /\ before' = [d \in Calls |-> before'[d]]
        /\ before'[c] \subseteq AnsweredIds
    BY <1>1 DEF CountInv, CountHolds
  <2> QED BY <1>1, <1>2, <2>1, CodeNames, CountRefuses
<1>3. CASE /\ Goto(c, "record")
           /\ UNCHANGED <<flags, used, queue, attempts, result, reply, made>>
  <2>1. "record" \notin InGateway /\ \A d \in Calls : Measured(attempts'[d])
    BY <1>3 DEF InGateway, CountInv
  <2> QED BY <1>1, <1>3, <2>1, CountMoves
<1> QED BY <1>2, <1>3 DEF Unregister

LEMMA CountsStep == RequestInv /\ CountInv /\ [Next]_vars => CountInv'
<1> SUFFICES ASSUME RequestInv, CountInv, [Next]_vars PROVE CountInv'
  OBVIOUS
<1>1. ASSUME NEW c \in Calls, Step(c) PROVE CountInv'
  <2>1. CASE Enter(c) \/ Check(c) \/ ReplyLate(c)
    <3>1. /\ pc[c] \in InGateway /\ pc[c] # "done"
          /\ UNCHANGED <<audit, req, reply, before, made, used, attempts>>
          /\ \E phase : Goto(c, phase)
      BY <2>1 DEF Enter, Check, ReplyLate, Return, shared, InGateway
    <3>2. \A d \in Calls : Measured(attempts'[d])
      BY <3>1 DEF CountInv
    <3> QED BY <3>1, <3>2, CountMoves
  <2> QED BY <1>1, <2>1, CountRead, CountSend, CountReply, CountUnregister,
             CountRecord DEF Step
<1>2. CASE \/ UNCHANGED vars
           \/ \E c \in Calls : Expire(c)
           \/ \E i \in RequestIds : Cancel(i)
  <2>1. UNCHANGED <<audit, pc, req, reply, before, made, used, attempts>>
    BY <1>2 DEF vars, Expire, Cancel, shared
  <2>2. \A c \in Calls : Measured(attempts'[c])
    BY <2>1 DEF CountInv
  <2>3. /\ used' = [d \in Calls |-> used'[d]]
        /\ before' = [d \in Calls |-> before'[d]]
    BY <2>1 DEF CountInv
  <2> DEFINE D == {}
  <2>4. \A c \in Calls \ D :
           UNCHANGED <<pc[c], req[c], reply[c], before[c], made[c], used[c]>>
    BY <2>1
  <2>5. \A c \in Calls \cap D :
           CountHolds(pc[c], req[c], reply[c], before[c], made[c],
                      used[c].output)'
    OBVIOUS
  <2> HIDE DEF D
  <2> QED BY <2>1, <2>2, <2>3, <2>4, <2>5, SameAudit, CountStep
<1>3. CASE Restart
  <2> DEFINE lost == {c \in Calls : pc[c] \notin {"idle", "done"}}
  <2>1. AnswerAll(lost, LAMBDA c : "lost") /\ UNCHANGED <<audit, req, before>>
    BY <1>3 DEF Restart
  <2>2. lost \subseteq Calls
    OBVIOUS
  <2> HIDE DEF lost
  <2>3. /\ pc' = [d \in Calls |-> IF d \in lost THEN "done" ELSE pc[d]]
        /\ used' = [d \in Calls |-> IF d \in lost THEN NoUsage ELSE used[d]]
        /\ attempts' = [d \in Calls |-> IF d \in lost THEN <<>> ELSE attempts[d]]
        /\ made' = [d \in Calls |-> IF d \in lost THEN <<>> ELSE made[d]]
        /\ reply' = [d \in Calls |-> IF d \in lost THEN "lost" ELSE reply[d]]
    BY <2>1 DEF AnswerAll
  <2>4. /\ before' = [d \in Calls |-> before'[d]]
        /\ \A d \in lost : /\ before'[d] \subseteq AnsweredIds
                           /\ reply'[d] \notin Finished
        /\ \A d \in Calls \ lost : /\ reply'[d] = reply[d] /\ req'[d] = req[d]
                                   /\ before'[d] = before[d]
    BY <2>1, <2>2, <2>3, CodeNames DEF CountInv, CountHolds
  <2> QED BY <2>1, <2>2, <2>3, <2>4, SameAudit, CountAnswers
<1> QED BY <1>1, <1>2, <1>3, CountComplete DEF Next

LEMMA CountInit == Init => CountInv
<1> SUFFICES ASSUME Init PROVE CountInv
  OBVIOUS
<1>1. Audited = {}
  BY DEF Init, Audited
<1>2. ASSUME NEW c \in Calls
      PROVE  CountHolds(pc[c], req[c], reply[c], before[c], made[c],
                        used[c].output)
  <2>1. /\ pc[c] = "idle" /\ reply[c] = None /\ before[c] = {}
        /\ made[c] = <<>>
    BY DEF Init
  <2>2. None \notin Finished
    BY NoneAssumption, CodeNames
  <2> QED BY <2>1, <2>2 DEF CountHolds, InGateway
<1>3. \A c \in Calls : attempts[c] = <<>>
  BY DEF Init
<1> QED BY <1>1, <1>2, <1>3, NothingMeasured, FS_EmptySet DEF Init, CountInv

\* The window budget as the audit gives it back: what a call that reached a
\* provider may still produce is counted together with every answer that was
\* given before the call began, whatever calls overlap, fail or are lost.
THEOREM CountsAnswered == Spec => []AnsweredIsCounted
<1>1. RequestInv /\ CountInv => AnsweredIsCounted
  <2> SUFFICES ASSUME RequestInv, CountInv, NEW c \in Calls,
                      made[c] # <<>>, Window.output # None
               PROVE  Counted(before[c]) + req[c].budget.output <= Window.output
    BY DEF AnsweredIsCounted, Counted
  <2> PICK phase, q, told, seen, sent, spent :
         /\ phase = pc[c] /\ q = req[c] /\ told = reply[c] /\ seen = before[c]
         /\ sent = made[c] /\ spent = used[c].output
    OBVIOUS
  <2>1. CountHolds(phase, q, told, seen, sent, spent)
    BY DEF CountInv
  <2>2. /\ seen \subseteq AnsweredIds
        /\ spent \in Nat /\ Counted(seen) <= spent
        /\ spent + q.budget.output <= Window.output
    BY <2>1 DEF CountHolds
  <2>3. Counted(seen) \in Nat
    BY <2>2, WindowCounts
  <2>4. q.budget.output \in Nat /\ Window.output \in Nat
    <3>1. CallHolds(phase, q, queue[c], attempts[c], sent, result[c])
      BY DEF RequestInv
    <3>2. q \in Requests
      BY <3>1 DEF CallHolds
    <3> QED BY <3>2, RequestsAssumption, WindowAssumption
  <2>5. Counted(seen) + q.budget.output <= Window.output
    BY <2>2, <2>3, <2>4
  <2> QED BY <2>5
<1> QED BY <1>1, RequestInit, RequestStep, CountInit, CountsStep, PTL DEF Spec

=============================================================================
