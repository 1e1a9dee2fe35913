---------------------------- MODULE ConsoleSources ----------------------------
(***************************************************************************)
(* The evidence and the source statuses of a console snapshot              *)
(* (operations/aggregate.rs, EvidenceStore and StatusBook).                *)
(*                                                                         *)
(* A store maps the accepted identifiers to what they stand for and        *)
(* remembers the rejected ones; a book maps a source to its status, by the *)
(* parts of the key that the code formats into a string.                   *)
(***************************************************************************)
EXTENDS Naturals, FiniteSets, Functions

EmptyStore == [accepted |-> << >>, rejected |-> {}]
Accepted(store) == DOMAIN store.accepted
Taken(store) == Accepted(store) \cup store.rejected
Usable(store, ids) == ids \cap Accepted(store)

Accept(store, id, content) ==
  [store EXCEPT !.accepted = [i \in DOMAIN @ \cup {id} |-> IF i = id THEN content ELSE @[i]]]

Reject(store, id) ==
  [accepted |-> Restrict(store.accepted, Accepted(store) \ {id}), rejected |-> store.rejected \cup {id}]

(* Supplied evidence: an identifier that is not verified once, or that is  *)
(* supplied twice, is rejected for good.                                   *)
Sift(store, e) ==
  IF ~e.inside THEN store
  ELSE IF e.verified /\ e.id \notin Taken(store) THEN Accept(store, e.id, e.content)
  ELSE Reject(store, e.id)

(* Generated evidence never replaces any, and never stands for a rejected  *)
(* identifier.                                                             *)
Generate(store, id, content) ==
  IF id \in Taken(store) THEN store ELSE Accept(store, id, content)

(* What no record accounts for is accounted for by a summary, one for each *)
(* of the keys.                                                            *)
SummaryId(store, key) ==
  IF <<"summary", key>> \in store.rejected THEN <<"generated", key>> ELSE <<"summary", key>>
Fallback(store, keys) ==
  LET new == {SummaryId(store, key) : key \in keys} \ Taken(store)
  IN [store EXCEPT !.accepted =
        [i \in DOMAIN @ \cup new |-> IF i \in new THEN <<"summary", i[2]>> ELSE @[i]]]

Evidence(store, key, ids) ==
  IF Usable(store, ids) # {} THEN Usable(store, ids) ELSE {SummaryId(store, key)}

SourceStates == {"fresh", "stale", "unavailable", "unverified"}
Rank(state) == CASE state = "fresh" -> 0 [] state = "stale" -> 1 [] state = "unavailable" -> 2
                 [] state = "unverified" -> 3

Status(state, reason, evidence) == [state |-> state, reason |-> reason, evidence |-> evidence]

\* Mutant: the later state stands.
LatestStands(book, key, s) ==
  IF key \notin DOMAIN book THEN [k \in DOMAIN book \cup {key} |-> IF k = key THEN s ELSE book[k]]
  ELSE [book EXCEPT ![key] = [s EXCEPT !.evidence = book[key].evidence \cup s.evidence]]

(* The worse state stands with its reason; evidence is gathered.           *)
Merge(book, key, s) ==
  IF key \notin DOMAIN book THEN [k \in DOMAIN book \cup {key} |-> IF k = key THEN s ELSE book[k]]
  ELSE LET old == book[key]
           better == IF Rank(s.state) > Rank(old.state) THEN s
                     ELSE [old EXCEPT !.reason = IF @ = "none" THEN s.reason ELSE @]
       IN [book EXCEPT ![key] = [better EXCEPT !.evidence = old.evidence \cup s.evidence]]

(* A supplied status whose evidence is not usable says nothing.            *)
Load(book, store, s) ==
  LET ids == Usable(store, s.evidence)
  IN Merge(book, s.key,
           IF s.evidence # {} /\ ids = {} THEN Status("unverified", "unknown", {})
           ELSE Status(s.state, s.reason, ids))

(* Freshness is claimed only with evidence, and bad states have a reason.  *)
Final(s) ==
  IF s.state = "fresh" /\ s.evidence = {}
  THEN [s EXCEPT !.state = "unverified", !.reason = IF @ = "none" THEN "no data" ELSE @]
  ELSE IF s.state \in {"unavailable", "unverified"} /\ s.reason = "none"
  THEN [s EXCEPT !.reason = "unknown"] ELSE s
=============================================================================
