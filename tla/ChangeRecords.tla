---------------------------- MODULE ChangeRecords ----------------------------
(***************************************************************************)
(* How one change payload becomes an event: admission to the ledger        *)
(* (change/records.rs) and normalization (change/normalize.rs).            *)
(*                                                                         *)
(* A payload is a record of what the two stages read of it:                *)
(*   path     what the fixture's status key names it by                    *)
(*   bounded, parsed   the scope and the JSON are usable                   *)
(*   clock    "read", "odd" or "absent": its timestamp;  at: the instant   *)
(*   allowed  the retention policy stores it                               *)
(*   digest   of the masked body, and its evidence's identifier too; what  *)
(*            is masked is read by no stage, so that payloads of one digest  *)
(*            differ in their path, their source and how that is read        *)
(*   native   its native identifier, with the revision                     *)
(*   source, event, phase     what the provider says happened              *)
(*   actor    "person", "bot", "email" or "none"; email: one lies anywhere *)
(*   repo     "plain", "unsafe" or "none";  app: the application's name    *)
(*   paths    the changed paths that are safe; stray: there are others     *)
(*   link     "native", "foreign", "signed", "null" or "none"              *)
(*   counts   the line counts are finite and not negative                  *)
(***************************************************************************)
EXTENDS Naturals, FiniteSets

None == "none"

Kinds ==
  [github |-> [push |-> "CodeCommit", pull_request |-> "CodeMerge", deployment_status |-> "Deployment"],
   gitlab |-> [push |-> "CodeCommit", merge_request |-> "CodeMerge", pipeline |-> "Deployment"],
   argocd |-> [sync |-> "Sync", rollback |-> "Rollback"]]
Phases ==
  [success |-> "Succeeded", failed |-> "Failed", running |-> "InProgress", reverted |-> "Reverted",
   none |-> "Unknown"]

Payload ==
  [path : STRING, bounded : BOOLEAN, parsed : BOOLEAN, clock : {"read", "odd", "absent"}, at : Nat,
   allowed : BOOLEAN, digest : Nat, native : STRING, source : DOMAIN Kinds,
   event : STRING, phase : STRING, actor : {"person", "bot", "email", "none"}, email : BOOLEAN,
   repo : {"plain", "unsafe", "none"}, app : STRING, paths : SUBSET STRING, stray : BOOLEAN,
   link : {"native", "foreign", "signed", "null", "none"}, counts : BOOLEAN]

(* What admit refuses, in its order.                                       *)
Refusal(p) ==
  IF ~p.bounded THEN "ScopeMismatch"
  ELSE IF ~p.parsed THEN "MalformedPayload"
  ELSE IF p.clock = "absent" THEN "MissingTimestamp"
  ELSE IF p.clock = "odd" THEN "InvalidTimestamp"
  ELSE IF ~p.allowed THEN "PolicyDenied"
  ELSE None

(* A link that carries a query, a fragment or credentials is nulled before *)
(* the record is retained; the field stays, so that normalization sees it. *)
Stripped(p) == [p EXCEPT !.link = IF @ = "signed" THEN "null" ELSE @]

Readable(p) ==
  /\ p.event \in DOMAIN Kinds[p.source]
  /\ p.phase \in DOMAIN Phases
  /\ p.source = "github" => p.counts

ActorOf(p) ==
  IF p.email \/ p.actor = "email" \/ p.source = "argocd" THEN "unknown"
  ELSE IF p.actor = "person" THEN "human" ELSE IF p.actor = "bot" THEN "automation" ELSE "unknown"

(* An Argo CD application without a usable URL has an empty host.          *)
RepositoryOf(p) == IF p.repo = "plain" THEN p.app ELSE None
RepositoryUnsafe(p) == p.repo = "unsafe" \/ (p.source = "argocd" /\ p.repo = None)

TargetsOf(p) ==
  IF RepositoryOf(p) # None THEN {RepositoryOf(p)}
  ELSE IF p.source = "argocd" /\ p.app # None THEN {p.app} ELSE {}

LinkUnsafe(p) == p.link \in {"null", "foreign"}

(* The fields whose loss is reported, each by a status of its own.         *)
Downgraded(p) ==
  (IF p.email \/ (p.actor = "email" /\ p.source # "argocd") THEN {"actor"} ELSE {})
    \cup (IF RepositoryUnsafe(p) THEN {"repository"} ELSE {})
    \cup (IF p.stray /\ p.source # "argocd" THEN {"changed_path"} ELSE {})
    \cup (IF LinkUnsafe(p) THEN {"source_link"} ELSE {})

Event(p) ==
  [id |-> p.digest, source |-> p.source, at |-> p.at,
   kind |-> Kinds[p.source][p.event], outcome |-> Phases[p.phase],
   actor |-> ActorOf(p), repository |-> RepositoryOf(p), targets |-> TargetsOf(p),
   paths |-> IF p.source = "argocd" THEN {} ELSE p.paths,
   link |-> IF p.link = "native" THEN "native" ELSE None,
   evidence |-> {p.digest}]

FieldStatus(p, field) == <<"change-status", p.digest, field>>

FixtureStatus(p) == <<"change-source", p.path>>
=============================================================================
