--------------------------- MODULE SignalAdapters ---------------------------
(***************************************************************************)
(* The source adapters (correlation/adapters): a recorded fixture is       *)
(* retained in the ledger under the native identifier its source gives it, *)
(* and only then parsed strictly into a signal.  What a source must say,   *)
(* and what it may say but not wrongly, differs by source; a field of the  *)
(* wrong type or an unknown word is Malformed.                             *)
(***************************************************************************)
EXTENDS SignalIdentity

CONSTANT Malformed

Security == {"trivy", "falco", "kyverno", "opa_gatekeeper"}

(* Per source: the fields that make its native identifier, those that      *)
(* belong to it or to the stable identity when they are said, what it      *)
(* needs, what else it parses, and what it parses before it retains.       *)
AlertContract ==
  [native |-> {"fingerprint"}, also |-> {}, needs |-> {}, reads |-> {"state", "starts", "target"},
   first |-> {"fingerprint"}]

AnomalyContract ==
  [native |-> {"native"}, also |-> {}, needs |-> {"rule", "metric", "observed", "comparison", "condition"},
   reads |-> {"severity", "target"}, first |-> {"native"}]

HealthContract ==
  [native |-> {"run"}, also |-> {}, needs |-> {}, reads |-> {"target"}, first |-> {"schedule", "run", "outcome"}]

TrivyContract ==
  [native |-> {"vulnerability", "package", "image"}, also |-> {"path"}, needs |-> {"vulnerability", "image"},
   reads |-> {"package", "path", "severity", "exploitability", "cvss", "state"}, first |-> {}]

(* A target that needs no namespace has none.                              *)
FalcoContract ==
  [native |-> {"event"}, also |-> {"namespace", "container"}, needs |-> {"event", "rule", "target"},
   reads |-> {"namespace", "container", "priority", "exploitability", "time", "state"}, first |-> {}]

KyvernoContract ==
  [native |-> {"policy", "rule", "path", "resource"}, also |-> {},
   needs |-> {"policy", "rule", "result", "resource", "path"},
   reads |-> {"severity", "exploitability", "state"}, first |-> {}]

GatekeeperContract ==
  [native |-> {"template", "constraint", "path", "resource"}, also |-> {},
   needs |-> {"template", "constraint", "result", "resource", "path"},
   reads |-> {"severity", "exploitability", "state"}, first |-> {}]

Contract(source) ==
  CASE source = "alertmanager"   -> AlertContract
    [] source = "prometheus"     -> AnomalyContract
    [] source = "health_check"   -> HealthContract
    [] source = "trivy"          -> TrivyContract
    [] source = "falco"          -> FalcoContract
    [] source = "kyverno"        -> KyvernoContract
    [] source = "opa_gatekeeper" -> GatekeeperContract

Says(f, field) == field \in DOMAIN f.payload /\ f.payload[field] # Malformed

(* Nothing is retained of a fixture that is of no known source, or whose   *)
(* identifier an operational adapter cannot read.                          *)
Unreadable(f) ==
  \/ \E x \in Contract(f.source).first \cap DOMAIN f.payload : ~Says(f, x)
  \/ f.source = "health_check" /\ (~Says(f, "outcome") \/ ~(Says(f, "run") \/ Says(f, "schedule")))

(* An identifier made of several fields needs them all but the optional    *)
(* ones; a health check without a run goes by its schedule.                *)
NativeOf(f) ==
  LET parts == Contract(f.source).native
      said == {x \in Contract(f.source).also : Says(f, x)}
  IN IF f.source = "health_check" /\ ~Says(f, "run") THEN f.payload["schedule"]
     ELSE IF \E x \in parts : ~Says(f, x) THEN NoNative
     ELSE IF Cardinality(parts) = 1 THEN f.payload[CHOOSE x \in parts : TRUE]
     ELSE [x \in parts \cup said |-> f.payload[x]]

(* The ledger refuses a native identifier and revision it holds with       *)
(* another content.                                                        *)
RowOf(f) == [source |-> f.source, native |-> NativeOf(f), revision |-> f.revision, digest |-> f.digest]

Ambiguous(f, ledger) ==
  /\ NativeOf(f) # NoNative
  /\ \E r \in ledger : /\ [r EXCEPT !.digest = f.digest] = RowOf(f)
                       /\ r.digest # f.digest

(* What strict parsing refuses after the row is retained; the security     *)
(* adapters alone refuse identities that look like a secret.               *)
Unparsable(f) ==
  \/ \E x \in Contract(f.source).needs : ~Says(f, x)
  \/ \E x \in Contract(f.source).reads \cap DOMAIN f.payload : ~Says(f, x)
  \/ f.source \in Security /\ \E x \in (Contract(f.source).needs \cup Contract(f.source).also) \cap DOMAIN f.payload :
                                  f.payload[x] \in Unsafe

(* The time of the event: a falco event's own before the record's, an      *)
(* alert's start when the record has none.                                 *)
ObservedAt(f) ==
  CASE f.source = "falco" /\ Says(f, "time")                               -> f.payload["time"]
    [] f.source = "alertmanager" /\ f.observed = NoTime /\ Says(f, "starts") -> f.payload["starts"]
    [] OTHER                                                               -> f.observed

SignalOf(f, now) ==
  [id |-> f.id, source |-> f.source, native |-> NativeOf(f), revision |-> f.revision,
   digest |-> f.digest, payload |-> f.payload, targets |-> f.targets, scope |-> f.scope,
   observed |-> ObservedAt(f), ingested |-> IF f.stamped THEN now ELSE NoTime]

(* One intake: the rows it adds, the signals it yields, and whether its    *)
(* source is reported as unverified.                                       *)
Intake(f, ledger, now) ==
  LET unretained == Unreadable(f) \/ Ambiguous(f, ledger)
      refused == unretained \/ Unparsable(f)
  IN [rows |-> IF unretained THEN {} ELSE {RowOf(f)},
      signals |-> IF refused THEN {} ELSE {SignalOf(f, now)},
      rejected |-> IF refused THEN {f.source} ELSE {}]
=============================================================================
