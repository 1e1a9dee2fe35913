--------------------------- MODULE SignalIdentity ---------------------------
(***************************************************************************)
(* The logical identity of a normalized signal (correlation/dedup.rs): the *)
(* fields of its retained payload that make two records the same thing, by *)
(* source; and the suppression policy that annotates it                    *)
(* (correlation/suppression.rs).  A payload maps the fields it has to      *)
(* values; what is absent is not in its domain.                            *)
(***************************************************************************)
EXTENDS Naturals, FiniteSets, Functions

CONSTANTS
  NoNative,
  NoTime,    \* of a signal without a timestamp; times are ticks
  Unsafe     \* values that look like a secret or an account number

Unidentified == [none |-> TRUE]

(* Per source: the fields an identity needs, those that belong to it when  *)
(* they are said (a falco event's are of the target its payload names),    *)
(* the one the native identifier may stand for, the one a target may stand *)
(* for, and whether the exact targets belong to it.                        *)
Identifying(source) ==
  CASE source = "alertmanager"  -> [needs |-> {"fingerprint"}, also |-> {}, native |-> "fingerprint",
                                    byTarget |-> "", targets |-> FALSE]
    [] source = "prometheus"    -> [needs |-> {"rule", "metric", "condition"}, also |-> {}, native |-> "rule",
                                    byTarget |-> "", targets |-> TRUE]
    [] source = "trivy"         -> [needs |-> {"vulnerability", "package", "image"},
                                    also |-> {"path"}, native |-> "vulnerability", byTarget |-> "image",
                                    targets |-> FALSE]
    [] source = "falco"         -> [needs |-> {"rule", "event"},
                                    also |-> {"namespace", "container"}, native |-> "event",
                                    byTarget |-> "", targets |-> TRUE]
    [] source = "kyverno"       -> [needs |-> {"policy", "rule", "path", "resource"},
                                    also |-> {}, native |-> "", byTarget |-> "", targets |-> FALSE]
    [] source = "opa_gatekeeper" -> [needs |-> {"template", "constraint", "path", "resource"},
                                     also |-> {}, native |-> "", byTarget |-> "", targets |-> FALSE]
    [] source = "health_check"  -> [needs |-> {"schedule", "probe"}, also |-> {}, native |-> "schedule",
                                    byTarget |-> "probe", targets |-> FALSE]
    [] OTHER                    -> [needs |-> {"native"}, also |-> {}, native |-> "native",
                                    byTarget |-> "", targets |-> FALSE]

ExactKinds == {"resource", "service", "deployment"}
ExactTargets(s) == {t \in s.targets : t.kind \in ExactKinds}

(* The value of one field, or the set of none.                             *)
Field(s, f) ==
  LET by == Identifying(s.source)
  IN IF f \in DOMAIN s.payload THEN {s.payload[f]}
     ELSE IF f = by.native /\ s.native # NoNative THEN {s.native}
     ELSE IF f = by.byTarget /\ ExactTargets(s) # {}
          THEN {CHOOSE t \in ExactTargets(s) : TRUE}
     ELSE IF f = "probe" /\ "schedule" \in DOMAIN s.payload
          THEN {s.payload["schedule"]}
     ELSE IF f = "probe" /\ s.native # NoNative THEN {s.native} ELSE {}

Identity(s) ==
  LET by == Identifying(s.source)
  IN CASE /\ \A f \in by.needs : Field(s, f) # {}
          /\ by.targets => ExactTargets(s) # {}
            -> [source |-> s.source,
                fields |-> [f \in by.needs \cup (by.also \cap DOMAIN s.payload) |->
                              CHOOSE v \in Field(s, f) : TRUE],
                targets |-> IF by.targets \/ s.source = "other" THEN ExactTargets(s) ELSE {}]
       [] s.source = "alertmanager" /\ Field(s, "fingerprint") = {} /\ ExactTargets(s) # {}
            -> [source |-> s.source, fields |-> [source_digest |-> s.digest],
                targets |-> ExactTargets(s)]
       [] OTHER -> Unidentified

(* One native identifier and revision with two contents, or one identifier *)
(* twice, refuses the whole set.                                           *)
Contradicts(a, b) ==
  \/ a # b /\ a.id = b.id
  \/ /\ a.source = b.source /\ a.native = b.native /\ a.native # NoNative
     /\ a.revision = b.revision /\ a.digest # b.digest

(* And so does one signal whose identity would hold an unsafe value.       *)
UnsafeIdentity(s) ==
  LET i == Identity(s) IN i # Unidentified /\ \E f \in DOMAIN i.fields : i.fields[f] \in Unsafe

Deduplicable(signals) ==
  /\ \A a, b \in signals : ~Contradicts(a, b)
  /\ \A s \in signals : ~UnsafeIdentity(s)

-----------------------------------------------------------------------------
(* Suppression: rules match the selectors they have, maintenance windows   *)
(* match the time of the event; both only inside their scope.              *)
Selects(r, s) ==
  /\ r.enabled
  /\ r.scope = s.scope
  /\ r.source \in {"any", s.source}
  /\ r.targets = {} \/ r.targets \cap s.targets # {}

InMaintenance(w, s) ==
  Selects(w, s) /\ s.observed # NoTime /\ s.observed >= w.start /\ s.observed < w.end

Suppressed(s, rules, maintenance) ==
  (\E r \in rules : Selects(r, s)) \/ (\E w \in maintenance : InMaintenance(w, s))
=============================================================================
