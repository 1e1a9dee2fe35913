---------------------------- MODULE IncidentLog ----------------------------
(***************************************************************************)
(* What the incident write model promises: every accepted request takes    *)
(* effect once, in one indivisible step, on the current row of its         *)
(* incident, and leaves its events at the end of that incident's timeline. *)
(* Callers, snapshots, locks, retries and crashes are IncidentStore's      *)
(* business; that it implements this specification is checked and proved.  *)
(*                                                                         *)
(* The module also carries the invariants of the lifecycle itself, which   *)
(* need no concurrency to go wrong.                                        *)
(***************************************************************************)
EXTENDS IncidentAggregate

CONSTANT Requests   \* the requests that may arrive: [rid, cmd] records

ASSUME RequestsAssumption == Requests \subseteq [rid : RequestIds, cmd : Commands]

VARIABLES incident, \* incident[i]: the stored row, or NoIncident
          timeline  \* timeline[i]: the events of incident i, by sequence

logVars == <<incident, timeline>>

Exists(i) == incident[i] # NoIncident

LogInit == /\ incident = [i \in IncidentIds |-> NoIncident]
           /\ timeline = [i \in IncidentIds |-> << >>]

\* A creation request names no incident: a fresh identifier is minted, and
\* the request identifier is unique among creations.
Create(i, r) ==
    /\ r.cmd.kind = "create"
    /\ ~Exists(i)
    /\ \A j \in IncidentIds : Exists(j) => incident[j].createdBy.rid # r.rid
    /\ CreateAccepted(r.cmd)
    /\ incident' = [incident EXCEPT ![i] = CreatedRow(r.rid, r.cmd)]
    /\ timeline' = [timeline EXCEPT ![i] = CreationEvents(r.rid, r.cmd)]

\* A versioned command applies to the current row, or not at all.
Mutate(r) ==
    LET i == r.cmd.incident IN
    /\ r.cmd \in VersionedCommands
    /\ Exists(i)
    /\ ~HasEvents(timeline[i], r.rid)
    /\ Accepts(incident[i], r.cmd)
    /\ ReferencesKnown(incident, Applied(incident[i], r.cmd),
                       Events(incident[i], r.rid, r.cmd))
    /\ incident' = [incident EXCEPT ![i] = Applied(@, r.cmd)]
    /\ timeline' = [timeline EXCEPT ![i] =
                       @ \o Events(incident[i], r.rid, r.cmd)]

\* A comment changes no versioned state.
Comment(r) ==
    LET i == r.cmd.incident IN
    /\ r.cmd.kind = "comment"
    /\ r.cmd.complete
    /\ Exists(i)
    /\ ~HasEvents(timeline[i], r.rid)
    /\ timeline' = [timeline EXCEPT ![i] = @ \o CommentEvents(r.rid, r.cmd)]
    /\ UNCHANGED incident

LogNext == \E r \in Requests : \/ \E i \in IncidentIds : Create(i, r)
                               \/ Mutate(r)
                               \/ Comment(r)

\* Accepted requests take effect once, indivisibly, on the row of that
\* moment.  IncidentStore adds its own variables to these two and is checked
\* and proved to satisfy this formula.
LogSpec == LogInit /\ [][LogNext]_logVars

-----------------------------------------------------------------------------

LogTypeOK ==
    /\ incident \in [IncidentIds -> IncidentRows \cup {NoIncident}]
    /\ timeline \in [IncidentIds -> Seq(TimelineEvents)]

\* A current severity is an explicit override only while it disagrees with
\* the severity derived from the impact on record: reassessing or triaging
\* to an impact that derives the selected value may not leave the override.
OverrideIsDisagreement ==
    \A i \in IncidentIds : Exists(i) =>
        /\ incident[i].derived = DeriveSeverity[incident[i].impact]
        /\ incident[i].derived \notin incident[i].override

\* Whatever path of assign, replace, release, triage and creation led there,
\* an exclusive role has at most one holder (the partial unique index of
\* 0006_incidents.sql would otherwise abort the write).
ExclusiveRolesHeldOnce ==
    \A i \in IncidentIds : Exists(i) =>
        \A role \in Roles, p, q \in Principals :
            /\ IsExclusive(role)
            /\ <<role, p>> \in incident[i].roles
            /\ <<role, q>> \in incident[i].roles
            => p = q

\* A disposition names a duplicate target exactly when it is "duplicate",
\* and that target is another stored incident.
DuplicateTargetStored ==
    \A i \in IncidentIds : Exists(i) =>
        LET row == incident[i] IN
        /\ row.disposition = "duplicate" <=> row.duplicateOf # {}
        /\ \A d \in row.duplicateOf : d # i /\ Exists(d)

-----------------------------------------------------------------------------
(* The audit trail explains the row: folding the timeline from nothing     *)
(* gives the row's status, severity, disposition and roles, every event's  *)
(* before-value being what the fold had reached.                           *)

Blank == [ok |-> TRUE, status |-> "none", severity |-> "none",
          override |-> {}, disposition |-> "none", roles |-> {}]

Audit(acc, e) ==
    CASE e.kind = "incident_created" ->
           [acc EXCEPT !.status = "detected", !.severity = e.payload.severity,
                       !.roles = e.payload.roles, !.ok = @ /\ acc = Blank]
      [] e.kind = "status_transitioned" ->
           [acc EXCEPT !.status = e.payload.to,
                       !.ok = @ /\ acc.status = e.payload.from]
      [] e.kind = "severity_changed" ->
           [acc EXCEPT !.severity = e.payload.after.severity,
                       !.override = e.payload.after.override,
                       !.ok = @ /\ acc.severity = e.payload.before.severity
                                /\ acc.override = e.payload.before.override]
      [] e.kind = "disposition_changed" ->
           [acc EXCEPT !.disposition = e.payload.after,
                       !.ok = @ /\ acc.disposition = e.payload.before]
      [] e.kind = "role_changed" ->
           [acc EXCEPT !.roles =
                (@ \ {<<e.payload.role, p>> : p \in e.payload.previous})
                  \cup {<<e.payload.role, p>> : p \in e.payload.current},
              !.ok = @ /\ {<<e.payload.role, p>> : p \in e.payload.previous}
                            \subseteq acc.roles]
      [] OTHER -> acc

Folded(t) ==
    LET acc[n \in 0 .. Len(t)] ==
          IF n = 0 THEN Blank ELSE Audit(acc[n - 1], t[n])
    IN  acc[Len(t)]

\* Every stored row is the fold of its own timeline: a responder reading the
\* audit trail sees exactly how the row came about.
TimelineExplainsRow ==
    \A i \in IncidentIds :
        LET row == incident[i]
            told == Folded(timeline[i])
        IN  IF Exists(i)
            THEN told = [ok |-> TRUE, status |-> row.status,
                         severity |-> CurrentSeverity(row),
                         override |-> row.override,
                         disposition |-> row.disposition,
                         roles |-> row.roles]
            ELSE timeline[i] = << >>
=============================================================================
