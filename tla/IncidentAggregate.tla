------------------------- MODULE IncidentAggregate -------------------------
(***************************************************************************)
(* The incident aggregate of crates/thalassa-domain: what one accepted     *)
(* command makes of an incident row and which timeline events it appends.  *)
(* Pure operators; the state machines of IncidentLog and IncidentStore are *)
(* built from them.                                                        *)
(*                                                                         *)
(* Data the properties never tell apart is abstracted: an impact           *)
(* assessment is a member of Impacts with the severity DeriveSeverity      *)
(* gives it, and the texts, evidence lists and numeric bounds a validator  *)
(* asks of a command are one flag, cmd.complete.  Actor and policy version *)
(* are those of the single local principal and are left out.  An optional  *)
(* value is a set of at most one element.                                  *)
(***************************************************************************)
EXTENDS Naturals, Sequences, FiniteSets

CONSTANTS
    IncidentIds,    \* UUIDs an incident may be given
    RequestIds,     \* client request identifiers
    Principals,     \* principals a command may name
    Members,        \* those the workspace membership grants access
    Impacts,        \* Business Impact assessments
    Severities,     \* S1 .. S5
    DeriveSeverity, \* the severity an assessment evaluates to
    Bodies          \* comment texts

ASSUME MembersAssumption == Members \subseteq Principals
ASSUME DeriveAssumption == DeriveSeverity \in [Impacts -> Severities]

Statuses == {"detected", "triage", "investigating", "mitigating",
             "monitoring", "resolved", "closed", "reopened"}

\* The canonical lifecycle edges, IncidentTransition::edge_allowed.
Edges == { <<"detected", "triage">>, <<"triage", "investigating">>,
           <<"investigating", "mitigating">>, <<"mitigating", "monitoring">>,
           <<"monitoring", "resolved">>, <<"resolved", "closed">>,
           <<"monitoring", "reopened">>, <<"resolved", "reopened">>,
           <<"closed", "reopened">>, <<"reopened", "investigating">> }

Roles == {"owner", "incident_commander", "technical_lead",
          "communications_lead", "approver", "change_owner", "stakeholder"}
IsExclusive(role) == role # "stakeholder"

Dispositions == {"duplicate", "false_positive", "suppressed", "cancelled",
                 "informational"}

Assignments == Roles \X Principals

-----------------------------------------------------------------------------
(* Commands, as the service parses them from an IPC payload. *)

CreateCommands == [kind : {"create"}, impact : Impacts,
                   roles : SUBSET Assignments, complete : BOOLEAN]
TriageCommands == [kind : {"triage"}, incident : IncidentIds,
                   impact : Impacts, owner : Principals, complete : BOOLEAN]
TransitionCommands == [kind : {"transition"}, incident : IncidentIds,
                       target : Statuses \ {"detected", "triage"},
                       complete : BOOLEAN]
ReassessCommands == [kind : {"reassess"}, incident : IncidentIds,
                     impact : Impacts, complete : BOOLEAN]
OverrideCommands == [kind : {"override"}, incident : IncidentIds,
                     selected : Severities, complete : BOOLEAN]
DispositionCommands == [kind : {"disposition"}, incident : IncidentIds,
                        disposition : Dispositions \cup {"none"},
                        duplicateOf : SUBSET IncidentIds, complete : BOOLEAN]
RoleCommands == [kind : {"assign", "replace", "release"},
                 incident : IncidentIds, role : Roles,
                 principal : Principals, complete : BOOLEAN]
CommentCommands == [kind : {"comment"}, incident : IncidentIds,
                    body : Bodies, complete : BOOLEAN]

VersionedCommands ==
    TriageCommands \cup TransitionCommands \cup ReassessCommands \cup
    OverrideCommands \cup DispositionCommands \cup RoleCommands
Commands == CreateCommands \cup VersionedCommands \cup CommentCommands

-----------------------------------------------------------------------------
(* Rows and events. *)

NoIncident == [version |-> 0]   \* no row is stored under this identifier

IncidentRows == [version : Nat \ {0}, status : Statuses, impact : Impacts,
                 derived : Severities, override : SUBSET Severities,
                 disposition : Dispositions \cup {"none"},
                 duplicateOf : SUBSET IncidentIds,
                 roles : SUBSET Assignments,
                 createdBy : [rid : RequestIds, cmd : CreateCommands]]

Assessments == [impact : Impacts, severity : Severities,
                override : SUBSET Severities]
StatusPayloads == [from : Statuses, to : Statuses, by : VersionedCommands]
SeverityPayloads == [before : Assessments, after : Assessments]
DispositionPayloads == [before : Dispositions \cup {"none"},
                        after : Dispositions \cup {"none"},
                        duplicateOf : SUBSET IncidentIds]
RolePayloads == [role : Roles, previous : SUBSET Principals,
                 current : SUBSET Principals]

\* The events of one request, each under its kind.
TimelineEvents ==
    [rid : RequestIds, kind : {"incident_created"},
     payload : [severity : Severities, roles : SUBSET Assignments]]
    \cup [rid : RequestIds, kind : {"triggers_attached"},
          payload : [attached : BOOLEAN]]
    \cup [rid : RequestIds, kind : {"status_transitioned"},
          payload : StatusPayloads]
    \cup [rid : RequestIds, kind : {"severity_changed"},
          payload : SeverityPayloads]
    \cup [rid : RequestIds, kind : {"disposition_changed"},
          payload : DispositionPayloads]
    \cup [rid : RequestIds, kind : {"role_changed"}, payload : RolePayloads]
    \cup [rid : RequestIds, kind : {"commented"}, payload : [body : Bodies]]

TimelineEvent(rid, kind, payload) ==
    [rid |-> rid, kind |-> kind, payload |-> payload]

HasEvents(t, rid) == \E n \in DOMAIN t : t[n].rid = rid

\* The events of one request, in the order of their sequence.
RequestEvents(t, rid) ==
    LET at == {n \in DOMAIN t : t[n].rid = rid}
        rank(n) == Cardinality({m \in at : m <= n})
    IN  [k \in 1 .. Cardinality(at) |-> t[CHOOSE n \in at : rank(n) = k]]

-----------------------------------------------------------------------------
(* Reading a row. *)

Holders(row, role) == {p \in Principals : <<role, p>> \in row.roles}

CurrentSeverity(row) ==
    IF row.override = {} THEN row.derived
                         ELSE CHOOSE s \in row.override : TRUE

Assessment(row) == [impact |-> row.impact, severity |-> CurrentSeverity(row),
                    override |-> row.override]

Target(cmd) == IF cmd.kind = "triage" THEN "triage" ELSE cmd.target

-----------------------------------------------------------------------------
(* Incident::create *)

CreateAccepted(cmd) ==
    /\ cmd.complete
    /\ \A role \in Roles, p, q \in Principals :
          /\ IsExclusive(role)
          /\ <<role, p>> \in cmd.roles
          /\ <<role, q>> \in cmd.roles
          => p = q

CreatedRow(rid, cmd) ==
    [version |-> 1, status |-> "detected", impact |-> cmd.impact,
     derived |-> DeriveSeverity[cmd.impact], override |-> {},
     disposition |-> "none", duplicateOf |-> {}, roles |-> cmd.roles,
     createdBy |-> [rid |-> rid, cmd |-> cmd]]

CreationEvents(rid, cmd) ==
    << TimelineEvent(rid, "incident_created",
                     [severity |-> DeriveSeverity[cmd.impact],
                      roles |-> cmd.roles]),
       TimelineEvent(rid, "triggers_attached", [attached |-> TRUE]) >>

-----------------------------------------------------------------------------
(* Post-creation commands: when the aggregate accepts one, the row it      *)
(* leads to and the events it appends.                                     *)

TransitionAccepted(row, cmd) == <<row.status, Target(cmd)>> \in Edges

OverrideAccepted(row, cmd) == cmd.selected # row.derived

DispositionAccepted(cmd) ==
    IF cmd.disposition = "duplicate"
    THEN Cardinality(cmd.duplicateOf) = 1 /\ cmd.incident \notin cmd.duplicateOf
    ELSE cmd.duplicateOf = {}

RoleAccepted(row, cmd) ==
    LET holders == Holders(row, cmd.role) IN
    CASE cmd.kind = "assign" ->
            /\ cmd.principal \notin holders
            /\ IsExclusive(cmd.role) => holders = {}
      [] cmd.kind = "replace" ->
            /\ IsExclusive(cmd.role)
            /\ Cardinality(holders) = 1
            /\ cmd.principal \notin holders
      [] cmd.kind = "release" -> cmd.principal \in holders

Accepts(row, cmd) ==
    /\ cmd.complete
    /\ \/ cmd.kind \in {"triage", "transition"} /\ TransitionAccepted(row, cmd)
       \/ cmd.kind = "reassess"
       \/ cmd.kind = "override" /\ OverrideAccepted(row, cmd)
       \/ cmd.kind = "disposition" /\ DispositionAccepted(cmd)
       \/ cmd.kind \in {"assign", "replace", "release"} /\ RoleAccepted(row, cmd)

WithoutRole(row, role) == {a \in row.roles : a[1] # role}

\* Mutant: a reassessment leaves an earlier override in force.
ReassessedKeepsOverride(row, cmd) ==
    [row EXCEPT !.impact = cmd.impact, !.derived = DeriveSeverity[cmd.impact]]

Reassessed(row, cmd) ==
    [row EXCEPT !.impact = cmd.impact, !.override = {},
                !.derived = DeriveSeverity[cmd.impact]]

\* Mutant: triage adds its owner without releasing the previous one.
TriagedAddsOwner(row, cmd) ==
    [Reassessed(row, cmd) EXCEPT !.status = "triage",
        !.roles = @ \cup {<<"owner", cmd.owner>>}]

\* Triage reassesses and hands the owner role over.
Triaged(row, cmd) ==
    [Reassessed(row, cmd) EXCEPT !.status = "triage",
        !.roles = IF Holders(row, "owner") = {cmd.owner} THEN @
                  ELSE WithoutRole(row, "owner")
                         \cup {<<"owner", cmd.owner>>}]

RoleApplied(row, cmd) ==
    [row EXCEPT !.roles =
        CASE cmd.kind = "assign"  -> @ \cup {<<cmd.role, cmd.principal>>}
          [] cmd.kind = "replace" -> WithoutRole(row, cmd.role)
                                       \cup {<<cmd.role, cmd.principal>>}
          [] cmd.kind = "release" -> @ \ {<<cmd.role, cmd.principal>>}]

\* The fields an accepted command writes.
Changed(row, cmd) ==
    CASE cmd.kind = "triage" -> Triaged(row, cmd)
      [] cmd.kind = "transition" -> [row EXCEPT !.status = cmd.target]
      [] cmd.kind = "reassess" -> Reassessed(row, cmd)
      [] cmd.kind = "override" -> [row EXCEPT !.override = {cmd.selected}]
      [] cmd.kind = "disposition" ->
           [row EXCEPT !.disposition = cmd.disposition,
                       !.duplicateOf = cmd.duplicateOf]
      [] cmd.kind \in {"assign", "replace", "release"} -> RoleApplied(row, cmd)

Advanced(row) == [row EXCEPT !.version = @ + 1]

\* Mutant: role commands, having a table of their own, do not advance the
\* version.
AppliedRolesUnversioned(row, cmd) ==
    IF cmd.kind \in {"assign", "replace", "release"}
    THEN Changed(row, cmd) ELSE Advanced(Changed(row, cmd))

\* The row an accepted command leads to: every one advances the version.
Applied(row, cmd) == Advanced(Changed(row, cmd))

StatusEvent(row, rid, cmd) ==
    TimelineEvent(rid, "status_transitioned",
                  [from |-> row.status, to |-> Target(cmd), by |-> cmd])

SeverityEvent(row, rid, cmd) ==
    TimelineEvent(rid, "severity_changed",
                  [before |-> Assessment(row),
                   after |-> Assessment(Applied(row, cmd))])

RoleEvent(row, rid, role, previous, current) ==
    TimelineEvent(rid, "role_changed",
                  [role |-> role, previous |-> previous, current |-> current])

\* Mutant: triage records a severity change only when the value changes,
\* not when it merely drops an override.
TransitionEventsByValue(row, rid, cmd) ==
    << StatusEvent(row, rid, cmd) >>
    \o (IF cmd.kind = "triage"
           /\ CurrentSeverity(Applied(row, cmd)) # CurrentSeverity(row)
        THEN << SeverityEvent(row, rid, cmd) >> ELSE << >>)
    \o (IF cmd.kind = "triage" /\ Holders(row, "owner") # {cmd.owner}
        THEN << RoleEvent(row, rid, "owner", Holders(row, "owner"),
                          {cmd.owner}) >> ELSE << >>)

\* Triage appends a severity and a role event only for what it changes.
TransitionEvents(row, rid, cmd) ==
    << StatusEvent(row, rid, cmd) >>
    \o (IF cmd.kind = "triage"
           /\ Assessment(Applied(row, cmd)) # Assessment(row)
        THEN << SeverityEvent(row, rid, cmd) >> ELSE << >>)
    \o (IF cmd.kind = "triage" /\ Holders(row, "owner") # {cmd.owner}
        THEN << RoleEvent(row, rid, "owner", Holders(row, "owner"),
                          {cmd.owner}) >> ELSE << >>)

DispositionEvent(row, rid, cmd) ==
    TimelineEvent(rid, "disposition_changed",
                  [before |-> row.disposition, after |-> cmd.disposition,
                   duplicateOf |-> cmd.duplicateOf])

\* What assign_role records as previous: nobody, the one holder replaced, or
\* the principal released.
RoleCommandEvent(row, rid, cmd) ==
    CASE cmd.kind = "assign" ->
            RoleEvent(row, rid, cmd.role, {}, {cmd.principal})
      [] cmd.kind = "replace" ->
            RoleEvent(row, rid, cmd.role, Holders(row, cmd.role),
                      {cmd.principal})
      [] cmd.kind = "release" ->
            RoleEvent(row, rid, cmd.role, {cmd.principal}, {})

Events(row, rid, cmd) ==
    CASE cmd.kind \in {"triage", "transition"} -> TransitionEvents(row, rid, cmd)
      [] cmd.kind \in {"reassess", "override"} ->
            << SeverityEvent(row, rid, cmd) >>
      [] cmd.kind = "disposition" -> << DispositionEvent(row, rid, cmd) >>
      [] cmd.kind \in {"assign", "replace", "release"} ->
            << RoleCommandEvent(row, rid, cmd) >>

CommentEvents(rid, cmd) ==
    << TimelineEvent(rid, "commented", [body |-> cmd.body]) >>

-----------------------------------------------------------------------------
(* What the repository re-reads before it writes: the duplicate target and *)
(* the principals a role event names.                                      *)

\* Mutant: only the principals are re-read, not the duplicate target.
PrincipalsKnown(rows, row, evs) ==
    \A n \in DOMAIN evs : evs[n].kind = "role_changed" =>
        evs[n].payload.current \subseteq Members

ReferencesKnown(rows, row, evs) ==
    /\ row.disposition = "duplicate" =>
          \A d \in row.duplicateOf : rows[d].version > 0
    /\ \A n \in DOMAIN evs : evs[n].kind = "role_changed" =>
          evs[n].payload.current \subseteq Members
=============================================================================
