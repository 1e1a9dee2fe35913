--------------------------- MODULE IncidentProofs ---------------------------
(***************************************************************************)
(* The incident component, from its rows to what its readers are shown:    *)
(* what the aggregate's operators return and preserve for every row and    *)
(* command; what every behaviour of IncidentLog keeps, whatever requests   *)
(* arrive; that the concurrent store implements IncidentLog: every commit  *)
(* is one of its steps and everything else a stutter, whatever number of   *)
(* callers interleave, crash and repeat themselves; and the timeline hook, *)
(* alone and inside the shell of the workspace, for any number of          *)
(* incidents, events and requests and any page size.                       *)
(***************************************************************************)
EXTENDS IncidentStore, IncidentWorkspace, SequenceTheorems, FiniteSetTheorems,
        WellFoundedInduction, TLAPS

-----------------------------------------------------------------------------
(***************************************************************************)
(* The aggregate                                                           *)
(***************************************************************************)

\* An exclusive role is held once, as a property of one row.
ExclusiveRow(row) ==
    \A role \in Roles, p, q \in Principals :
        /\ IsExclusive(role)
        /\ <<role, p>> \in row.roles
        /\ <<role, q>> \in row.roles
        => p = q

\* The derived severity is that of the impact, and an override disagrees.
SeverityRow(row) ==
    /\ row.derived = DeriveSeverity[row.impact]
    /\ row.derived \notin row.override

\* The kinds of a versioned command.
LEMMA VersionedKinds ==
    ASSUME NEW cmd \in VersionedCommands
    PROVE  /\ \/ cmd.kind = "triage" /\ cmd \in TriageCommands
              \/ cmd.kind = "transition" /\ cmd \in TransitionCommands
              \/ cmd.kind = "reassess" /\ cmd \in ReassessCommands
              \/ cmd.kind = "override" /\ cmd \in OverrideCommands
              \/ cmd.kind = "disposition" /\ cmd \in DispositionCommands
              \/ cmd.kind \in {"assign", "replace", "release"}
                   /\ cmd \in RoleCommands
           /\ cmd.incident \in IncidentIds
           /\ cmd.kind # "create"
           /\ cmd.kind # "comment"
BY DEF VersionedCommands, TriageCommands, TransitionCommands, ReassessCommands,
       OverrideCommands, DispositionCommands, RoleCommands

\* A row no command has touched is well formed: Incident::create.
LEMMA CreatedRowType ==
    ASSUME NEW rid \in RequestIds, NEW cmd \in CreateCommands
    PROVE  CreatedRow(rid, cmd) \in IncidentRows
BY DeriveAssumption
   DEF CreatedRow, IncidentRows, CreateCommands, Statuses, Dispositions

\* What Changed is, one kind of command at a time.
LEMMA ChangedForms ==
    ASSUME NEW row, NEW cmd
    PROVE  /\ cmd.kind = "triage" => Changed(row, cmd) = Triaged(row, cmd)
           /\ cmd.kind = "transition" =>
                 Changed(row, cmd) = [row EXCEPT !.status = cmd.target]
           /\ cmd.kind = "reassess" => Changed(row, cmd) = Reassessed(row, cmd)
           /\ cmd.kind = "override" =>
                 Changed(row, cmd) = [row EXCEPT !.override = {cmd.selected}]
           /\ cmd.kind = "disposition" =>
                 Changed(row, cmd) = [row EXCEPT
                    !.disposition = cmd.disposition,
                    !.duplicateOf = cmd.duplicateOf]
           /\ cmd.kind \in {"assign", "replace", "release"} =>
                 Changed(row, cmd) = RoleApplied(row, cmd)
<1>1. cmd.kind = "triage" => Changed(row, cmd) = Triaged(row, cmd)
  BY DEF Changed
<1>2. cmd.kind = "transition" =>
        Changed(row, cmd) = [row EXCEPT !.status = cmd.target]
  BY DEF Changed
<1>3. cmd.kind = "reassess" => Changed(row, cmd) = Reassessed(row, cmd)
  BY DEF Changed
<1>4. cmd.kind = "override" =>
        Changed(row, cmd) = [row EXCEPT !.override = {cmd.selected}]
  BY DEF Changed
<1>5. cmd.kind = "disposition" =>
        Changed(row, cmd) = [row EXCEPT !.disposition = cmd.disposition,
                                        !.duplicateOf = cmd.duplicateOf]
  BY DEF Changed
<1>6. cmd.kind \in {"assign", "replace", "release"} =>
        Changed(row, cmd) = RoleApplied(row, cmd)
  BY DEF Changed
<1> QED BY <1>1, <1>2, <1>3, <1>4, <1>5, <1>6

\* The two-field update of triage keeps a row a row.
LEMMA StatusAndRolesType ==
    ASSUME NEW row \in IncidentRows, NEW status \in Statuses,
           NEW roles \in SUBSET Assignments
    PROVE  LET after == [row EXCEPT !.status = status, !.roles = roles] IN
           /\ after \in IncidentRows
           /\ after.version = row.version
           /\ after.createdBy = row.createdBy
BY DEF IncidentRows

\* Nor does a reassessment take more than the impact, the severity derived
\* from it and the override.
LEMMA ReassessedType ==
    ASSUME NEW row \in IncidentRows, NEW cmd, cmd.impact \in Impacts
    PROVE  /\ Reassessed(row, cmd) \in IncidentRows
           /\ Reassessed(row, cmd).version = row.version
           /\ Reassessed(row, cmd).createdBy = row.createdBy
BY DeriveAssumption DEF Reassessed, IncidentRows

\* Whatever fields a command writes, the row stays a row, with its version
\* and its creation record.
LEMMA ChangedType ==
    ASSUME NEW row \in IncidentRows, NEW cmd \in VersionedCommands
    PROVE  /\ Changed(row, cmd) \in IncidentRows
           /\ Changed(row, cmd).version = row.version
           /\ Changed(row, cmd).createdBy = row.createdBy
<1> USE DeriveAssumption DEF IncidentRows
<1>1. CASE cmd.kind = "triage" /\ cmd \in TriageCommands
  <2>1. <<"owner", cmd.owner>> \in Assignments
    BY <1>1 DEF TriageCommands, Assignments, Roles
  <2>2. WithoutRole(row, "owner") \subseteq Assignments
    BY DEF WithoutRole
  <2>3. Changed(row, cmd) = Triaged(row, cmd)
    BY <1>1, ChangedForms
  <2>4. cmd.impact \in Impacts
    BY <1>1 DEF TriageCommands
  <2>5. PICK roles \in SUBSET Assignments :
           Triaged(row, cmd) =
              [Reassessed(row, cmd) EXCEPT !.status = "triage", !.roles = roles]
    BY <2>1, <2>2 DEF Triaged, Reassessed
  <2>6. /\ Reassessed(row, cmd) \in IncidentRows
        /\ Reassessed(row, cmd).version = row.version
        /\ Reassessed(row, cmd).createdBy = row.createdBy
    <3> HIDE DEF IncidentRows
    <3> QED BY <2>4, ReassessedType
  <2>7. "triage" \in Statuses
    BY DEF Statuses
  <2> HIDE DEF IncidentRows
  <2>8. LET after == [Reassessed(row, cmd) EXCEPT !.status = "triage",
                                                  !.roles = roles] IN
        /\ after \in IncidentRows
        /\ after.version = Reassessed(row, cmd).version
        /\ after.createdBy = Reassessed(row, cmd).createdBy
    BY <2>6, <2>7, StatusAndRolesType
  <2> QED BY <2>3, <2>5, <2>6, <2>8
<1>2. CASE cmd.kind = "transition" /\ cmd \in TransitionCommands
  <2>1. Changed(row, cmd) = [row EXCEPT !.status = cmd.target]
    BY <1>2, ChangedForms
  <2>2. cmd.target \in Statuses
    BY <1>2 DEF TransitionCommands
  <2> QED BY <2>1, <2>2
<1>3. CASE cmd.kind = "reassess" /\ cmd \in ReassessCommands
  <2>1. Changed(row, cmd) = Reassessed(row, cmd)
    BY <1>3, ChangedForms
  <2>2. cmd.impact \in Impacts
    BY <1>3 DEF ReassessCommands
  <2> HIDE DEF IncidentRows
  <2> QED BY <2>1, <2>2, ReassessedType
<1>4. CASE cmd.kind = "override" /\ cmd \in OverrideCommands
  <2>1. Changed(row, cmd) = [row EXCEPT !.override = {cmd.selected}]
    BY <1>4, ChangedForms
  <2>2. cmd.selected \in Severities
    BY <1>4 DEF OverrideCommands
  <2> QED BY <2>1, <2>2
<1>5. CASE cmd.kind = "disposition" /\ cmd \in DispositionCommands
  <2>1. Changed(row, cmd) = [row EXCEPT !.disposition = cmd.disposition,
                                        !.duplicateOf = cmd.duplicateOf]
    BY <1>5, ChangedForms
  <2>2. cmd.disposition \in Dispositions \cup {"none"}
        /\ cmd.duplicateOf \in SUBSET IncidentIds
    BY <1>5 DEF DispositionCommands
  <2> QED BY <2>1, <2>2
<1>6. CASE cmd.kind \in {"assign", "replace", "release"} /\ cmd \in RoleCommands
  <2>1. <<cmd.role, cmd.principal>> \in Assignments
    BY <1>6 DEF RoleCommands, Assignments
  <2>2. WithoutRole(row, cmd.role) \subseteq Assignments
    BY DEF WithoutRole
  <2>3. Changed(row, cmd) = RoleApplied(row, cmd)
    BY <1>6, ChangedForms
  <2>4. PICK roles \in SUBSET Assignments :
           RoleApplied(row, cmd) = [row EXCEPT !.roles = roles]
    BY <1>6, <2>1, <2>2 DEF RoleApplied
  <2> QED BY <2>3, <2>4
<1> QED BY <1>1, <1>2, <1>3, <1>4, <1>5, <1>6, VersionedKinds

\* An accepted command leads from a row to a row, one version on, with the
\* same creation record.
LEMMA AppliedType ==
    ASSUME NEW row \in IncidentRows, NEW cmd \in VersionedCommands
    PROVE  /\ Applied(row, cmd) \in IncidentRows
           /\ Applied(row, cmd).version = row.version + 1
           /\ Applied(row, cmd).createdBy = row.createdBy
BY ChangedType DEF Applied, Advanced, IncidentRows

\* The severity assessment of a row, as events record it.
LEMMA AssessmentType ==
    ASSUME NEW row \in IncidentRows
    PROVE  Assessment(row) \in Assessments
<1>1. CurrentSeverity(row) \in Severities
  <2>1. CASE row.override = {}
    BY <2>1 DEF CurrentSeverity, IncidentRows
  <2>2. CASE row.override # {}
    <3>1. (CHOOSE s \in row.override : TRUE) \in row.override
      BY <2>2
    <3> QED BY <2>2, <3>1 DEF CurrentSeverity, IncidentRows
  <2> QED BY <2>1, <2>2
<1> QED BY <1>1 DEF Assessment, Assessments, IncidentRows

\* Each event a command appends is a timeline event of its request.
LEMMA EventType ==
    ASSUME NEW row \in IncidentRows, NEW rid \in RequestIds,
           NEW cmd \in VersionedCommands
    PROVE  /\ cmd.kind \in {"triage", "transition"} =>
                 StatusEvent(row, rid, cmd) \in TimelineEvents
           /\ SeverityEvent(row, rid, cmd) \in TimelineEvents
           /\ cmd.kind = "triage" =>
                 RoleEvent(row, rid, "owner", Holders(row, "owner"),
                           {cmd.owner}) \in TimelineEvents
           /\ cmd.kind = "disposition" =>
                 DispositionEvent(row, rid, cmd) \in TimelineEvents
           /\ cmd.kind \in {"assign", "replace", "release"} =>
                 RoleCommandEvent(row, rid, cmd) \in TimelineEvents
<1>1. ASSUME cmd.kind \in {"triage", "transition"}
      PROVE  StatusEvent(row, rid, cmd) \in TimelineEvents
  <2>1. Target(cmd) \in Statuses
    BY <1>1, VersionedKinds DEF Target, TransitionCommands, Statuses
  <2>2. row.status \in Statuses
    BY DEF IncidentRows
  <2>3. [from |-> row.status, to |-> Target(cmd), by |-> cmd] \in StatusPayloads
    BY <2>1, <2>2 DEF StatusPayloads
  <2> QED BY <2>3 DEF StatusEvent, TimelineEvent, TimelineEvents
<1>2. SeverityEvent(row, rid, cmd) \in TimelineEvents
  <2>1. [before |-> Assessment(row), after |-> Assessment(Applied(row, cmd))]
          \in SeverityPayloads
    BY AppliedType, AssessmentType DEF SeverityPayloads
  <2> QED BY <2>1 DEF SeverityEvent, TimelineEvent, TimelineEvents
<1>3. ASSUME NEW role \in Roles, NEW previous \in SUBSET Principals,
             NEW current \in SUBSET Principals
      PROVE  RoleEvent(row, rid, role, previous, current) \in TimelineEvents
  <2>1. [role |-> role, previous |-> previous, current |-> current]
          \in RolePayloads
    BY DEF RolePayloads
  <2> QED BY <2>1 DEF RoleEvent, TimelineEvent, TimelineEvents
<1>4. \A role : Holders(row, role) \in SUBSET Principals
  BY DEF Holders
<1>5. ASSUME cmd.kind = "triage"
      PROVE  RoleEvent(row, rid, "owner", Holders(row, "owner"), {cmd.owner})
                \in TimelineEvents
  <2>1. {cmd.owner} \in SUBSET Principals /\ "owner" \in Roles
    BY <1>5, VersionedKinds DEF TriageCommands, Roles
  <2> QED BY <2>1, <1>3, <1>4
<1>6. ASSUME cmd.kind = "disposition"
      PROVE  DispositionEvent(row, rid, cmd) \in TimelineEvents
  <2>1. [before |-> row.disposition, after |-> cmd.disposition,
         duplicateOf |-> cmd.duplicateOf] \in DispositionPayloads
    BY <1>6, VersionedKinds
       DEF DispositionPayloads, DispositionCommands, IncidentRows
  <2> QED BY <2>1 DEF DispositionEvent, TimelineEvent, TimelineEvents
<1>7. ASSUME cmd.kind \in {"assign", "replace", "release"}
      PROVE  RoleCommandEvent(row, rid, cmd) \in TimelineEvents
  <2>1. /\ cmd.role \in Roles
        /\ {cmd.principal} \in SUBSET Principals
        /\ {} \in SUBSET Principals
    BY <1>7, VersionedKinds DEF RoleCommands
  <2>2. CASE cmd.kind = "assign"
    BY <2>1, <2>2, <1>3 DEF RoleCommandEvent
  <2>3. CASE cmd.kind = "replace"
    BY <2>1, <2>3, <1>3, <1>4 DEF RoleCommandEvent
  <2>4. CASE cmd.kind = "release"
    BY <2>1, <2>4, <1>3 DEF RoleCommandEvent
  <2> QED BY <1>7, <2>2, <2>3, <2>4
<1> QED BY <1>1, <1>2, <1>5, <1>6, <1>7

\* Is a non-empty sequence of timeline events of one request.
RequestSeq(evs, rid) ==
    /\ evs \in Seq(TimelineEvents)
    /\ Len(evs) >= 1
    /\ \A n \in 1 .. Len(evs) : evs[n].rid = rid

LEMMA OneEvent ==
    ASSUME NEW rid, NEW e \in TimelineEvents, e.rid = rid
    PROVE  RequestSeq(<< e >>, rid)
BY DEF RequestSeq

\* Appending the events of the same request keeps them its events.
LEMMA MoreEvents ==
    ASSUME NEW rid, NEW evs, RequestSeq(evs, rid),
           NEW e \in TimelineEvents, e.rid = rid
    PROVE  /\ RequestSeq(evs \o << e >>, rid)
           /\ RequestSeq(evs \o << >>, rid)
BY DEF RequestSeq

\* The timeline is only ever given events, at least one, all of the request.
LEMMA EventsType ==
    ASSUME NEW row \in IncidentRows, NEW rid \in RequestIds,
           NEW cmd \in VersionedCommands
    PROVE  RequestSeq(Events(row, rid, cmd), rid)
<1>1. CASE cmd.kind \in {"triage", "transition"}
  <2> DEFINE status == StatusEvent(row, rid, cmd)
             severity == SeverityEvent(row, rid, cmd)
             owner == RoleEvent(row, rid, "owner", Holders(row, "owner"),
                                {cmd.owner})
             second == IF cmd.kind = "triage"
                          /\ Assessment(Applied(row, cmd)) # Assessment(row)
                       THEN << severity >> ELSE << >>
             third == IF cmd.kind = "triage"
                         /\ Holders(row, "owner") # {cmd.owner}
                      THEN << owner >> ELSE << >>
  <2>1. RequestSeq(<< status >>, rid)
    BY <1>1, EventType, OneEvent DEF StatusEvent, TimelineEvent
  <2>2. RequestSeq(<< status >> \o second, rid)
    <3>1. severity \in TimelineEvents /\ severity.rid = rid
      BY EventType DEF SeverityEvent, TimelineEvent
    <3> QED BY <2>1, <3>1, MoreEvents
  <2>3. RequestSeq((<< status >> \o second) \o third, rid)
    <3>1. CASE third = << >>
      BY <3>1, <2>2, MoreEvents, <2>1 DEF RequestSeq
    <3>2. CASE third = << owner >> /\ cmd.kind = "triage"
      <4>1. owner \in TimelineEvents /\ owner.rid = rid
        BY <3>2, EventType DEF RoleEvent, TimelineEvent
      <4> HIDE DEF owner, second, status
      <4> QED BY <2>2, <3>2, <4>1, MoreEvents
    <3> QED BY <3>1, <3>2
  <2>4. Events(row, rid, cmd) = (<< status >> \o second) \o third
    BY <1>1 DEF Events, TransitionEvents
  <2> QED BY <2>3, <2>4
<1>2. CASE cmd.kind \in {"reassess", "override"}
  <2>1. Events(row, rid, cmd) = << SeverityEvent(row, rid, cmd) >>
    BY <1>2 DEF Events
  <2> QED BY <2>1, EventType, OneEvent DEF SeverityEvent, TimelineEvent
<1>3. CASE cmd.kind = "disposition"
  <2>1. Events(row, rid, cmd) = << DispositionEvent(row, rid, cmd) >>
    BY <1>3 DEF Events
  <2> QED BY <1>3, <2>1, EventType, OneEvent
      DEF DispositionEvent, TimelineEvent
<1>4. CASE cmd.kind \in {"assign", "replace", "release"}
  <2>1. Events(row, rid, cmd) = << RoleCommandEvent(row, rid, cmd) >>
    BY <1>4 DEF Events
  <2>2. RoleCommandEvent(row, rid, cmd).rid = rid
    BY <1>4 DEF RoleCommandEvent, RoleEvent, TimelineEvent
  <2> QED BY <1>4, <2>1, <2>2, EventType, OneEvent
<1> QED BY <1>1, <1>2, <1>3, <1>4, VersionedKinds

LEMMA CreationEventsType ==
    ASSUME NEW rid \in RequestIds, NEW cmd \in CreateCommands
    PROVE  CreationEvents(rid, cmd) \in Seq(TimelineEvents)
<1>1. DeriveSeverity[cmd.impact] \in Severities /\ cmd.roles \in SUBSET Assignments
  BY DeriveAssumption DEF CreateCommands
<1>2. TimelineEvent(rid, "incident_created",
                    [severity |-> DeriveSeverity[cmd.impact],
                     roles |-> cmd.roles]) \in TimelineEvents
  BY <1>1 DEF TimelineEvent, TimelineEvents
<1>3. TimelineEvent(rid, "triggers_attached", [attached |-> TRUE])
        \in TimelineEvents
  BY DEF TimelineEvent, TimelineEvents
<1> QED BY <1>2, <1>3 DEF CreationEvents

LEMMA CommentEventsType ==
    ASSUME NEW rid \in RequestIds, NEW cmd \in CommentCommands
    PROVE  RequestSeq(CommentEvents(rid, cmd), rid)
<1>1. TimelineEvent(rid, "commented", [body |-> cmd.body]) \in TimelineEvents
  BY DEF TimelineEvent, TimelineEvents, CommentCommands
<1> QED BY <1>1, OneEvent DEF CommentEvents, TimelineEvent

-----------------------------------------------------------------------------
(* What holds of a row once created and is kept by every accepted command. *)

\* Incident::create gives an exclusive role to one principal at most.
LEMMA CreatedRowSound ==
    ASSUME NEW rid, NEW cmd \in CreateCommands, CreateAccepted(cmd)
    PROVE  ExclusiveRow(CreatedRow(rid, cmd)) /\ SeverityRow(CreatedRow(rid, cmd))
BY DEF CreateAccepted, ExclusiveRow, SeverityRow, CreatedRow

\* The roles a command leaves, one kind of command at a time.
LEMMA ChangedRoles ==
    ASSUME NEW row \in IncidentRows, NEW cmd
    PROVE  /\ cmd.kind \in {"transition", "reassess", "override", "disposition"}
                => Changed(row, cmd).roles = row.roles
           /\ cmd.kind = "triage" =>
                Changed(row, cmd).roles =
                   IF Holders(row, "owner") = {cmd.owner} THEN row.roles
                   ELSE WithoutRole(row, "owner") \cup {<<"owner", cmd.owner>>}
           /\ cmd.kind = "assign" =>
                Changed(row, cmd).roles =
                   row.roles \cup {<<cmd.role, cmd.principal>>}
           /\ cmd.kind = "replace" =>
                Changed(row, cmd).roles =
                   WithoutRole(row, cmd.role) \cup {<<cmd.role, cmd.principal>>}
           /\ cmd.kind = "release" =>
                Changed(row, cmd).roles =
                   row.roles \ {<<cmd.role, cmd.principal>>}
<1>1. [row EXCEPT !.status = cmd.target].roles = row.roles
  BY DEF IncidentRows
<1>2. /\ Reassessed(row, cmd).roles = row.roles
      /\ "roles" \in DOMAIN Reassessed(row, cmd)
  BY DEF Reassessed, IncidentRows
<1>3. [row EXCEPT !.override = {cmd.selected}].roles = row.roles
  BY DEF IncidentRows
<1>4. [row EXCEPT !.disposition = cmd.disposition,
                  !.duplicateOf = cmd.duplicateOf].roles = row.roles
  BY DEF IncidentRows
<1>5. Triaged(row, cmd).roles =
         IF Holders(row, "owner") = {cmd.owner} THEN row.roles
         ELSE WithoutRole(row, "owner") \cup {<<"owner", cmd.owner>>}
  <2>1. "roles" \in DOMAIN [Reassessed(row, cmd) EXCEPT !.status = "triage"]
    BY <1>2
  <2>2. [Reassessed(row, cmd) EXCEPT !.status = "triage"].roles = row.roles
    BY <1>2
  <2> QED BY <2>1, <2>2 DEF Triaged
<1>6. \A roles : [row EXCEPT !.roles = roles].roles = roles
  BY DEF IncidentRows
<1>7. /\ cmd.kind = "assign" => RoleApplied(row, cmd) =
            [row EXCEPT !.roles = row.roles \cup {<<cmd.role, cmd.principal>>}]
      /\ cmd.kind = "replace" => RoleApplied(row, cmd) =
            [row EXCEPT !.roles = WithoutRole(row, cmd.role)
                                    \cup {<<cmd.role, cmd.principal>>}]
      /\ cmd.kind = "release" => RoleApplied(row, cmd) =
            [row EXCEPT !.roles = row.roles \ {<<cmd.role, cmd.principal>>}]
  BY DEF RoleApplied
<1>8. CASE cmd.kind = "transition"
  <2>1. Changed(row, cmd) = [row EXCEPT !.status = cmd.target]
    BY <1>8, ChangedForms
  <2> QED BY <1>8, <2>1, <1>1
<1>9. CASE cmd.kind = "reassess"
  <2>1. Changed(row, cmd) = Reassessed(row, cmd)
    BY <1>9, ChangedForms
  <2> QED BY <1>9, <2>1, <1>2
<1>10. CASE cmd.kind = "override"
  <2>1. Changed(row, cmd) = [row EXCEPT !.override = {cmd.selected}]
    BY <1>10, ChangedForms
  <2> QED BY <1>10, <2>1, <1>3
<1>11. CASE cmd.kind = "disposition"
  <2>1. Changed(row, cmd) = [row EXCEPT !.disposition = cmd.disposition,
                                        !.duplicateOf = cmd.duplicateOf]
    BY <1>11, ChangedForms
  <2> QED BY <1>11, <2>1, <1>4
<1>12. CASE cmd.kind = "triage"
  <2>1. Changed(row, cmd) = Triaged(row, cmd)
    BY <1>12, ChangedForms
  <2> QED BY <1>12, <2>1, <1>5
<1>13. CASE cmd.kind \in {"assign", "replace", "release"}
  <2>1. Changed(row, cmd) = RoleApplied(row, cmd)
    BY <1>13, ChangedForms
  <2>2. \A roles : RoleApplied(row, cmd) = [row EXCEPT !.roles = roles]
                   => Changed(row, cmd).roles = roles
    BY <2>1, <1>6
  <2> QED BY <1>13, <2>2, <1>7
<1> QED BY <1>8, <1>9, <1>10, <1>11, <1>12, <1>13

\* Triage, assign, replace and release never give an exclusive role to a
\* second principal.
LEMMA AppliedExclusive ==
    ASSUME NEW row \in IncidentRows, NEW cmd \in VersionedCommands,
           Accepts(row, cmd), ExclusiveRow(row)
    PROVE  ExclusiveRow(Applied(row, cmd))
<1> DEFINE handed(r, p) == WithoutRole(row, r) \cup {<<r, p>>}
<1>1. Applied(row, cmd).roles = Changed(row, cmd).roles
  BY ChangedType DEF Applied, Advanced, IncidentRows
<1>2. \A r, p : \A q \in Roles, x, y \in Principals :
         /\ IsExclusive(q)
         /\ <<q, x>> \in handed(r, p)
         /\ <<q, y>> \in handed(r, p)
         => x = y
  BY DEF WithoutRole, ExclusiveRow
<1>3. CASE cmd.kind \in {"transition", "reassess", "override", "disposition"}
  BY <1>1, <1>3, ChangedRoles DEF ExclusiveRow
<1>4. CASE cmd.kind = "triage"
  <2>1. \/ Changed(row, cmd).roles = row.roles
        \/ Changed(row, cmd).roles = handed("owner", cmd.owner)
    BY <1>4, ChangedRoles
  <2> QED BY <1>1, <1>2, <2>1 DEF ExclusiveRow
<1>5. CASE cmd.kind = "assign"
  <2>1. Changed(row, cmd).roles = row.roles \cup {<<cmd.role, cmd.principal>>}
    BY <1>5, ChangedRoles
  <2>2. IsExclusive(cmd.role) =>
          \A p \in Principals : <<cmd.role, p>> \notin row.roles
    BY <1>5 DEF Accepts, RoleAccepted, Holders
  <2> QED BY <1>1, <2>1, <2>2 DEF ExclusiveRow
<1>6. CASE cmd.kind = "replace"
  <2>1. Changed(row, cmd).roles = handed(cmd.role, cmd.principal)
    BY <1>6, ChangedRoles
  <2> QED BY <1>1, <1>2, <2>1 DEF ExclusiveRow
<1>7. CASE cmd.kind = "release"
  <2>1. Changed(row, cmd).roles = row.roles \ {<<cmd.role, cmd.principal>>}
    BY <1>7, ChangedRoles
  <2> QED BY <1>1, <2>1 DEF ExclusiveRow
<1> QED BY <1>3, <1>4, <1>5, <1>6, <1>7, VersionedKinds

\* The severity a command leaves: triage and reassessment derive it anew and
\* drop the override, an override selects, the rest leave it alone.
LEMMA ChangedSeverity ==
    ASSUME NEW row \in IncidentRows, NEW cmd \in VersionedCommands
    PROVE  LET after == Changed(row, cmd) IN
           /\ cmd.kind \in {"triage", "reassess"} =>
                /\ after.override = {}
                /\ after.derived = DeriveSeverity[after.impact]
           /\ cmd.kind = "override" =>
                /\ after.override = {cmd.selected}
                /\ after.impact = row.impact
                /\ after.derived = row.derived
           /\ cmd.kind \notin {"triage", "reassess", "override"} =>
                /\ after.override = row.override
                /\ after.impact = row.impact
                /\ after.derived = row.derived
<1>1. /\ Reassessed(row, cmd).override = {}
      /\ Reassessed(row, cmd).impact = cmd.impact
      /\ Reassessed(row, cmd).derived = DeriveSeverity[cmd.impact]
  BY DEF Reassessed, IncidentRows
<1>2. /\ Triaged(row, cmd).override = Reassessed(row, cmd).override
      /\ Triaged(row, cmd).impact = Reassessed(row, cmd).impact
      /\ Triaged(row, cmd).derived = Reassessed(row, cmd).derived
  BY DEF Triaged, Reassessed, IncidentRows
<1>3. LET after == [row EXCEPT !.override = {cmd.selected}] IN
        /\ after.override = {cmd.selected}
        /\ after.impact = row.impact
        /\ after.derived = row.derived
  BY DEF IncidentRows
<1>4. LET after == [row EXCEPT !.status = cmd.target] IN
        /\ after.override = row.override
        /\ after.impact = row.impact
        /\ after.derived = row.derived
  BY DEF IncidentRows
<1>5. LET after == [row EXCEPT !.disposition = cmd.disposition,
                               !.duplicateOf = cmd.duplicateOf] IN
        /\ after.override = row.override
        /\ after.impact = row.impact
        /\ after.derived = row.derived
  BY DEF IncidentRows
<1>6. /\ RoleApplied(row, cmd).override = row.override
      /\ RoleApplied(row, cmd).impact = row.impact
      /\ RoleApplied(row, cmd).derived = row.derived
  BY DEF RoleApplied, IncidentRows
<1>7. CASE cmd.kind = "triage"
  <2>1. Changed(row, cmd) = Triaged(row, cmd)
    BY <1>7, ChangedForms
  <2> QED BY <1>7, <2>1, <1>1, <1>2
<1>8. CASE cmd.kind = "transition"
  <2>1. Changed(row, cmd) = [row EXCEPT !.status = cmd.target]
    BY <1>8, ChangedForms
  <2> QED BY <1>8, <2>1, <1>4
<1>9. CASE cmd.kind = "reassess"
  <2>1. Changed(row, cmd) = Reassessed(row, cmd)
    BY <1>9, ChangedForms
  <2> QED BY <1>9, <2>1, <1>1
<1>10. CASE cmd.kind = "override"
  <2>1. Changed(row, cmd) = [row EXCEPT !.override = {cmd.selected}]
    BY <1>10, ChangedForms
  <2> QED BY <1>10, <2>1, <1>3
<1>11. CASE cmd.kind = "disposition"
  <2>1. Changed(row, cmd) = [row EXCEPT !.disposition = cmd.disposition,
                                        !.duplicateOf = cmd.duplicateOf]
    BY <1>11, ChangedForms
  <2> QED BY <1>11, <2>1, <1>5
<1>12. CASE cmd.kind \in {"assign", "replace", "release"}
  <2>1. Changed(row, cmd) = RoleApplied(row, cmd)
    BY <1>12, ChangedForms
  <2> QED BY <1>12, <2>1, <1>6
<1> QED BY <1>7, <1>8, <1>9, <1>10, <1>11, <1>12, VersionedKinds

\* Reassessment and triage drop the override, and one is only accepted when
\* it selects another severity than the derived one.
LEMMA AppliedSeverity ==
    ASSUME NEW row \in IncidentRows, NEW cmd \in VersionedCommands,
           Accepts(row, cmd), SeverityRow(row)
    PROVE  SeverityRow(Applied(row, cmd))
<1> DEFINE after == Changed(row, cmd)
<1>1. /\ Applied(row, cmd).impact = after.impact
      /\ Applied(row, cmd).derived = after.derived
      /\ Applied(row, cmd).override = after.override
  BY ChangedType DEF Applied, Advanced, IncidentRows
<1>2. cmd.kind = "override" => cmd.selected # row.derived
  BY DEF Accepts, OverrideAccepted
<1> HIDE DEF after
<1>3. SeverityRow(after)
  BY <1>2, ChangedSeverity DEF SeverityRow, after
<1> QED BY <1>1, <1>3 DEF SeverityRow

-----------------------------------------------------------------------------
(***************************************************************************)
(* The log                                                                 *)
(***************************************************************************)

\* A stored row is a row: the placeholder of an unused identifier is not one.
LEMMA NoIncidentIsNoRow == NoIncident \notin IncidentRows
BY DEF NoIncident, IncidentRows

\* The rows are sound: exclusive roles held once, overrides that disagree.
RowsSound ==
    \A i \in IncidentIds : Exists(i) =>
        ExclusiveRow(incident[i]) /\ SeverityRow(incident[i])

\* The inductive invariant.
LogInv == LogTypeOK /\ RowsSound

LEMMA RowsSoundSuffices ==
    RowsSound => ExclusiveRolesHeldOnce /\ OverrideIsDisagreement
BY DEF RowsSound, ExclusiveRow, SeverityRow, ExclusiveRolesHeldOnce,
       OverrideIsDisagreement

LEMMA LogInitInv == LogInit => LogInv
<1> SUFFICES ASSUME LogInit PROVE LogInv
  OBVIOUS
<1>1. << >> \in Seq(TimelineEvents)
  BY EmptySeq
<1>2. LogTypeOK
  BY <1>1 DEF LogInit, LogTypeOK
<1>3. RowsSound
  BY DEF LogInit, RowsSound, Exists
<1> QED BY <1>2, <1>3 DEF LogInv

\* Storing a row and a timeline under one identifier keeps the types.
LEMMA StoreType ==
    ASSUME LogTypeOK, NEW i \in IncidentIds, NEW row \in IncidentRows,
           NEW t \in Seq(TimelineEvents),
           incident' = [incident EXCEPT ![i] = row],
           timeline' = [timeline EXCEPT ![i] = t]
    PROVE  LogTypeOK'
BY DEF LogTypeOK

\* Storing a sound row keeps the rows sound.
LEMMA StoreSound ==
    ASSUME LogTypeOK, RowsSound, NEW i \in IncidentIds, NEW row,
           ExclusiveRow(row), SeverityRow(row),
           incident' = [incident EXCEPT ![i] = row]
    PROVE  RowsSound'
<1> SUFFICES ASSUME NEW j \in IncidentIds, Exists(j)'
             PROVE  ExclusiveRow(incident'[j]) /\ SeverityRow(incident'[j])
  BY DEF RowsSound, ExclusiveRow, SeverityRow
<1>1. CASE j = i
  BY <1>1 DEF LogTypeOK
<1>2. CASE j # i
  BY <1>2 DEF LogTypeOK, RowsSound, Exists
<1> QED BY <1>1, <1>2

LEMMA CreateInv ==
    ASSUME LogInv, NEW r \in Requests, NEW i \in IncidentIds, Create(i, r)
    PROVE  LogInv'
<1>1. r.rid \in RequestIds /\ r.cmd \in CreateCommands
  <2>1. r.rid \in RequestIds /\ r.cmd \in Commands
    BY RequestsAssumption
  <2>2. r.cmd \notin VersionedCommands
    BY VersionedKinds DEF Create
  <2>3. r.cmd \notin CommentCommands
    BY DEF Create, CommentCommands
  <2> QED BY <2>1, <2>2, <2>3 DEF Commands
<1>2. /\ CreatedRow(r.rid, r.cmd) \in IncidentRows
      /\ CreationEvents(r.rid, r.cmd) \in Seq(TimelineEvents)
  BY <1>1, CreatedRowType, CreationEventsType
<1>3. /\ ExclusiveRow(CreatedRow(r.rid, r.cmd))
      /\ SeverityRow(CreatedRow(r.rid, r.cmd))
  BY <1>1, CreatedRowSound DEF Create
<1>4. LogTypeOK'
  BY <1>2, StoreType DEF LogInv, Create
<1>5. RowsSound'
  BY <1>3, StoreSound DEF LogInv, Create
<1> QED BY <1>4, <1>5 DEF LogInv

\* A stored row is a row.
LEMMA ExistsRow ==
    ASSUME LogTypeOK, NEW i \in IncidentIds, Exists(i)
    PROVE  incident[i] \in IncidentRows
BY DEF LogTypeOK, Exists

LEMMA MutateInv ==
    ASSUME LogInv, NEW r \in Requests, Mutate(r)
    PROVE  LogInv'
<1> DEFINE i == r.cmd.incident
           row == Applied(incident[i], r.cmd)
           evs == Events(incident[i], r.rid, r.cmd)
<1>1. /\ r.rid \in RequestIds
      /\ r.cmd \in VersionedCommands
      /\ i \in IncidentIds
  BY RequestsAssumption, VersionedKinds DEF Mutate
<1>2. incident[i] \in IncidentRows
  BY <1>1, ExistsRow DEF Mutate, LogInv
<1>3. row \in IncidentRows /\ evs \in Seq(TimelineEvents)
  BY <1>1, <1>2, AppliedType, EventsType DEF RequestSeq
<1>4. timeline[i] \in Seq(TimelineEvents)
  BY <1>1 DEF LogInv, LogTypeOK
<1>5. timeline[i] \o evs \in Seq(TimelineEvents)
  BY <1>3, <1>4, ConcatProperties
<1>6. ExclusiveRow(row) /\ SeverityRow(row)
  BY <1>1, <1>2, AppliedExclusive, AppliedSeverity DEF Mutate, LogInv, RowsSound
<1>7. /\ incident' = [incident EXCEPT ![i] = row]
      /\ timeline' = [timeline EXCEPT ![i] = timeline[i] \o evs]
  BY DEF Mutate
<1> HIDE DEF i, row, evs
<1>8. LogTypeOK'
  BY <1>1, <1>3, <1>5, <1>7, StoreType DEF LogInv
<1>9. RowsSound'
  BY <1>1, <1>6, <1>7, StoreSound DEF LogInv
<1> QED BY <1>8, <1>9 DEF LogInv

LEMMA CommentInv ==
    ASSUME LogInv, NEW r \in Requests, Comment(r)
    PROVE  LogInv'
<1> DEFINE i == r.cmd.incident
           evs == CommentEvents(r.rid, r.cmd)
<1>1. r.rid \in RequestIds /\ r.cmd \in CommentCommands
  <2>1. r.rid \in RequestIds /\ r.cmd \in Commands
    BY RequestsAssumption
  <2>2. r.cmd \notin VersionedCommands
    BY VersionedKinds DEF Comment
  <2>3. r.cmd \notin CreateCommands
    BY DEF Comment, CreateCommands
  <2> QED BY <2>1, <2>2, <2>3 DEF Commands
<1>2. i \in IncidentIds
  BY <1>1 DEF CommentCommands
<1>3. timeline[i] \o evs \in Seq(TimelineEvents)
  BY <1>1, <1>2, CommentEventsType, ConcatProperties
     DEF RequestSeq, LogInv, LogTypeOK
<1>4. /\ incident' = incident
      /\ timeline' = [timeline EXCEPT ![i] = timeline[i] \o evs]
  BY DEF Comment
<1> HIDE DEF i, evs
<1>5. LogTypeOK'
  BY <1>2, <1>3, <1>4 DEF LogInv, LogTypeOK
<1>6. RowsSound'
  BY <1>4 DEF LogInv, RowsSound, Exists, ExclusiveRow, SeverityRow
<1> QED BY <1>5, <1>6 DEF LogInv

\* LogInv is inductive.
LEMMA LogNextInv == LogInv /\ [LogNext]_logVars => LogInv'
<1> SUFFICES ASSUME LogInv, [LogNext]_logVars PROVE LogInv'
  OBVIOUS
<1>1. CASE LogNext
  BY <1>1, CreateInv, MutateInv, CommentInv DEF LogNext
<1>2. CASE UNCHANGED logVars
  BY <1>2 DEF logVars, LogInv, LogTypeOK, RowsSound, Exists, ExclusiveRow,
              SeverityRow
<1> QED BY <1>1, <1>2

THEOREM LogInvariant == LogSpec => []LogInv
BY LogInitInv, LogNextInv, PTL DEF LogSpec

\* Rows and timelines keep their types, whatever is requested.
THEOREM LogTypeCorrect == LogSpec => []LogTypeOK
<1>1. LogInv => LogTypeOK
  BY DEF LogInv
<1> QED BY <1>1, LogInvariant, PTL

\* No path of creation, triage, assign, replace and release gives an
\* exclusive role to two principals: the partial unique index over active
\* roles never has to refuse a write the aggregate accepted.
THEOREM ExclusiveRoles == LogSpec => []ExclusiveRolesHeldOnce
<1>1. LogInv => ExclusiveRolesHeldOnce
  BY RowsSoundSuffices DEF LogInv
<1> QED BY <1>1, LogInvariant, PTL

\* An override in force always disagrees with the severity derived from the
\* impact on record.
THEOREM OverridesDisagree == LogSpec => []OverrideIsDisagreement
<1>1. LogInv => OverrideIsDisagreement
  BY RowsSoundSuffices DEF LogInv
<1> QED BY <1>1, LogInvariant, PTL
-----------------------------------------------------------------------------
(* Duplicates. *)

\* What an accepted command leaves of disposition and duplicate target.
LEMMA AppliedDuplicate ==
    ASSUME NEW row \in IncidentRows, NEW cmd \in VersionedCommands,
           Accepts(row, cmd)
    PROVE  \/ /\ Applied(row, cmd).disposition = row.disposition
              /\ Applied(row, cmd).duplicateOf = row.duplicateOf
           \/ /\ Applied(row, cmd).disposition = cmd.disposition
              /\ Applied(row, cmd).duplicateOf = cmd.duplicateOf
              /\ DispositionAccepted(cmd)
<1>1. CASE cmd.kind = "disposition"
  <2>1. DispositionAccepted(cmd)
    BY <1>1 DEF Accepts
  <2>2. Changed(row, cmd) = [row EXCEPT !.disposition = cmd.disposition,
                                        !.duplicateOf = cmd.duplicateOf]
    BY <1>1 DEF Changed
  <2> QED BY <2>1, <2>2 DEF Applied, Advanced, IncidentRows
<1>2. CASE cmd.kind # "disposition"
  <2>1. /\ Changed(row, cmd).disposition = row.disposition
        /\ Changed(row, cmd).duplicateOf = row.duplicateOf
        /\ Changed(row, cmd) \in IncidentRows
    <3>1. CASE cmd.kind = "triage"
      BY <3>1, ChangedType DEF Changed, Triaged, Reassessed, IncidentRows
    <3>2. CASE cmd.kind = "transition"
      BY <3>2, ChangedType DEF Changed, IncidentRows
    <3>3. CASE cmd.kind = "reassess"
      BY <3>3, ChangedType DEF Changed, Reassessed, IncidentRows
    <3>4. CASE cmd.kind = "override"
      BY <3>4, ChangedType DEF Changed, IncidentRows
    <3>5. CASE cmd.kind \in {"assign", "replace", "release"}
      BY <3>5, ChangedType DEF Changed, RoleApplied, IncidentRows
    <3> QED BY <1>2, <3>1, <3>2, <3>3, <3>4, <3>5, VersionedKinds
  <2> QED BY <2>1 DEF Applied, Advanced, IncidentRows
<1> QED BY <1>1, <1>2

\* One row's disposition and duplicate target, against the stored rows.
DuplicateRow(i, row) ==
    /\ row.disposition = "duplicate" <=> row.duplicateOf # {}
    /\ \A d \in row.duplicateOf : d # i /\ Exists(d)

\* Storing a row removes none: what other rows refer to is still there.
LEMMA StoreDuplicate ==
    ASSUME LogTypeOK, DuplicateTargetStored, NEW i \in IncidentIds,
           NEW row \in IncidentRows, DuplicateRow(i, row),
           incident' = [incident EXCEPT ![i] = row]
    PROVE  DuplicateTargetStored'
<1>1. ASSUME NEW d, Exists(d), d \in IncidentIds PROVE incident'[d] # NoIncident
  BY <1>1, NoIncidentIsNoRow DEF Exists, LogTypeOK
<1>2. ASSUME NEW j \in IncidentIds, incident'[j] # NoIncident
      PROVE  /\ incident'[j].disposition = "duplicate"
                  <=> incident'[j].duplicateOf # {}
             /\ \A d \in incident'[j].duplicateOf :
                   d # j /\ incident'[d] # NoIncident
  <2>1. CASE j = i
    <3>1. incident'[j] = row /\ row.duplicateOf \subseteq IncidentIds
      BY <2>1 DEF LogTypeOK, IncidentRows
    <3> QED BY <3>1, <2>1, <1>1 DEF DuplicateRow
  <2>2. CASE j # i
    <3>1. incident'[j] = incident[j] /\ Exists(j)
      BY <2>2, <1>2 DEF LogTypeOK, Exists
    <3>2. incident[j].duplicateOf \subseteq IncidentIds
      BY <3>1, NoIncidentIsNoRow DEF LogTypeOK, Exists, IncidentRows
    <3> QED BY <3>1, <3>2, <1>1 DEF DuplicateTargetStored
  <2> QED BY <2>1, <2>2
<1> QED BY <1>2 DEF DuplicateTargetStored, Exists

LEMMA CreateDuplicate ==
    ASSUME LogInv, DuplicateTargetStored, NEW r \in Requests,
           NEW i \in IncidentIds, Create(i, r)
    PROVE  DuplicateTargetStored'
<1>1. r.rid \in RequestIds /\ r.cmd \in CreateCommands
  BY RequestsAssumption, VersionedKinds DEF Create, Commands, CommentCommands
<1>2. CreatedRow(r.rid, r.cmd) \in IncidentRows
  BY <1>1, CreatedRowType
<1>3. DuplicateRow(i, CreatedRow(r.rid, r.cmd))
  BY DEF DuplicateRow, CreatedRow
<1> QED BY <1>2, <1>3, StoreDuplicate DEF LogInv, Create

LEMMA MutateDuplicate ==
    ASSUME LogInv, DuplicateTargetStored, NEW r \in Requests, Mutate(r)
    PROVE  DuplicateTargetStored'
<1> DEFINE i == r.cmd.incident
           row == Applied(incident[i], r.cmd)
<1>1. /\ r.rid \in RequestIds
      /\ r.cmd \in VersionedCommands
      /\ i \in IncidentIds
  BY RequestsAssumption, VersionedKinds DEF Mutate
<1>2. incident[i] \in IncidentRows /\ Exists(i) /\ Accepts(incident[i], r.cmd)
  BY <1>1, ExistsRow DEF Mutate, LogInv
<1>3. row \in IncidentRows
  BY <1>1, <1>2, AppliedType
<1>4. incident' = [incident EXCEPT ![i] = row]
  BY DEF Mutate
<1>5. DuplicateRow(i, row)
  <2>1. CASE /\ row.disposition = incident[i].disposition
             /\ row.duplicateOf = incident[i].duplicateOf
    BY <2>1, <1>1, <1>2 DEF DuplicateTargetStored, DuplicateRow
  <2>2. CASE /\ row.disposition = r.cmd.disposition
             /\ row.duplicateOf = r.cmd.duplicateOf
             /\ DispositionAccepted(r.cmd)
    <3> HIDE DEF row
    <3>1. CASE r.cmd.disposition = "duplicate"
      <4>1. row.duplicateOf # {} /\ i \notin row.duplicateOf
        BY <2>2, <3>1, FS_EmptySet DEF DispositionAccepted
      <4>2. \A d \in row.duplicateOf : incident[d].version > 0
        BY <2>2, <3>1 DEF Mutate, ReferencesKnown, row
      <4>3. \A d \in row.duplicateOf : Exists(d)
        BY <4>2 DEF Exists, NoIncident
      <4> QED BY <2>2, <3>1, <4>1, <4>3 DEF DuplicateRow
    <3>2. CASE r.cmd.disposition # "duplicate"
      BY <2>2, <3>2 DEF DispositionAccepted, DuplicateRow
    <3> QED BY <3>1, <3>2
  <2> QED BY <2>1, <2>2, <1>1, <1>2, AppliedDuplicate
<1> HIDE DEF i, row
<1> QED BY <1>1, <1>3, <1>4, <1>5, StoreDuplicate DEF LogInv

\* A duplicate's target is another stored incident, along every path of
\* dispositions set, changed and cleared: the reference the repository reads
\* before it writes cannot be lost later, since no row is ever removed.
THEOREM DuplicateTargets == LogSpec => []DuplicateTargetStored
<1>1. LogInit => DuplicateTargetStored
  BY DEF LogInit, DuplicateTargetStored, Exists
<1>2. LogInv /\ DuplicateTargetStored /\ [LogNext]_logVars
        => DuplicateTargetStored'
  <2> SUFFICES ASSUME LogInv, DuplicateTargetStored, [LogNext]_logVars
               PROVE  DuplicateTargetStored'
    OBVIOUS
  <2>1. CASE incident' = incident
    BY <2>1 DEF DuplicateTargetStored, Exists
  <2>2. CASE LogNext
    BY <2>1, <2>2, CreateDuplicate, MutateDuplicate DEF LogNext, Comment
  <2>3. CASE UNCHANGED logVars
    BY <2>1, <2>3 DEF logVars
  <2> QED BY <2>2, <2>3
<1> QED BY <1>1, <1>2, LogInvariant, PTL DEF LogSpec

-----------------------------------------------------------------------------
(* The audit trail.  What a fold tells is a recursive function of the        *)
(* timeline's length; that it exists, and that equal beginnings tell the    *)
(* same, follows from the least number for which it would not.              *)

Less == {x \in Nat \X Nat : x[1] < x[2]}

\* A set of natural numbers has a least one.
LEMMA LeastNatural ==
    ASSUME NEW T, T \subseteq Nat, T # {}
    PROVE  \E n \in T : \A m \in T : n <= m
<1>1. Less = OpToRel(<, Nat)
  BY DEF Less, OpToRel
<1>2. IsWellFoundedOn(Less, Nat)
  BY <1>1, NatLessThanWellFounded
<1>3. PICK n \in T : \A m \in T : <<m, n>> \notin Less
  BY <1>2, WFMin
<1>4. ASSUME NEW m \in T PROVE n <= m
  <2>1. <<m, n>> \in Less <=> m < n
    BY DEF Less
  <2>2. ~(m < n)
    BY <1>3, <2>1
  <2>3. m \in Nat /\ n \in Nat
    OBVIOUS
  <2> QED BY <2>2, <2>3
<1> QED BY <1>4

\* What f tells after each of the first n events of t.
Tells(f, t, n) ==
    f = [k \in 0 .. n |-> IF k = 0 THEN Blank ELSE Audit(f[k - 1], t[k])]

\* A timeline can be folded as far as it goes.
LEMMA TellingExists ==
    ASSUME NEW t, NEW n \in Nat
    PROVE  \E f : Tells(f, t, n)
<1> DEFINE Bad == {k \in Nat : ~\E f : Tells(f, t, k)}
<1>1. SUFFICES ASSUME Bad # {} PROVE FALSE
  OBVIOUS
<1>2. PICK m \in Bad : \A k \in Bad : m <= k
  BY <1>1, LeastNatural
<1>3. m \in Nat /\ ~\E f : Tells(f, t, m)
  OBVIOUS
<1>4. CASE m = 0
  <2> DEFINE f == [k \in 0 .. 0 |-> Blank]
  <2>1. Tells(f, t, 0)
    BY DEF Tells
  <2> QED BY <1>3, <1>4, <2>1
<1>5. CASE m # 0
  <2>1. m - 1 \in Nat /\ m - 1 \notin Bad
    BY <1>2, <1>3, <1>5
  <2>2. PICK g : Tells(g, t, m - 1)
    BY <2>1
  <2> DEFINE f == [k \in 0 .. m |-> IF k = m THEN Audit(g[m - 1], t[m]) ELSE g[k]]
  <2>3. ASSUME NEW k \in 0 .. m
        PROVE  f[k] = IF k = 0 THEN Blank ELSE Audit(f[k - 1], t[k])
    <3>1. CASE k = m
      <4>1. f[m] = Audit(g[m - 1], t[m]) /\ f[m - 1] = g[m - 1]
        BY <1>3, <1>5
      <4> HIDE DEF f
      <4> QED BY <3>1, <4>1, <1>5
    <3>2. CASE k # m
      <4>1. k \in 0 .. m - 1 /\ m - 1 \in Nat
        BY <3>2, <1>3, <2>1
      <4>2. g[k] = IF k = 0 THEN Blank ELSE Audit(g[k - 1], t[k])
        BY <2>2, <4>1 DEF Tells
      <4>3. f[k] = g[k] /\ (k # 0 => f[k - 1] = g[k - 1])
        BY <3>2, <1>3
      <4> HIDE DEF f
      <4> QED BY <4>2, <4>3
    <3> QED BY <3>1, <3>2
  <2>4. f = [k \in 0 .. m |-> f[k]]
    OBVIOUS
  <2> HIDE DEF f
  <2>5. Tells(f, t, m)
    BY <2>3, <2>4 DEF Tells
  <2> QED BY <1>3, <2>5
<1> QED BY <1>4, <1>5

\* Timelines that agree tell the same.
LEMMA TellingAgrees ==
    ASSUME NEW t, NEW u, NEW f, NEW g, NEW n \in Nat, NEW m \in Nat,
           Tells(f, t, n), Tells(g, u, m), n <= m,
           \A k \in 1 .. n : t[k] = u[k]
    PROVE  \A k \in 0 .. n : f[k] = g[k]
<1> DEFINE Bad == {k \in Nat : k <= n /\ f[k] # g[k]}
<1>1. SUFFICES ASSUME Bad # {} PROVE FALSE
  OBVIOUS
<1>2. PICK k \in Bad : \A j \in Bad : k <= j
  BY <1>1, LeastNatural
<1>3. k \in Nat /\ k \in 0 .. n /\ k \in 0 .. m /\ f[k] # g[k]
  OBVIOUS
<1>4. /\ f[k] = IF k = 0 THEN Blank ELSE Audit(f[k - 1], t[k])
      /\ g[k] = IF k = 0 THEN Blank ELSE Audit(g[k - 1], u[k])
  BY <1>3 DEF Tells
<1>5. k # 0
  BY <1>3, <1>4
<1>6. k - 1 \in Nat /\ k - 1 <= n /\ k \in 1 .. n /\ ~(k <= k - 1)
  BY <1>3, <1>5
<1>7. f[k - 1] = g[k - 1]
  BY <1>2, <1>6
<1> QED BY <1>3, <1>4, <1>5, <1>6, <1>7

LEMMA FoldedTells ==
    ASSUME NEW t, Len(t) \in Nat
    PROVE  \E f : Tells(f, t, Len(t)) /\ Folded(t) = f[Len(t)]
<1> DEFINE f == CHOOSE f : Tells(f, t, Len(t))
<1>1. Tells(f, t, Len(t))
  BY TellingExists
<1>2. Folded(t) = f[Len(t)]
  BY DEF Folded, Tells
<1> QED BY <1>1, <1>2

LEMMA NothingTold == Folded(<< >>) = Blank
<1>1. Len(<< >>) = 0
  OBVIOUS
<1>2. PICK f : Tells(f, << >>, 0) /\ Folded(<< >>) = f[0]
  BY <1>1, FoldedTells
<1> QED BY <1>2 DEF Tells

\* One more event is told on what was told before.
LEMMA ToldNext ==
    ASSUME NEW S, NEW t \in Seq(S), NEW e \in S
    PROVE  Folded(t \o << e >>) = Audit(Folded(t), e)
<1> DEFINE n == Len(t)
           u == t \o << e >>
<1>1. /\ n \in Nat /\ u \in Seq(S) /\ Len(u) = n + 1 /\ u[n + 1] = e
      /\ \A k \in 1 .. n : t[k] = u[k]
  OBVIOUS
<1> HIDE DEF n, u
<1>2. PICK f : Tells(f, t, n) /\ Folded(t) = f[n]
  BY <1>1, FoldedTells DEF n
<1>3. PICK g : Tells(g, u, n + 1) /\ Folded(u) = g[n + 1]
  BY <1>1, FoldedTells
<1>4. \A k \in 0 .. n : f[k] = g[k]
  BY <1>1, <1>2, <1>3, TellingAgrees
<1>5. g[n + 1] = Audit(g[n], u[n + 1])
  <2>1. n + 1 \in 0 .. n + 1 /\ n + 1 # 0 /\ (n + 1) - 1 = n
    BY <1>1
  <2> QED BY <1>3, <2>1 DEF Tells
<1>6. g[n] = f[n]
  BY <1>1, <1>4
<1> QED BY <1>1, <1>2, <1>3, <1>5, <1>6 DEF u
\* What the timeline of a row has to tell.
Told(row) ==
    [ok |-> TRUE, status |-> row.status, severity |-> CurrentSeverity(row),
     override |-> row.override, disposition |-> row.disposition,
     roles |-> row.roles]

\* The one record Audit starts from and returns.
Tale(status, severity, overridden, disposition, roles) ==
    [ok |-> TRUE, status |-> status, severity |-> severity,
     override |-> overridden, disposition |-> disposition,
     roles |-> roles]

\* What each event adds when it continues what was told before.
LEMMA StatusTold ==
    ASSUME NEW row, NEW rid, NEW cmd, NEW sev, NEW over, NEW disp, NEW roles
    PROVE  Audit(Tale(row.status, sev, over, disp, roles),
                 StatusEvent(row, rid, cmd))
              = Tale(Target(cmd), sev, over, disp, roles)
BY DEF Audit, Tale, StatusEvent, TimelineEvent

LEMMA SeverityTold ==
    ASSUME NEW row, NEW rid, NEW cmd, NEW st, NEW sev, NEW over, NEW disp,
           NEW roles, sev = CurrentSeverity(row), over = row.override
    PROVE  Audit(Tale(st, sev, over, disp, roles), SeverityEvent(row, rid, cmd))
              = Tale(st, CurrentSeverity(Applied(row, cmd)),
                     Applied(row, cmd).override, disp, roles)
BY DEF Audit, Tale, SeverityEvent, TimelineEvent, Assessment

LEMMA DispositionTold ==
    ASSUME NEW row, NEW rid, NEW cmd, NEW st, NEW sev, NEW over, NEW roles
    PROVE  Audit(Tale(st, sev, over, row.disposition, roles),
                 DispositionEvent(row, rid, cmd))
              = Tale(st, sev, over, cmd.disposition, roles)
BY DEF Audit, Tale, DispositionEvent, TimelineEvent

LEMMA RolesTold ==
    ASSUME NEW row, NEW rid, NEW role, NEW previous, NEW current,
           NEW st, NEW sev, NEW over, NEW disp, NEW roles,
           \A p \in previous : <<role, p>> \in roles
    PROVE  Audit(Tale(st, sev, over, disp, roles),
                 RoleEvent(row, rid, role, previous, current))
              = Tale(st, sev, over, disp,
                     (roles \ {<<role, p>> : p \in previous})
                        \cup {<<role, p>> : p \in current})
<1>1. {<<role, p>> : p \in previous} \subseteq roles
  OBVIOUS
<1> QED BY <1>1 DEF Audit, Tale, RoleEvent, TimelineEvent

LEMMA OthersTold ==
    ASSUME NEW acc, NEW e, e.kind \in {"triggers_attached", "commented"}
    PROVE  Audit(acc, e) = acc
BY DEF Audit

\* The status and the disposition a command leaves.
LEMMA AppliedFields ==
    ASSUME NEW row \in IncidentRows, NEW cmd \in VersionedCommands
    PROVE  LET after == Applied(row, cmd)
               changed == Changed(row, cmd)
           IN
           /\ after.roles = changed.roles
           /\ after.impact = changed.impact
           /\ after.derived = changed.derived
           /\ after.override = changed.override
           /\ after.status = IF cmd.kind \in {"triage", "transition"}
                             THEN Target(cmd) ELSE row.status
           /\ after.disposition = IF cmd.kind = "disposition"
                                  THEN cmd.disposition ELSE row.disposition
<1> DEFINE after == Applied(row, cmd)
           changed == Changed(row, cmd)
<1>1. /\ changed.status = IF cmd.kind \in {"triage", "transition"}
                          THEN Target(cmd) ELSE row.status
      /\ changed.disposition = IF cmd.kind = "disposition"
                               THEN cmd.disposition ELSE row.disposition
  <2>1. CASE cmd.kind = "triage"
    <3>1. changed = Triaged(row, cmd)
      BY <2>1, ChangedForms
    <3>2. /\ Reassessed(row, cmd).disposition = row.disposition
          /\ DOMAIN Reassessed(row, cmd) = DOMAIN row
          /\ "status" \in DOMAIN row
      BY DEF Reassessed, IncidentRows
    <3>3. /\ Triaged(row, cmd).status = "triage"
          /\ Triaged(row, cmd).disposition = Reassessed(row, cmd).disposition
      BY <3>2 DEF Triaged, Reassessed, IncidentRows
    <3> HIDE DEF changed
    <3> QED BY <2>1, <3>1, <3>2, <3>3 DEF Target
  <2>2. CASE cmd.kind = "transition"
    <3>1. changed = [row EXCEPT !.status = cmd.target]
      BY <2>2, ChangedForms
    <3>2. /\ changed.status = cmd.target
          /\ changed.disposition = row.disposition
      BY <3>1 DEF IncidentRows
    <3> HIDE DEF changed
    <3> QED BY <2>2, <3>2 DEF Target
  <2>3. CASE cmd.kind = "reassess"
    <3>1. changed = Reassessed(row, cmd)
      BY <2>3, ChangedForms
    <3>2. /\ changed.status = row.status
          /\ changed.disposition = row.disposition
      BY <3>1 DEF Reassessed, IncidentRows
    <3> HIDE DEF changed
    <3> QED BY <2>3, <3>2
  <2>4. CASE cmd.kind = "override"
    <3>1. changed = [row EXCEPT !.override = {cmd.selected}]
      BY <2>4, ChangedForms
    <3>2. /\ changed.status = row.status
          /\ changed.disposition = row.disposition
      BY <3>1 DEF IncidentRows
    <3> HIDE DEF changed
    <3> QED BY <2>4, <3>2
  <2>5. CASE cmd.kind = "disposition"
    <3>1. changed = [row EXCEPT !.disposition = cmd.disposition,
                               !.duplicateOf = cmd.duplicateOf]
      BY <2>5, ChangedForms
    <3>2. /\ changed.status = row.status
          /\ changed.disposition = cmd.disposition
      BY <3>1 DEF IncidentRows
    <3> HIDE DEF changed
    <3> QED BY <2>5, <3>2
  <2>6. CASE cmd.kind \in {"assign", "replace", "release"}
    <3>1. changed = RoleApplied(row, cmd)
      BY <2>6, ChangedForms
    <3>2. /\ RoleApplied(row, cmd).status = row.status
          /\ RoleApplied(row, cmd).disposition = row.disposition
      BY DEF RoleApplied, IncidentRows
    <3> QED BY <2>6, <3>1, <3>2
  <2> QED BY <2>1, <2>2, <2>3, <2>4, <2>5, <2>6, VersionedKinds
<1>2. /\ after.roles = changed.roles
      /\ after.impact = changed.impact
      /\ after.derived = changed.derived
      /\ after.override = changed.override
      /\ after.status = changed.status
      /\ after.disposition = changed.disposition
  BY ChangedType DEF Applied, Advanced, IncidentRows
<1> QED BY <1>1, <1>2
\* Told is a tale, and an assessment holds what is told of a severity.
LEMMA ToldIsTale ==
    ASSUME NEW row
    PROVE  /\ Told(row) = Tale(row.status, CurrentSeverity(row), row.override,
                               row.disposition, row.roles)
           /\ Assessment(row).severity = CurrentSeverity(row)
           /\ Assessment(row).override = row.override
BY DEF Told, Tale, Assessment

LEMMA SameSeverity ==
    ASSUME NEW a, NEW b, a.override = b.override, a.derived = b.derived
    PROVE  CurrentSeverity(a) = CurrentSeverity(b)
BY DEF CurrentSeverity

\* Taking a role from all who hold it leaves the others' roles.
LEMMA HoldersRemoved ==
    ASSUME NEW row \in IncidentRows, NEW role
    PROVE  WithoutRole(row, role)
              = row.roles \ {<<role, p>> : p \in Holders(row, role)}
<1>1. row.roles \subseteq Roles \X Principals
  BY DEF IncidentRows, Assignments
<1>2. ASSUME NEW a \in row.roles, a[1] = role
      PROVE  a \in {<<role, p>> : p \in Holders(row, role)}
  <2>1. a = <<role, a[2]>> /\ a[2] \in Principals
    BY <1>1, <1>2
  <2>2. a[2] \in Holders(row, role)
    BY <2>1 DEF Holders
  <2> QED BY <2>1, <2>2
<1>3. ASSUME NEW a \in {<<role, p>> : p \in Holders(row, role)}
      PROVE  a[1] = role
  OBVIOUS
<1> QED BY <1>2, <1>3 DEF WithoutRole

\* A command's one event, told on the row it was accepted on.
LEMMA OneEventTold ==
    ASSUME NEW row \in IncidentRows, NEW rid \in RequestIds,
           NEW cmd \in VersionedCommands, Accepts(row, cmd),
           cmd.kind \notin {"triage", "transition"}
    PROVE  \E e \in TimelineEvents : /\ Events(row, rid, cmd) = << e >>
                                     /\ Audit(Told(row), e) = Told(Applied(row, cmd))
<1> DEFINE after == Applied(row, cmd)
           sev == CurrentSeverity(row)
<1>1. /\ Told(row) = Tale(row.status, sev, row.override, row.disposition, row.roles)
      /\ Told(after) = Tale(after.status, CurrentSeverity(after), after.override,
                            after.disposition, after.roles)
  BY ToldIsTale
<1>2. CASE cmd.kind \in {"reassess", "override"}
  <2> DEFINE e == SeverityEvent(row, rid, cmd)
  <2>1. Events(row, rid, cmd) = << e >> /\ e \in TimelineEvents
    BY <1>2, EventType DEF Events
  <2>2. /\ after.status = row.status /\ after.disposition = row.disposition
        /\ after.roles = row.roles
    <3>1. /\ after.status = row.status /\ after.disposition = row.disposition
          /\ after.roles = Changed(row, cmd).roles
      BY <1>2, AppliedFields
    <3>2. Changed(row, cmd).roles = row.roles
      BY <1>2, ChangedRoles
    <3> QED BY <3>1, <3>2
  <2>3. Audit(Tale(row.status, sev, row.override, row.disposition, row.roles), e)
          = Tale(row.status, CurrentSeverity(after), after.override,
                 row.disposition, row.roles)
    BY SeverityTold
  <2> HIDE DEF e, after, sev
  <2> QED BY <1>1, <2>1, <2>2, <2>3 DEF after
<1>3. CASE cmd.kind = "disposition"
  <2> DEFINE e == DispositionEvent(row, rid, cmd)
  <2>1. Events(row, rid, cmd) = << e >> /\ e \in TimelineEvents
    BY <1>3, EventType DEF Events
  <2>2. /\ after.status = row.status /\ after.disposition = cmd.disposition
        /\ after.roles = row.roles /\ after.override = row.override
        /\ after.derived = row.derived
    <3>1. /\ after.status = row.status /\ after.disposition = cmd.disposition
          /\ after.roles = Changed(row, cmd).roles
          /\ after.override = Changed(row, cmd).override
          /\ after.derived = Changed(row, cmd).derived
      BY <1>3, AppliedFields
    <3>2. Changed(row, cmd).roles = row.roles
      BY <1>3, ChangedRoles
    <3>3. /\ Changed(row, cmd).override = row.override
          /\ Changed(row, cmd).derived = row.derived
      BY <1>3, ChangedSeverity
    <3> QED BY <3>1, <3>2, <3>3
  <2>3. Audit(Tale(row.status, sev, row.override, row.disposition, row.roles), e)
          = Tale(row.status, sev, row.override, cmd.disposition, row.roles)
    BY DispositionTold
  <2>4. CurrentSeverity(after) = sev
    BY <2>2 DEF CurrentSeverity
  <2> HIDE DEF e, after, sev
  <2> QED BY <1>1, <2>1, <2>2, <2>3, <2>4 DEF after
<1>4. CASE cmd.kind \in {"assign", "replace", "release"}
  <2> DEFINE e == RoleCommandEvent(row, rid, cmd)
             holders == Holders(row, cmd.role)
             one == <<cmd.role, cmd.principal>>
  <2>1. Events(row, rid, cmd) = << e >> /\ e \in TimelineEvents
    BY <1>4, EventType DEF Events
  <2>2. /\ after.status = row.status /\ after.disposition = row.disposition
        /\ after.override = row.override /\ after.derived = row.derived
        /\ after.roles = Changed(row, cmd).roles
    BY <1>4, AppliedFields, ChangedSeverity
  <2>3. CurrentSeverity(after) = sev
    BY <2>2 DEF CurrentSeverity
  <2>4. PICK previous, current :
           /\ e = RoleEvent(row, rid, cmd.role, previous, current)
           /\ \A p \in previous : <<cmd.role, p>> \in row.roles
           /\ after.roles = (row.roles \ {<<cmd.role, p>> : p \in previous})
                               \cup {<<cmd.role, p>> : p \in current}
    <3> HIDE DEF after
    <3>1. CASE cmd.kind = "assign"
      <4>1. e = RoleEvent(row, rid, cmd.role, {}, {cmd.principal})
        BY <3>1 DEF RoleCommandEvent
      <4>2. after.roles = row.roles \cup {one}
        BY <3>1, <2>2, ChangedRoles
      <4>3. row.roles \cup {one} = (row.roles \ {<<cmd.role, p>> : p \in {}})
                                      \cup {<<cmd.role, p>> : p \in {cmd.principal}}
        OBVIOUS
      <4> HIDE DEF e, one
      <4> QED BY <4>1, <4>2, <4>3
    <3>2. CASE cmd.kind = "replace"
      <4>1. e = RoleEvent(row, rid, cmd.role, holders, {cmd.principal})
        BY <3>2 DEF RoleCommandEvent
      <4>2. after.roles = WithoutRole(row, cmd.role) \cup {one}
        BY <3>2, <2>2, ChangedRoles
      <4>3. WithoutRole(row, cmd.role) = row.roles \ {<<cmd.role, p>> : p \in holders}
        BY HoldersRemoved
      <4>4. \A p \in holders : <<cmd.role, p>> \in row.roles
        BY DEF Holders
      <4>5. {one} = {<<cmd.role, p>> : p \in {cmd.principal}}
        OBVIOUS
      <4> HIDE DEF e, one, holders
      <4> QED BY <4>1, <4>2, <4>3, <4>4, <4>5
    <3>3. CASE cmd.kind = "release"
      <4>1. e = RoleEvent(row, rid, cmd.role, {cmd.principal}, {})
        BY <3>3 DEF RoleCommandEvent
      <4>2. after.roles = row.roles \ {one}
        BY <3>3, <2>2, ChangedRoles
      <4>3. one \in row.roles
        BY <3>3 DEF Accepts, RoleAccepted, Holders
      <4>4. row.roles \ {one} =
              (row.roles \ {<<cmd.role, p>> : p \in {cmd.principal}})
                 \cup {<<cmd.role, p>> : p \in {}}
        OBVIOUS
      <4>5. \A p \in {cmd.principal} : <<cmd.role, p>> \in row.roles
        BY <4>3
      <4> HIDE DEF e, one
      <4> QED BY <4>1, <4>2, <4>4, <4>5
    <3> QED BY <1>4, <3>1, <3>2, <3>3
  <2>5. Audit(Tale(row.status, sev, row.override, row.disposition, row.roles), e)
          = Tale(row.status, sev, row.override, row.disposition, after.roles)
    <3> HIDE DEF e, after, sev
    <3> QED BY <2>4, RolesTold
  <2> HIDE DEF e, after, sev
  <2> QED BY <1>1, <2>1, <2>2, <2>3, <2>5 DEF after
<1> QED BY <1>2, <1>3, <1>4, VersionedKinds

\* One sequence after another.
Cat(s, t) == s \o t

\* Sequences are put one after another in any grouping.
LEMMA CatAssociative ==
    ASSUME NEW S
    PROVE  \A u, v, w \in Seq(S) : /\ Cat(u, v) \in Seq(S)
                                   /\ Cat(Cat(u, v), w) = Cat(u, Cat(v, w))
<1>1. \A u, v \in Seq(S) : u \o v \in Seq(S)
  OBVIOUS
<1>2. \A u, v, w \in Seq(S) : (u \o v) \o w = u \o (v \o w)
  BY ConcatAssociative
<1> QED BY <1>1, <1>2 DEF Cat

\* Three sequences appended one after the other are appended as one.
LEMMA Reassociated ==
    ASSUME NEW S, NEW a \in Seq(S), NEW b \in Seq(S), NEW c \in Seq(S),
           NEW d \in Seq(S)
    PROVE  Cat(a, Cat(Cat(b, c), d)) = Cat(Cat(Cat(a, b), c), d)
<1> DEFINE both == Cat(b, c)
<1>1. both \in Seq(S) /\ Cat(Cat(a, b), c) = Cat(a, both)
  BY CatAssociative
<1> HIDE DEF both
<1>2. Cat(Cat(a, both), d) = Cat(a, Cat(both, d))
  BY <1>1, CatAssociative
<1> QED BY <1>1, <1>2 DEF both

\* The events of a transition, told on the row it was accepted on: triage
\* tells of the severity and of the owner exactly when it changes them.
LEMMA TransitionTold ==
    ASSUME NEW row \in IncidentRows, NEW rid \in RequestIds,
           NEW cmd \in VersionedCommands, Accepts(row, cmd),
           cmd.kind \in {"triage", "transition"}
    PROVE  \A t \in Seq(TimelineEvents) : Folded(t) = Told(row) =>
              Folded(t \o Events(row, rid, cmd)) = Told(Applied(row, cmd))
<1> DEFINE after == Applied(row, cmd)
           before == CurrentSeverity(row)
           told == CurrentSeverity(after)
           holders == Holders(row, "owner")
           status == StatusEvent(row, rid, cmd)
           severity == SeverityEvent(row, rid, cmd)
           owner == RoleEvent(row, rid, "owner", holders, {cmd.owner})
           triaged == cmd.kind = "triage"
           second == IF triaged /\ Assessment(after) # Assessment(row)
                     THEN << severity >> ELSE << >>
           third == IF triaged /\ holders # {cmd.owner}
                    THEN << owner >> ELSE << >>
           moved == Tale(after.status, before, row.override, row.disposition,
                         row.roles)
           assessed == Tale(after.status, told, after.override, row.disposition,
                            row.roles)
<1>1. /\ status \in TimelineEvents /\ severity \in TimelineEvents
      /\ triaged => owner \in TimelineEvents
  BY EventType
<1>2. /\ after.status = Target(cmd) /\ after.disposition = row.disposition
      /\ after.roles = Changed(row, cmd).roles
  BY AppliedFields
<1>3. ~triaged => /\ after.override = row.override
                  /\ after.roles = row.roles
                  /\ told = before
  <2>1. ~triaged => /\ after.override = row.override
                    /\ after.derived = row.derived
                    /\ after.roles = row.roles
    <3>1. /\ after.override = Changed(row, cmd).override
          /\ after.derived = Changed(row, cmd).derived
      BY AppliedFields
    <3>2. ~triaged => /\ Changed(row, cmd).override = row.override
                      /\ Changed(row, cmd).derived = row.derived
      BY ChangedSeverity
    <3>3. ~triaged => Changed(row, cmd).roles = row.roles
      BY ChangedRoles
    <3> QED BY <1>2, <3>1, <3>2, <3>3
  <2> HIDE DEF triaged, after
  <2> QED BY <2>1, SameSeverity
<1>4. triaged /\ holders = {cmd.owner} => after.roles = row.roles
  BY <1>2, ChangedRoles
<1>5. triaged /\ holders # {cmd.owner} =>
        after.roles = (row.roles \ {<<"owner", p>> : p \in holders})
                         \cup {<<"owner", p>> : p \in {cmd.owner}}
  <2>1. triaged /\ holders # {cmd.owner} =>
          after.roles = WithoutRole(row, "owner") \cup {<<"owner", cmd.owner>>}
    BY <1>2, ChangedRoles
  <2>2. {<<"owner", cmd.owner>>} = {<<"owner", p>> : p \in {cmd.owner}}
    OBVIOUS
  <2> HIDE DEF triaged, after
  <2> QED BY <2>1, <2>2, HoldersRemoved
<1>6. Assessment(after) = Assessment(row) =>
        told = before /\ after.override = row.override
  BY ToldIsTale
<1>7. Audit(Told(row), status) = moved
  <2>1. Audit(Tale(row.status, before, row.override, row.disposition, row.roles),
              status)
          = Tale(Target(cmd), before, row.override, row.disposition, row.roles)
    BY StatusTold
  <2>2. Told(row)
          = Tale(row.status, before, row.override, row.disposition, row.roles)
    BY ToldIsTale
  <2> HIDE DEF status, before, after
  <2> QED BY <1>2, <2>1, <2>2
<1>8. Audit(moved, severity) = assessed
  BY SeverityTold
<1>9. second = << >> => assessed = moved
  <2>1. << severity >> # << >>
    OBVIOUS
  <2> HIDE DEF severity, told, before, after, triaged
  <2> QED BY <1>3, <1>6, <2>1
<1>10. third = << >> => assessed = Told(after)
  <2>1. << owner >> # << >>
    OBVIOUS
  <2>2. third = << >> => after.roles = row.roles
    <3> HIDE DEF owner, holders, after, triaged
    <3> QED BY <1>3, <1>4, <2>1
  <2>3. Told(after) = Tale(after.status, told, after.override, after.disposition,
                           after.roles)
    BY ToldIsTale
  <2> HIDE DEF third, told, after
  <2> QED BY <1>2, <2>2, <2>3
<1>11. triaged /\ holders # {cmd.owner} => Audit(assessed, owner) = Told(after)
  <2>1. \A p \in holders : <<"owner", p>> \in row.roles
    BY DEF Holders
  <2>2. Audit(assessed, owner)
          = Tale(after.status, told, after.override, row.disposition,
                 (row.roles \ {<<"owner", p>> : p \in holders})
                    \cup {<<"owner", p>> : p \in {cmd.owner}})
    <3> HIDE DEF told, after, holders
    <3> QED BY <2>1, RolesTold
  <2>3. Told(after) = Tale(after.status, told, after.override, after.disposition,
                           after.roles)
    BY ToldIsTale
  <2> HIDE DEF assessed, owner, holders, told, after, triaged
  <2> QED BY <1>2, <1>5, <2>2, <2>3
<1>12. /\ \/ second = << >>
          \/ second = << severity >>
       /\ \/ third = << >>
          \/ third = << owner >> /\ triaged /\ holders # {cmd.owner}
  <2> HIDE DEF severity, owner, holders, after
  <2>1. second = << >> \/ second = << severity >>
    OBVIOUS
  <2>2. \/ third = << >>
        \/ third = << owner >> /\ triaged /\ holders # {cmd.owner}
    OBVIOUS
  <2> QED BY <2>1, <2>2
<1>13. Events(row, rid, cmd) = (<< status >> \o second) \o third
  BY DEF Events, TransitionEvents
<1> HIDE DEF after, status, severity, owner, holders, triaged, second, third,
             moved, assessed
<1>14. ASSUME NEW t \in Seq(TimelineEvents), Folded(t) = Told(row)
       PROVE  Folded(t \o Events(row, rid, cmd)) = Told(after)
  <2> DEFINE first == << status >>
             one == t \o first
             two == one \o second
             three == two \o third
  <2>1. /\ first \in Seq(TimelineEvents)
        /\ second \in Seq(TimelineEvents)
        /\ third \in Seq(TimelineEvents)
    <3>1. first \in Seq(TimelineEvents) /\ << >> \in Seq(TimelineEvents)
      BY <1>1
    <3>2. second \in Seq(TimelineEvents)
      <4>1. << severity >> \in Seq(TimelineEvents)
        BY <1>1
      <4> QED BY <1>12, <3>1, <4>1
    <3>3. third \in Seq(TimelineEvents)
      <4>1. triaged => << owner >> \in Seq(TimelineEvents)
        BY <1>1
      <4> QED BY <1>12, <3>1, <4>1
    <3> QED BY <3>1, <3>2, <3>3
  <2>2. Folded(one) = moved
    BY <1>1, <1>7, <1>14, ToldNext
  <2> HIDE DEF first
  <2>3. one \in Seq(TimelineEvents)
    BY <2>1, ConcatProperties
  <2> HIDE DEF one
  <2>4. Folded(two) = assessed
    <3>1. CASE second = << >>
      <4>1. two = one
        BY <2>3, <3>1, ConcatEmptySeq
      <4> QED BY <1>9, <2>2, <3>1, <4>1
    <3>2. CASE second = << severity >>
      BY <1>1, <1>8, <2>2, <2>3, <3>2, ToldNext
    <3> QED BY <1>12, <3>1, <3>2
  <2>5. two \in Seq(TimelineEvents)
    BY <2>1, <2>3, ConcatProperties
  <2> HIDE DEF two
  <2>6. Folded(three) = Told(after)
    <3>1. CASE third = << >>
      <4>1. three = two
        BY <2>5, <3>1, ConcatEmptySeq
      <4> QED BY <1>10, <2>4, <3>1, <4>1
    <3>2. CASE third = << owner >> /\ triaged /\ holders # {cmd.owner}
      BY <1>1, <1>11, <2>4, <2>5, <3>2, ToldNext
    <3> QED BY <1>12, <3>1, <3>2
  <2>7. t \o Events(row, rid, cmd) = three
    <3>1. Cat(t, Cat(Cat(first, second), third)) = Cat(Cat(Cat(t, first), second), third)
      BY <2>1, Reassociated
    <3>2. Events(row, rid, cmd) = Cat(Cat(first, second), third)
      BY <1>13 DEF first, Cat
    <3>3. three = Cat(Cat(Cat(t, first), second), third)
      BY DEF one, two, Cat
    <3>4. t \o Events(row, rid, cmd) = Cat(t, Events(row, rid, cmd))
      BY DEF Cat
    <3> HIDE DEF three
    <3> QED BY <3>1, <3>2, <3>3, <3>4
  <2> QED BY <2>6, <2>7
<1> QED BY <1>14 DEF after
\* Whatever an accepted command changes, its events tell of.
LEMMA CommandTold ==
    ASSUME NEW row \in IncidentRows, NEW rid \in RequestIds,
           NEW cmd \in VersionedCommands, Accepts(row, cmd),
           NEW t \in Seq(TimelineEvents), Folded(t) = Told(row)
    PROVE  Folded(t \o Events(row, rid, cmd)) = Told(Applied(row, cmd))
<1>1. CASE cmd.kind \in {"triage", "transition"}
  BY <1>1, TransitionTold
<1>2. CASE cmd.kind \notin {"triage", "transition"}
  <2>1. PICK e \in TimelineEvents :
           /\ Events(row, rid, cmd) = << e >>
           /\ Audit(Told(row), e) = Told(Applied(row, cmd))
    BY <1>2, OneEventTold
  <2>2. Folded(t \o << e >>) = Audit(Folded(t), e)
    BY ToldNext
  <2> QED BY <2>1, <2>2
<1> QED BY <1>1, <1>2

\* A comment changes nothing.
LEMMA CommentTold ==
    ASSUME NEW rid \in RequestIds, NEW cmd \in CommentCommands,
           NEW t \in Seq(TimelineEvents)
    PROVE  Folded(t \o CommentEvents(rid, cmd)) = Folded(t)
<1> DEFINE e == TimelineEvent(rid, "commented", [body |-> cmd.body])
<1>1. e \in TimelineEvents
  BY DEF TimelineEvent, TimelineEvents, CommentCommands
<1>2. e.kind = "commented" /\ CommentEvents(rid, cmd) = << e >>
  BY DEF TimelineEvent, CommentEvents
<1> HIDE DEF e
<1>3. Folded(t \o << e >>) = Audit(Folded(t), e)
  BY <1>1, ToldNext
<1> QED BY <1>2, <1>3, OthersTold

\* Two events, one after the other.
LEMMA TwoEvents ==
    ASSUME NEW a, NEW b
    PROVE  (<< >> \o << a >>) \o << b >> = << a, b >>
<1> DEFINE S == {a, b}
<1>1. << a >> \in Seq(S) /\ << b >> \in Seq(S) /\ << >> \in Seq(S)
  OBVIOUS
<1>2. << >> \o << a >> = << a >>
  BY <1>1, ConcatEmptySeq
<1> DEFINE t == << a >> \o << b >>
<1>3. /\ t \in Seq(S) /\ Len(t) = 2 /\ t[1] = a /\ t[2] = b
  OBVIOUS
<1>4. t \in [1 .. 2 -> S]
  BY <1>3, LenProperties
<1>5. t = << a, b >>
  <2>1. << a, b >> \in [1 .. 2 -> S] /\ << a, b >>[1] = a /\ << a, b >>[2] = b
    OBVIOUS
  <2> HIDE DEF t, S
  <2>2. \A k \in 1 .. 2 : k = 1 \/ k = 2
    OBVIOUS
  <2> QED BY <1>3, <1>4, <2>1, <2>2
<1> QED BY <1>2, <1>5

\* A creation's events tell of the row created.
LEMMA CreationTold ==
    ASSUME NEW rid \in RequestIds, NEW cmd \in CreateCommands
    PROVE  Folded(CreationEvents(rid, cmd)) = Told(CreatedRow(rid, cmd))
<1> DEFINE row == CreatedRow(rid, cmd)
           a == TimelineEvent(rid, "incident_created",
                              [severity |-> DeriveSeverity[cmd.impact],
                               roles |-> cmd.roles])
           b == TimelineEvent(rid, "triggers_attached", [attached |-> TRUE])
           all == {a, b}
           t == << >> \o << a >>
<1>1. Folded(t) = Audit(Blank, a)
  <2>1. << >> \in Seq(all) /\ a \in all
    OBVIOUS
  <2> HIDE DEF all, a
  <2> QED BY <2>1, NothingTold, ToldNext
<1>2. Audit(Blank, a) = Told(row)
  <2>1. Audit(Blank, a) = Tale("detected", DeriveSeverity[cmd.impact], {}, "none",
                               cmd.roles)
    BY DEF Audit, Blank, Tale, TimelineEvent
  <2>2. Told(row) = Tale("detected", DeriveSeverity[cmd.impact], {}, "none",
                         cmd.roles)
    BY DEF Told, Tale, CurrentSeverity, CreatedRow
  <2> QED BY <2>1, <2>2
<1>3. Folded(t \o << b >>) = Folded(t)
  <2>1. t \in Seq(all) /\ b \in all
    OBVIOUS
  <2>2. b.kind = "triggers_attached"
    BY DEF TimelineEvent
  <2> HIDE DEF t, b, all
  <2> QED BY <2>1, <2>2, ToldNext, OthersTold
<1>4. t \o << b >> = CreationEvents(rid, cmd)
  <2>1. CreationEvents(rid, cmd) = << a, b >>
    BY DEF CreationEvents
  <2> HIDE DEF a, b
  <2> QED BY <2>1, TwoEvents
<1> QED BY <1>1, <1>2, <1>3, <1>4

\* One incident's timeline and row.
Explains(t, row) ==
    IF row # NoIncident THEN Folded(t) = Told(row) ELSE t = << >>

LEMMA ExplainsSuffices ==
    TimelineExplainsRow <=> \A i \in IncidentIds : Explains(timeline[i], incident[i])
BY DEF TimelineExplainsRow, Explains, Exists, Told

LEMMA ExplainedByStep ==
    ASSUME LogInv, TimelineExplainsRow, LogNext,
           NEW i \in IncidentIds
    PROVE  Explains(timeline'[i], incident'[i])
<1>1. Explains(timeline[i], incident[i])
  BY ExplainsSuffices
<1>2. LogTypeOK
  BY DEF LogInv
<1>3. timeline[i] \in Seq(TimelineEvents)
  BY <1>2 DEF LogTypeOK
<1>4. PICK r \in Requests : \/ \E j \in IncidentIds : Create(j, r)
                            \/ Mutate(r)
                            \/ Comment(r)
  BY DEF LogNext
<1>5. r.rid \in RequestIds /\ r.cmd \in Commands
  BY RequestsAssumption
<1>6. ASSUME NEW j \in IncidentIds, Create(j, r)
      PROVE  Explains(timeline'[i], incident'[i])
  <2>1. r.cmd \in CreateCommands
    BY <1>5, <1>6, VersionedKinds DEF Create, Commands, CommentCommands
  <2>2. CASE i = j
    <3>1. /\ incident'[i] = CreatedRow(r.rid, r.cmd)
          /\ timeline'[i] = CreationEvents(r.rid, r.cmd)
      BY <1>2, <1>6, <2>2 DEF Create, LogTypeOK
    <3>2. incident'[i] # NoIncident
      BY <3>1, <1>5, <2>1, CreatedRowType, NoIncidentIsNoRow
    <3>3. Folded(timeline'[i]) = Told(incident'[i])
      BY <3>1, <1>5, <2>1, CreationTold
    <3> QED BY <3>2, <3>3 DEF Explains
  <2>3. CASE i # j
    <3>1. incident'[i] = incident[i] /\ timeline'[i] = timeline[i]
      BY <1>2, <1>6, <2>3 DEF Create, LogTypeOK
    <3> QED BY <1>1, <3>1
  <2> QED BY <2>2, <2>3
<1>7. ASSUME Mutate(r)
      PROVE  Explains(timeline'[i], incident'[i])
  <2> DEFINE row == incident[i]
  <2>1. r.cmd \in VersionedCommands /\ r.cmd.incident \in IncidentIds
    BY <1>7, VersionedKinds DEF Mutate
  <2>2. CASE i = r.cmd.incident
    <3>1. /\ incident'[i] = Applied(row, r.cmd)
          /\ timeline'[i] = timeline[i] \o Events(row, r.rid, r.cmd)
          /\ Exists(i) /\ Accepts(row, r.cmd)
      BY <1>2, <1>7, <2>2 DEF Mutate, LogTypeOK
    <3>2. row \in IncidentRows /\ Folded(timeline[i]) = Told(row)
      BY <1>1, <1>2, <3>1, ExistsRow DEF Explains, Exists
    <3>3. incident'[i] # NoIncident
      BY <2>1, <3>1, <3>2, AppliedType, NoIncidentIsNoRow
    <3>4. Folded(timeline'[i]) = Told(incident'[i])
      <4> HIDE DEF row
      <4> QED BY <1>3, <1>5, <2>1, <3>1, <3>2, CommandTold
    <3> QED BY <3>3, <3>4 DEF Explains
  <2>3. CASE i # r.cmd.incident
    <3>1. incident'[i] = incident[i] /\ timeline'[i] = timeline[i]
      BY <1>2, <1>7, <2>3 DEF Mutate, LogTypeOK
    <3> QED BY <1>1, <3>1
  <2> QED BY <2>2, <2>3
<1>8. ASSUME Comment(r)
      PROVE  Explains(timeline'[i], incident'[i])
  <2>1. r.cmd \in CommentCommands
    BY <1>5, <1>8, VersionedKinds DEF Comment, Commands, CreateCommands
  <2>2. incident'[i] = incident[i]
    BY <1>8 DEF Comment
  <2>3. CASE i = r.cmd.incident
    <3>1. /\ timeline'[i] = timeline[i] \o CommentEvents(r.rid, r.cmd)
          /\ incident[i] # NoIncident
      BY <1>2, <1>8, <2>3 DEF Comment, Exists, LogTypeOK
    <3>2. Folded(timeline'[i]) = Folded(timeline[i])
      BY <1>3, <1>5, <2>1, <3>1, CommentTold
    <3> QED BY <1>1, <2>2, <3>1, <3>2 DEF Explains
  <2>4. CASE i # r.cmd.incident
    <3>1. timeline'[i] = timeline[i]
      BY <1>2, <1>8, <2>4 DEF Comment, LogTypeOK
    <3> QED BY <1>1, <2>2, <3>1
  <2> QED BY <2>3, <2>4
<1> QED BY <1>4, <1>6, <1>7, <1>8

\* Folding a stored timeline from nothing always gives the stored row: the
\* audit trail of an incident explains its status, severity, disposition and
\* roles, for every history of accepted requests.
THEOREM TimelinesExplain == LogSpec => []TimelineExplainsRow
<1>1. LogInit => TimelineExplainsRow
  BY DEF LogInit, TimelineExplainsRow, Exists
<1>2. LogInv /\ TimelineExplainsRow /\ [LogNext]_logVars => TimelineExplainsRow'
  <2>1. ASSUME LogInv, TimelineExplainsRow, LogNext PROVE TimelineExplainsRow'
    <3>1. \A i \in IncidentIds : Explains(timeline'[i], incident'[i])
      BY <2>1, ExplainedByStep
    <3> QED BY <3>1 DEF TimelineExplainsRow, Explains, Exists, Told
  <2>2. ASSUME TimelineExplainsRow, UNCHANGED logVars PROVE TimelineExplainsRow'
    BY <2>2 DEF TimelineExplainsRow, Exists, logVars
  <2> QED BY <2>1, <2>2
<1> QED BY <1>1, <1>2, LogInvariant, PTL DEF LogSpec

-----------------------------------------------------------------------------
(***************************************************************************)
(* The store implements the log                                            *)
(***************************************************************************)

-----------------------------------------------------------------------------
(* Inserting at the sequences after the highest one is appending. *)

LEMMA HighestSequenceIsLen ==
    ASSUME NEW S, NEW t \in Seq(S)
    PROVE  HighestSequence(t) = Len(t)
<1>1. Len(t) \in Nat /\ DOMAIN t = 1 .. Len(t)
  BY LenProperties
<1>2. CASE Len(t) = 0
  BY <1>1, <1>2 DEF HighestSequence
<1>3. CASE Len(t) > 0
  <2> DEFINE last == CHOOSE n \in DOMAIN t : \A m \in DOMAIN t : m <= n
  <2>1. Len(t) \in DOMAIN t /\ \A m \in DOMAIN t : m <= Len(t)
    BY <1>1, <1>3
  <2>2. last \in DOMAIN t /\ \A m \in DOMAIN t : m <= last
    BY <2>1
  <2>3. HighestSequence(t) = last
    BY <2>1 DEF HighestSequence
  <2> HIDE DEF last
  <2> QED BY <1>1, <2>1, <2>2, <2>3
<1> QED BY <1>1, <1>2, <1>3

LEMMA InsertEventsAppends ==
    ASSUME NEW S, NEW t \in Seq(S), NEW evs \in Seq(S)
    PROVE  InsertEvents(t, evs) = t \o evs
<1> DEFINE base == Len(t)
           dom == 1 .. base + Len(evs)
           one == InsertEvents(t, evs)
           two == t \o evs
<1>1. /\ base \in Nat /\ DOMAIN t = 1 .. base
      /\ Len(evs) \in Nat /\ DOMAIN evs = 1 .. Len(evs)
  BY LenProperties
<1>2. DOMAIN t \cup {base + k : k \in 1 .. Len(evs)} = dom
  <2>1. ASSUME NEW n \in dom, n > base
        PROVE  n \in {base + k : k \in 1 .. Len(evs)}
    <3>1. n - base \in 1 .. Len(evs) /\ n = base + (n - base)
      BY <1>1, <2>1
    <3> QED BY <3>1
  <2>2. ASSUME NEW n \in {base + k : k \in 1 .. Len(evs)}
        PROVE  n \in dom
    <3>1. PICK k \in 1 .. Len(evs) : n = base + k
      OBVIOUS
    <3> QED BY <1>1, <3>1
  <2>3. ASSUME NEW n \in dom, n <= base
        PROVE  n \in DOMAIN t
    BY <1>1, <2>3
  <2>4. DOMAIN t \subseteq dom
    BY <1>1
  <2>5. \A n \in dom : n <= base \/ n > base
    BY <1>1
  <2> HIDE DEF dom, base
  <2> QED BY <2>1, <2>2, <2>3, <2>4, <2>5
<1>3. one = [n \in dom |-> IF n \in DOMAIN t THEN t[n] ELSE evs[n - base]]
  <2>1. HighestSequence(t) = base
    BY HighestSequenceIsLen
  <2> HIDE DEF dom, base
  <2> QED BY <1>2, <2>1 DEF InsertEvents
<1>4. /\ two = [n \in dom |-> two[n]]
      /\ \A n \in dom : two[n] = IF n <= base THEN t[n] ELSE evs[n - base]
  <2>1. two \in Seq(S) /\ Len(two) = base + Len(evs)
    BY ConcatProperties
  <2>2. two \in [1 .. Len(two) -> S]
    BY <2>1, LenProperties
  <2> QED BY <2>1, <2>2, ConcatProperties
<1>5. \A n \in dom : n \in DOMAIN t <=> n <= base
  BY <1>1
<1> HIDE DEF dom, one, two, base
<1> QED
  <2>1. \A n \in dom :
          (IF n \in DOMAIN t THEN t[n] ELSE evs[n - base]) = two[n]
    BY <1>4, <1>5
  <2>2. one = two
    BY <1>3, <1>4, <2>1
  <2> QED BY <2>2 DEF one, two

-----------------------------------------------------------------------------
(* The inductive invariant.  Besides the types and the freshness of every   *)
(* loaded aggregate it keeps what the phases have established: whose        *)
(* request it is, that its incident is stored, and that the aggregate       *)
(* accepted the command, all of which the write transactions rely on and    *)
(* do not look at again.                                                    *)

VarTypes ==
    /\ updatedAt \in [IncidentIds -> Nat]
    /\ clock \in Nat
    /\ lock \in Callers \cup {Free}
    /\ pc \in [Callers -> Phases]
    /\ req \in [Callers -> Calls \cup {NoCall}]
    /\ snap \in [Callers -> IncidentRows \cup {NoIncident}]
    /\ tries \in [Callers -> 0 .. RetryBudget - 1]
    /\ reply \in [Callers -> Answers]

\* A call in progress is one of the requests.
Requested(call) ==
    /\ call \in Calls
    /\ [rid |-> call.rid, cmd |-> call.cmd] \in Requests

\* The aggregate a caller loaded is an earlier row, or the stored one.
Fresh(call, row) ==
    /\ row \in IncidentRows
    /\ row.version <= incident[call.target].version
    /\ row.version = incident[call.target].version =>
          row = incident[call.target]

\* A creation in progress: accepted, its identifier unused.
CreationOK(call) ==
    /\ Requested(call)
    /\ call.cmd \in CreateCommands
    /\ CreateAccepted(call.cmd)
    /\ ~Exists(call.target)

\* Any other command in progress.
WriteOK(call, phase, row) ==
    /\ Requested(call)
    /\ call.cmd \in VersionedCommands \cup CommentCommands
    /\ call.target = call.cmd.incident
    /\ phase # "preflight" => Exists(call.target)
    /\ phase \in {"hydrate", "apply", "append"} => Fresh(call, row)
    /\ phase = "apply" =>
          call.cmd \in VersionedCommands /\ Accepts(row, call.cmd)
    /\ phase = "append" => call.cmd \in CommentCommands /\ call.cmd.complete

CallOK(c) ==
    /\ pc[c] = "create" => CreationOK(req[c])
    /\ pc[c] \notin {"idle", "create"} => WriteOK(req[c], pc[c], snap[c])

\* Two creations in progress never share an identifier.
TargetsDistinct ==
    \A c, d \in Callers :
        pc[c] = "create" /\ pc[d] = "create" /\ req[c].target = req[d].target
        => c = d

CallsOK == \A c \in Callers : CallOK(c)

IInv == LogInv /\ VarTypes /\ CallsOK /\ TargetsDistinct /\ CreatedOnce

LEMMA InitInv == Init => IInv
<1> SUFFICES ASSUME Init PROVE IInv
  OBVIOUS
<1>1. LogInv
  BY LogInitInv DEF Init
<1>2. VarTypes
  BY BudgetAssumption DEF Init, VarTypes, Phases, Answers
<1>3. CallsOK /\ TargetsDistinct
  BY DEF Init, CallsOK, CallOK, TargetsDistinct
<1>4. CreatedOnce
  BY DEF Init, LogInit, CreatedOnce, Exists
<1> QED BY <1>1, <1>2, <1>3, <1>4 DEF IInv

-----------------------------------------------------------------------------
(* Frame lemmas: what a step of one caller does to its own variables, to    *)
(* the rows, and to what is known of the other callers.                     *)

\* The variables of every other caller are left alone.
OthersKeep(c) ==
    \A d \in Callers \ {c} :
        pc'[d] = pc[d] /\ req'[d] = req[d] /\ snap'[d] = snap[d]

\* Rows are never lost, only replaced by a later version; a new one appears
\* only where the caller c was creating it.
RowsAdvance(c) ==
    \A i \in IncidentIds :
        /\ Exists(i) =>
              /\ Exists(i)'
              /\ incident'[i] \in IncidentRows
              /\ incident[i].version <= incident'[i].version
              /\ incident[i].version = incident'[i].version =>
                    incident'[i] = incident[i]
        /\ ~Exists(i) /\ Exists(i)' => pc[c] = "create" /\ req[c].target = i

LEMMA RowsKept ==
    ASSUME IInv, NEW c, UNCHANGED incident
    PROVE  RowsAdvance(c) /\ CreatedOnce'
<1>1. \A i \in IncidentIds : Exists(i) =>
         /\ incident[i] \in IncidentRows
         /\ incident[i].version <= incident[i].version
  BY ExistsRow DEF IInv, LogInv, IncidentRows
<1> QED BY <1>1 DEF IInv, RowsAdvance, Exists, CreatedOnce

\* What held of the other callers' calls still does.
LEMMA OthersOK ==
    ASSUME IInv, NEW c \in Callers, OthersKeep(c), RowsAdvance(c),
           NEW d \in Callers, d # c
    PROVE  CallOK(d)'
<1>1. pc'[d] = pc[d] /\ req'[d] = req[d] /\ snap'[d] = snap[d]
  BY DEF OthersKeep
<1>2. CallOK(d)
  BY DEF IInv, CallsOK
<1>3. ASSUME pc[d] = "create" PROVE CreationOK(req[d])'
  <2>1. CreationOK(req[d])
    BY <1>2, <1>3 DEF CallOK
  <2>2. req[d].target \in IncidentIds
    BY <2>1 DEF CreationOK, Requested, Calls
  <2>3. pc[c] = "create" => req[c].target # req[d].target
    BY <1>3 DEF IInv, TargetsDistinct
  <2>4. ~Exists(req[d].target)'
    BY <2>1, <2>2, <2>3, <1>1 DEF CreationOK, RowsAdvance, Exists
  <2> QED BY <2>1, <2>4, <1>1 DEF CreationOK, Requested
<1>4. ASSUME pc[d] \notin {"idle", "create"}
      PROVE  WriteOK(req[d], pc[d], snap[d])'
  <2> DEFINE i == req[d].target
  <2>1. WriteOK(req[d], pc[d], snap[d])
    BY <1>2, <1>4 DEF CallOK
  <2>2. i \in IncidentIds
    BY <2>1 DEF WriteOK, Requested, Calls
  <2>3. pc[d] # "preflight" => Exists(i) /\ Exists(i)'
    BY <2>1, <2>2, <1>1 DEF WriteOK, RowsAdvance, Exists
  <2>4. ASSUME pc[d] \in {"hydrate", "apply", "append"}
        PROVE  Fresh(req[d], snap[d])'
    <3>1. Fresh(req[d], snap[d]) /\ Exists(i)
      BY <2>1, <2>3, <2>4 DEF WriteOK
    <3>2. /\ incident[i].version <= incident'[i].version
          /\ incident[i].version = incident'[i].version =>
                incident'[i] = incident[i]
          /\ incident[i] \in IncidentRows
      BY <2>2, <3>1, ExistsRow DEF RowsAdvance, IInv, LogInv
    <3>3. incident'[i] \in IncidentRows
      BY <2>2, <3>1 DEF RowsAdvance
    <3>4. /\ snap[d] \in IncidentRows
          /\ snap[d].version <= incident[i].version
          /\ snap[d].version = incident[i].version => snap[d] = incident[i]
      BY <3>1 DEF Fresh
    <3>5. /\ snap[d].version \in Nat
          /\ incident[i].version \in Nat
          /\ incident'[i].version \in Nat
      BY <3>2, <3>3, <3>4 DEF IncidentRows
    <3>6. /\ snap[d].version <= incident'[i].version
          /\ snap[d].version = incident'[i].version => snap[d] = incident'[i]
      BY <3>2, <3>4, <3>5
    <3> QED BY <1>1, <3>4, <3>6 DEF Fresh
  <2> QED BY <2>1, <2>3, <2>4, <1>1 DEF WriteOK, Requested
<1> QED BY <1>1, <1>3, <1>4 DEF CallOK

\* The calls after a step of caller c that leaves it with a sound call.
LEMMA CallsKept ==
    ASSUME IInv, NEW c \in Callers, OthersKeep(c), RowsAdvance(c),
           CallOK(c)',
           pc'[c] = "create" => pc[c] = "create" /\ req'[c] = req[c]
    PROVE  CallsOK' /\ TargetsDistinct'
<1>1. CallsOK'
  BY OthersOK DEF CallsOK
<1>2. \A d \in Callers :
         pc'[d] = "create" => pc[d] = "create" /\ req'[d] = req[d]
  BY DEF OthersKeep
<1>3. TargetsDistinct'
  BY <1>2 DEF IInv, TargetsDistinct
<1> QED BY <1>1, <1>3

\* What every step is shown to give: the rest of the invariant, and a step
\* or a stutter of IncidentLog.
Kept == /\ VarTypes' /\ CallsOK' /\ TargetsDistinct' /\ CreatedOnce'
        /\ [LogNext]_logVars

LEMMA KeptInv == IInv /\ Kept => IInv'
BY LogNextInv DEF IInv, Kept

\* A step that touches neither the rows nor any call.
LEMMA QuietKept ==
    ASSUME IInv, UNCHANGED <<rows, pc, req, snap>>, VarTypes'
    PROVE  Kept
<1>1. UNCHANGED <<incident, timeline, pc, req, snap>>
  BY DEF rows
<1>2. CallsOK' /\ TargetsDistinct' /\ CreatedOnce'
  BY <1>1 DEF IInv, CallsOK, CallOK, CreationOK, WriteOK, Requested, Fresh,
              TargetsDistinct, CreatedOnce, Exists
<1> QED BY <1>1, <1>2 DEF Kept, logVars

LEMMA AnswerFrame ==
    ASSUME VarTypes, NEW c \in Callers, NEW code \in Answers, Answer(c, code)
    PROVE  /\ pc' \in [Callers -> Phases]
           /\ req' \in [Callers -> Calls \cup {NoCall}]
           /\ snap' \in [Callers -> IncidentRows \cup {NoIncident}]
           /\ tries' \in [Callers -> 0 .. RetryBudget - 1]
           /\ reply' \in [Callers -> Answers]
           /\ OthersKeep(c)
           /\ pc'[c] = "idle"
<1>1. "idle" \in Phases
  BY DEF Phases
<1>2. 0 \in 0 .. RetryBudget - 1
  BY BudgetAssumption
<1> QED BY <1>1, <1>2 DEF VarTypes, Answer, OthersKeep

\* A caller that answers without having written.
LEMMA AnswerKept ==
    ASSUME IInv, NEW c \in Callers, NEW code \in Answers, Answer(c, code),
           UNCHANGED <<rows, clock>>, lock' \in Callers \cup {Free}
    PROVE  Kept
<1>1. UNCHANGED <<incident, timeline, updatedAt>>
  BY DEF rows
<1>2. VarTypes'
  BY <1>1, AnswerFrame DEF IInv, VarTypes
<1>3. OthersKeep(c) /\ pc'[c] = "idle"
  BY AnswerFrame DEF IInv
<1>4. CallOK(c)'
  BY <1>3 DEF CallOK
<1>5. RowsAdvance(c) /\ CreatedOnce'
  BY <1>1, RowsKept
<1>6. CallsOK' /\ TargetsDistinct'
  BY <1>3, <1>4, <1>5, CallsKept
<1> QED BY <1>1, <1>2, <1>5, <1>6 DEF Kept, logVars

\* A caller that moves on to another phase, with what the phase may rely on.
LEMMA GotoKept ==
    ASSUME IInv, NEW c \in Callers, NEW phase \in Phases \ {"idle", "create"},
           NEW row \in IncidentRows \cup {NoIncident},
           Goto(c, phase), snap' = [snap EXCEPT ![c] = row],
           WriteOK(req[c], phase, row),
           UNCHANGED <<rows, clock>>, lock' \in Callers \cup {Free}
    PROVE  Kept
<1>1. UNCHANGED <<incident, timeline, updatedAt>>
  BY DEF rows
<1>2. VarTypes'
  BY <1>1 DEF IInv, VarTypes, Goto
<1>3. OthersKeep(c) /\ pc'[c] = phase /\ snap'[c] = row /\ req' = req
  BY DEF IInv, VarTypes, Goto, OthersKeep
<1>4. CallOK(c)'
  BY <1>1, <1>3 DEF CallOK, WriteOK, Requested, Fresh, Exists
<1>5. RowsAdvance(c) /\ CreatedOnce'
  BY <1>1, RowsKept
<1>6. CallsOK' /\ TargetsDistinct'
  BY <1>3, <1>4, <1>5, CallsKept
<1> QED BY <1>1, <1>2, <1>5, <1>6 DEF Kept, logVars

-----------------------------------------------------------------------------
(* One lemma per action. *)

LEMMA TickKept == IInv /\ Tick => Kept
<1> SUFFICES ASSUME IInv, Tick PROVE Kept
  OBVIOUS
<1>1. VarTypes'
  BY DEF IInv, VarTypes, Tick, rows
<1> QED BY <1>1, QuietKept DEF Tick

LEMMA BeginKept ==
    ASSUME IInv, NEW c \in Callers, Begin(c)
    PROVE  Kept
<1>1. VarTypes'
  BY DEF IInv, VarTypes, Begin, rows
<1> QED BY <1>1, QuietKept DEF Begin

\* Contention retries the same attempt or gives up.
LEMMA ContendedKept ==
    ASSUME IInv, NEW c \in Callers, Contended(c), UNCHANGED <<rows, clock>>,
           lock' \in Callers \cup {Free}
    PROVE  Kept
<1>1. CASE Answer(c, "WriteContention")
  BY <1>1, AnswerKept DEF Answers
<1>2. CASE /\ tries[c] + 1 < RetryBudget
           /\ tries' = [tries EXCEPT ![c] = @ + 1]
           /\ UNCHANGED <<pc, req, snap, reply>>
  <2>1. tries[c] + 1 \in 0 .. RetryBudget - 1
    BY <1>2, BudgetAssumption DEF IInv, VarTypes
  <2>2. VarTypes'
    BY <1>2, <2>1 DEF IInv, VarTypes, rows
  <2> QED BY <1>2, <2>2, QuietKept
<1> QED BY <1>1, <1>2 DEF Contended

LEMMA BusyKept ==
    ASSUME IInv, NEW c \in Callers,
           BeginBusy(c) \/ CommitBusy(c) \/ ReadBusy(c)
    PROVE  Kept
<1>1. lock \in Callers \cup {Free}
  BY DEF IInv, VarTypes
<1>2. CASE BeginBusy(c)
  BY <1>1, <1>2, ContendedKept DEF BeginBusy
<1>3. CASE CommitBusy(c)
  BY <1>3, ContendedKept DEF CommitBusy
<1>4. CASE ReadBusy(c)
  BY <1>1, <1>4, AnswerKept DEF ReadBusy, Answers
<1> QED BY <1>2, <1>3, <1>4

LEMMA CrashKept ==
    ASSUME IInv, NEW c \in Callers, Crash(c)
    PROVE  Kept
<1>1. lock' \in Callers \cup {Free}
  BY DEF IInv, VarTypes, Crash
<1> QED BY <1>1, AnswerKept DEF Crash, Answers

LEMMA RefuseCreateKept ==
    ASSUME IInv, NEW c \in Callers, NEW r, RefuseCreate(c, r)
    PROVE  Kept
<1>1. lock' \in Callers \cup {Free}
  BY DEF IInv, VarTypes, RefuseCreate
<1> QED BY <1>1, AnswerKept DEF RefuseCreate, Answers

\* The kinds tell creations, versioned commands and comments apart.
LEMMA CommandKinds ==
    ASSUME NEW cmd \in Commands
    PROVE  /\ cmd.kind = "create" <=> cmd \in CreateCommands
           /\ cmd.kind = "comment" <=> cmd \in CommentCommands
           /\ cmd.kind \notin {"create", "comment"} <=> cmd \in VersionedCommands
<1>1. \A k \in CreateCommands : k.kind = "create"
  BY DEF CreateCommands
<1>2. \A k \in CommentCommands : k.kind = "comment"
  BY DEF CommentCommands
<1> QED BY <1>1, <1>2, VersionedKinds DEF Commands

\* A new call in progress: what Accept does to the caller's variables.
LEMMA AcceptFrame ==
    ASSUME VarTypes, NEW c \in Callers, NEW r \in Requests,
           NEW target \in IncidentIds, NEW expected \in Nat,
           NEW phase \in Phases, Accept(c, r, target, expected, phase)
    PROVE  /\ VarTypes'
           /\ OthersKeep(c)
           /\ pc'[c] = phase
           /\ Requested(req'[c])
           /\ req'[c].cmd = r.cmd
           /\ req'[c].target = target
           /\ UNCHANGED <<incident, timeline>>
<1> DEFINE call == [rid |-> r.rid, cmd |-> r.cmd, target |-> target,
                    expected |-> expected, now |-> clock]
<1>1. /\ r \in [rid : RequestIds, cmd : Commands]
      /\ clock \in Nat
  BY RequestsAssumption DEF VarTypes
<1>2. call \in Calls
  BY <1>1 DEF Calls
<1>3. [rid |-> r.rid, cmd |-> r.cmd] = r
  BY <1>1
<1>4. Requested(call) /\ call.cmd = r.cmd /\ call.target = target
  BY <1>2, <1>3 DEF Requested
<1>5. req' = [req EXCEPT ![c] = call]
  BY DEF Accept
<1> HIDE DEF call
<1>6. req'[c] = call
  BY <1>5 DEF VarTypes
<1>7. VarTypes'
  BY <1>2, <1>5 DEF VarTypes, Accept, rows, Answers
<1>8. OthersKeep(c) /\ pc'[c] = phase
  BY <1>5 DEF VarTypes, Accept, OthersKeep
<1>9. UNCHANGED <<incident, timeline>>
  BY DEF Accept, rows
<1> QED BY <1>4, <1>6, <1>7, <1>8, <1>9

LEMMA DeliverKept ==
    ASSUME IInv, NEW c \in Callers, NEW r \in Requests, Deliver(c, r)
    PROVE  Kept
<1> DEFINE i == r.cmd.incident
<1>1. /\ r.cmd \in VersionedCommands \cup CommentCommands
      /\ i \in IncidentIds
  <2>1. r.cmd \in VersionedCommands \cup CommentCommands
    BY RequestsAssumption, CommandKinds DEF Deliver
  <2> QED BY <2>1, VersionedKinds DEF CommentCommands
<1>2. PICK e \in Nat : Accept(c, r, i, e, "preflight")
  <2>1. Exists(i) => incident[i].version \in Nat
    BY <1>1, ExistsRow DEF IInv, LogInv, IncidentRows
  <2> QED BY <2>1 DEF Deliver
<1>3. "preflight" \in Phases
  BY DEF Phases
<1>4. /\ VarTypes'
      /\ OthersKeep(c)
      /\ pc'[c] = "preflight"
      /\ Requested(req'[c])
      /\ req'[c].cmd = r.cmd
      /\ req'[c].target = i
      /\ UNCHANGED <<incident, timeline>>
  BY <1>1, <1>2, <1>3, AcceptFrame DEF IInv
<1>5. CallOK(c)'
  BY <1>1, <1>4 DEF CallOK, WriteOK, Requested
<1>6. RowsAdvance(c) /\ CreatedOnce'
  BY <1>4, RowsKept
<1>7. CallsOK' /\ TargetsDistinct'
  BY <1>4, <1>5, <1>6, CallsKept
<1> QED BY <1>4, <1>6, <1>7 DEF Kept, logVars

\* The one step that starts a creation: its identifier is nobody else's.
LEMMA DeliverCreateKept ==
    ASSUME IInv, NEW c \in Callers, NEW r \in Requests, NEW i \in IncidentIds,
           DeliverCreate(c, r, i)
    PROVE  Kept
<1>1. r.cmd \in CreateCommands
  BY RequestsAssumption, CommandKinds DEF DeliverCreate
<1>2. "create" \in Phases
  BY DEF Phases
<1>3. /\ VarTypes'
      /\ OthersKeep(c)
      /\ pc'[c] = "create"
      /\ Requested(req'[c])
      /\ req'[c].cmd = r.cmd
      /\ req'[c].target = i
      /\ UNCHANGED <<incident, timeline>>
  BY <1>2, AcceptFrame DEF IInv, DeliverCreate
<1>4. CallOK(c)'
  BY <1>1, <1>3 DEF CallOK, CreationOK, Requested, DeliverCreate, Exists
<1>5. RowsAdvance(c) /\ CreatedOnce'
  BY <1>3, RowsKept
<1>6. CallsOK'
  BY <1>3, <1>4, <1>5, OthersOK DEF CallsOK
<1>7. TargetsDistinct'
  <2>1. ASSUME NEW d \in Callers \ {c}, pc'[d] = "create"
        PROVE  req'[d].target # i
    BY <1>3, <2>1 DEF OthersKeep, DeliverCreate
  <2>2. \A d, e \in Callers \ {c} :
           pc'[d] = "create" /\ pc'[e] = "create"
             /\ req'[d].target = req'[e].target => d = e
    BY <1>3 DEF OthersKeep, IInv, TargetsDistinct
  <2> QED BY <1>3, <2>1, <2>2 DEF TargetsDistinct
<1> QED BY <1>3, <1>5, <1>6, <1>7 DEF Kept, logVars

LEMMA PreflightKept ==
    ASSUME IInv, NEW c \in Callers, Preflight(c)
    PROVE  Kept
<1> USE DEF Preflight
<1>1. lock' \in Callers \cup {Free} /\ UNCHANGED <<rows, clock>>
  OBVIOUS
<1>2. WriteOK(req[c], "preflight", snap[c])
  BY DEF IInv, CallsOK, CallOK
<1>3. ASSUME NEW code \in Answers, Answer(c, code) PROVE Kept
  BY <1>1, <1>3, AnswerKept
<1>4. CASE Answer(c, "NotFound")
  BY <1>3, <1>4 DEF Answers
<1>5. CASE Answer(c, IF ReplayMatches(Stored(c), req[c].cmd)
                     THEN "ok" ELSE "IdempotencyConflict")
  BY <1>3, <1>5 DEF Answers
<1>6. CASE Exists(req[c].target) /\ Goto(c, "load") /\ UNCHANGED snap
  <2>1. /\ snap[c] \in IncidentRows \cup {NoIncident}
        /\ snap' = [snap EXCEPT ![c] = snap[c]]
    BY <1>6 DEF IInv, VarTypes
  <2>2. WriteOK(req[c], "load", snap[c])
    BY <1>2, <1>6 DEF WriteOK
  <2>3. "load" \in Phases \ {"idle", "create"}
    BY DEF Phases
  <2> QED BY <1>1, <1>6, <2>1, <2>2, <2>3, GotoKept
<1> QED BY <1>4, <1>5, <1>6

\* The aggregate just read is the stored row.
LEMMA LoadRowKept ==
    ASSUME IInv, NEW c \in Callers, LoadRow(c)
    PROVE  Kept
<1> DEFINE row == incident[req[c].target]
<1>1. WriteOK(req[c], "load", snap[c])
  BY DEF IInv, CallsOK, CallOK, LoadRow
<1>2. row \in IncidentRows
  BY <1>1, ExistsRow DEF WriteOK, Requested, Calls, IInv, LogInv
<1>3. row.version <= row.version
  BY <1>2 DEF IncidentRows
<1>4. WriteOK(req[c], "hydrate", row)
  BY <1>1, <1>2, <1>3 DEF WriteOK, Fresh
<1>5. lock' \in Callers \cup {Free}
  BY DEF LoadRow, IInv, VarTypes
<1>6. "hydrate" \in Phases \ {"idle", "create"}
  BY DEF Phases
<1> QED BY <1>2, <1>4, <1>5, <1>6, GotoKept DEF LoadRow

\* Roles read later than the row leave it fresh: were they another version's,
\* the stored version would have moved on with them.
LEMMA LoadRolesKept ==
    ASSUME IInv, NEW c \in Callers, LoadRoles(c)
    PROVE  Kept
<1> DEFINE row == Hydrated(c)
           cmd == req[c].cmd
<1>1. WriteOK(req[c], "hydrate", snap[c])
  BY DEF IInv, CallsOK, CallOK, LoadRoles
<1>2. /\ cmd \in Commands
      /\ incident[req[c].target] \in IncidentRows
      /\ Fresh(req[c], snap[c])
  BY <1>1, ExistsRow DEF WriteOK, Requested, Calls, IInv, LogInv
<1>3. /\ row \in IncidentRows
      /\ row.version = snap[c].version
      /\ row.version = incident[req[c].target].version =>
            row = incident[req[c].target]
  BY <1>2 DEF Hydrated, Fresh, IncidentRows
<1>4. Fresh(req[c], row)
  BY <1>2, <1>3 DEF Fresh
<1>5. lock' \in Callers \cup {Free} /\ UNCHANGED <<rows, clock>>
  BY DEF LoadRoles, IInv, VarTypes
<1> HIDE DEF row, cmd
<1>6. ASSUME NEW code \in Answers, Answer(c, code) PROVE Kept
  BY <1>5, <1>6, AnswerKept
<1>7. ASSUME NEW phase \in {"apply", "append"}, Goto(c, phase),
             snap' = [snap EXCEPT ![c] = row], WriteOK(req[c], phase, row)
      PROVE  Kept
  BY <1>3, <1>5, <1>7, GotoKept DEF Phases
<1>8. \/ \E code \in Answers : Answer(c, code)
      \/ /\ cmd.kind = "comment" /\ cmd.complete
         /\ Goto(c, "append")
         /\ snap' = [snap EXCEPT ![c] = row]
      \/ /\ cmd.kind # "comment" /\ Accepts(row, cmd)
         /\ Goto(c, "apply")
         /\ snap' = [snap EXCEPT ![c] = row]
  BY DEF LoadRoles, row, cmd, Answers
<1>9. CASE cmd.kind = "comment" /\ cmd.complete
  <2>1. WriteOK(req[c], "append", row)
    BY <1>1, <1>2, <1>4, <1>9, CommandKinds DEF WriteOK, cmd
  <2> QED BY <1>6, <1>7, <1>8, <1>9, <2>1
<1>10. CASE cmd.kind # "comment" /\ Accepts(row, cmd)
  <2>1. WriteOK(req[c], "apply", row)
    BY <1>1, <1>2, <1>4, <1>10, CommandKinds DEF WriteOK, cmd
  <2> QED BY <1>6, <1>7, <1>8, <1>10, <2>1
<1> QED BY <1>6, <1>8, <1>9, <1>10

-----------------------------------------------------------------------------
(* The commits. *)

\* Types of the store's own variables after a commit that answers.
LEMMA CommitTypes ==
    ASSUME IInv, NEW c \in Callers, NEW code \in Answers, Answer(c, code),
           NEW i, NEW now \in Nat, updatedAt' = [updatedAt EXCEPT ![i] = now],
           UNCHANGED clock, lock' \in Callers \cup {Free}
    PROVE  VarTypes' /\ OthersKeep(c) /\ CallOK(c)' /\ pc'[c] = "idle"
<1>1. VarTypes' /\ OthersKeep(c) /\ pc'[c] = "idle"
  BY AnswerFrame DEF IInv, VarTypes
<1> QED BY <1>1 DEF CallOK

\* The UPDATE that commits finds the very row the aggregate was loaded from,
\* so it is IncidentLog's Mutate.
LEMMA ApplyCommits ==
    ASSUME IInv, NEW c \in Callers, pc[c] = "apply",
           ~HasEvents(timeline[req[c].target], req[c].rid),
           incident[req[c].target].version = snap[c].version,
           ReferencesKnown(incident, NewRow(c), NewEvents(c)),
           incident' = [incident EXCEPT ![req[c].target] = NewRow(c)],
           timeline' = [timeline EXCEPT ![req[c].target] =
                           InsertEvents(@, NewEvents(c))]
    PROVE  /\ LogNext
           /\ RowsAdvance(c)
           /\ CreatedOnce'
<1> DEFINE i == req[c].target
           cmd == req[c].cmd
           r == [rid |-> req[c].rid, cmd |-> cmd]
<1>1. WriteOK(req[c], "apply", snap[c])
  BY DEF IInv, CallsOK, CallOK
<1>2. /\ r \in Requests
      /\ cmd \in VersionedCommands
      /\ i = cmd.incident
      /\ i \in IncidentIds
      /\ req[c].rid \in RequestIds
      /\ Exists(i)
      /\ snap[c] = incident[i]
      /\ snap[c] \in IncidentRows
      /\ Accepts(incident[i], cmd)
  BY <1>1 DEF WriteOK, Requested, Calls, Fresh
<1>3. /\ NewRow(c) = Applied(incident[i], cmd)
      /\ NewEvents(c) = Events(incident[i], req[c].rid, cmd)
  BY <1>2 DEF NewRow, NewEvents
<1>4. /\ NewRow(c) \in IncidentRows
      /\ NewRow(c).version = incident[i].version + 1
      /\ NewRow(c).createdBy = incident[i].createdBy
      /\ NewEvents(c) \in Seq(TimelineEvents)
  <2> HIDE DEF i, cmd
  <2>1. /\ NewRow(c) \in IncidentRows
        /\ NewRow(c).version = incident[i].version + 1
        /\ NewRow(c).createdBy = incident[i].createdBy
    BY <1>2, <1>3, AppliedType
  <2>2. RequestSeq(NewEvents(c), req[c].rid)
    BY <1>2, <1>3, EventsType
  <2> QED BY <2>1, <2>2 DEF RequestSeq
<1>5. timeline[i] \in Seq(TimelineEvents)
  BY <1>2 DEF IInv, LogInv, LogTypeOK
<1>6. InsertEvents(timeline[i], NewEvents(c)) = timeline[i] \o NewEvents(c)
  BY <1>4, <1>5, InsertEventsAppends
<1>7. Mutate(r)
  <2>1. /\ incident' = [incident EXCEPT ![i] = Applied(incident[i], cmd)]
        /\ timeline' = [timeline EXCEPT ![i] =
                           timeline[i] \o Events(incident[i], req[c].rid, cmd)]
    BY <1>3, <1>6
  <2>2. ~HasEvents(timeline[i], r.rid)
    OBVIOUS
  <2> QED BY <1>2, <1>3, <2>1, <2>2 DEF Mutate
<1>8. RowsAdvance(c)
  <2>1. ASSUME NEW j \in IncidentIds, j # i PROVE incident'[j] = incident[j]
    BY <2>1 DEF IInv, LogInv, LogTypeOK
  <2>2. incident'[i] = NewRow(c)
    BY <1>2 DEF IInv, LogInv, LogTypeOK
  <2>3. /\ incident'[i] \in IncidentRows
        /\ incident'[i] # NoIncident
        /\ incident[i].version \in Nat
        /\ incident'[i].version = incident[i].version + 1
    BY <1>2, <1>4, <2>2, NoIncidentIsNoRow DEF IncidentRows
  <2>4. \A j \in IncidentIds : Exists(j) =>
           /\ incident[j] \in IncidentRows
           /\ incident[j].version \in Nat
    BY ExistsRow DEF IInv, LogInv, IncidentRows
  <2> HIDE DEF i
  <2> QED BY <1>2, <2>1, <2>3, <2>4 DEF RowsAdvance, Exists
<1>9. CreatedOnce'
  <2>1. \A j \in IncidentIds : /\ Exists(j)' <=> Exists(j)
                               /\ incident'[j].createdBy = incident[j].createdBy
    BY <1>2, <1>4, NoIncidentIsNoRow DEF Exists, IInv, LogInv, LogTypeOK
  <2> QED BY <2>1 DEF IInv, CreatedOnce
<1> QED BY <1>2, <1>7, <1>8, <1>9 DEF LogNext

LEMMA ApplyKept ==
    ASSUME IInv, NEW c \in Callers, ApplyMutation(c)
    PROVE  Kept
<1> DEFINE i == req[c].target
<1>1. pc[c] = "apply" /\ lock' \in Callers \cup {Free} /\ UNCHANGED clock
  BY DEF ApplyMutation
<1>2. CASE \E code \in Answers : ApplyAnswers(c, code)
  BY <1>1, <1>2, AnswerKept DEF ApplyAnswers
<1>3. CASE /\ ~HasEvents(timeline[i], req[c].rid)
           /\ incident[i].version = snap[c].version
           /\ ReferencesKnown(incident, NewRow(c), NewEvents(c))
           /\ incident' = [incident EXCEPT ![i] = NewRow(c)]
           /\ timeline' = [timeline EXCEPT ![i] = InsertEvents(@, NewEvents(c))]
           /\ updatedAt' = [updatedAt EXCEPT ![i] = req[c].now]
           /\ Answer(c, "ok")
  <2>1. LogNext /\ RowsAdvance(c) /\ CreatedOnce'
    BY <1>1, <1>3, ApplyCommits
  <2>2. req[c].now \in Nat
    BY <1>1 DEF IInv, CallsOK, CallOK, WriteOK, Requested, Calls
  <2>3. VarTypes' /\ OthersKeep(c) /\ CallOK(c)' /\ pc'[c] = "idle"
    BY <1>1, <1>3, <2>2, CommitTypes DEF Answers
  <2>4. CallsOK' /\ TargetsDistinct'
    BY <2>1, <2>3, CallsKept
  <2> QED BY <2>1, <2>3, <2>4 DEF Kept
<1> QED BY <1>2, <1>3 DEF ApplyMutation, Answers

\* A committed append is IncidentLog's Comment.
LEMMA AppendKept ==
    ASSUME IInv, NEW c \in Callers, AppendComment(c)
    PROVE  Kept
<1> DEFINE i == req[c].target
           cmd == req[c].cmd
           r == [rid |-> req[c].rid, cmd |-> cmd]
           evs == CommentEvents(req[c].rid, cmd)
<1>1. pc[c] = "append" /\ lock' \in Callers \cup {Free} /\ UNCHANGED clock
  BY DEF AppendComment
<1>2. WriteOK(req[c], "append", snap[c])
  BY <1>1 DEF IInv, CallsOK, CallOK
<1>3. /\ r \in Requests
      /\ cmd \in CommentCommands /\ cmd.complete
      /\ i = cmd.incident
      /\ i \in IncidentIds
      /\ Exists(i)
      /\ req[c].rid \in RequestIds
      /\ req[c].now \in Nat
  BY <1>2 DEF WriteOK, Requested, Calls
<1>4. CASE \E code \in Answers : ApplyAnswers(c, code)
  BY <1>1, <1>4, AnswerKept DEF ApplyAnswers
<1>5. CASE /\ ~HasEvents(timeline[i], req[c].rid)
           /\ timeline' = [timeline EXCEPT ![i] = InsertEvents(@, evs)]
           /\ updatedAt' = [updatedAt EXCEPT ![i] = LaterOf(@, req[c].now)]
           /\ UNCHANGED incident
           /\ Answer(c, "ok")
  <2>1. InsertEvents(timeline[i], evs) = timeline[i] \o evs
    <3>1. timeline[i] \in Seq(TimelineEvents)
      BY <1>3 DEF IInv, LogInv, LogTypeOK
    <3>2. evs \in Seq(TimelineEvents)
      BY <1>3, CommentEventsType DEF RequestSeq
    <3> QED BY <3>1, <3>2, InsertEventsAppends
  <2>2. Comment(r)
    BY <1>3, <1>5, <2>1 DEF Comment, CommentCommands
  <2>3. RowsAdvance(c) /\ CreatedOnce'
    BY <1>5, RowsKept
  <2>4. LaterOf(updatedAt[i], req[c].now) \in Nat
    BY <1>3 DEF LaterOf, IInv, VarTypes
  <2>5. VarTypes' /\ OthersKeep(c) /\ CallOK(c)' /\ pc'[c] = "idle"
    BY <1>1, <1>5, <2>4, CommitTypes DEF Answers
  <2>6. CallsOK' /\ TargetsDistinct'
    BY <2>3, <2>5, CallsKept
  <2> QED BY <1>3, <2>2, <2>3, <2>5, <2>6 DEF Kept, LogNext
<1> QED BY <1>4, <1>5 DEF AppendComment, Answers

\* A committed creation is IncidentLog's Create: its identifier is unused and
\* so is its request identifier.
LEMMA CreateKept ==
    ASSUME IInv, NEW c \in Callers, CreateIncident(c)
    PROVE  Kept
<1> DEFINE i == req[c].target
           cmd == req[c].cmd
           rid == req[c].rid
           r == [rid |-> rid, cmd |-> cmd]
           row == CreatedRow(rid, cmd)
<1>1. pc[c] = "create" /\ lock' \in Callers \cup {Free} /\ UNCHANGED clock
  BY DEF CreateIncident
<1>2. CreationOK(req[c])
  BY <1>1 DEF IInv, CallsOK, CallOK
<1>3. /\ r \in Requests
      /\ cmd \in CreateCommands /\ CreateAccepted(cmd)
      /\ i \in IncidentIds
      /\ ~Exists(i)
      /\ rid \in RequestIds
      /\ req[c].now \in Nat
  BY <1>2 DEF CreationOK, Requested, Calls
<1>4. CASE \E code \in Answers : ApplyAnswers(c, code)
  BY <1>1, <1>4, AnswerKept DEF ApplyAnswers
<1>5. CASE /\ CreatedUnder(rid) = {}
           /\ incident' = [incident EXCEPT ![i] = row]
           /\ timeline' = [timeline EXCEPT ![i] = CreationEvents(rid, cmd)]
           /\ updatedAt' = [updatedAt EXCEPT ![i] = req[c].now]
           /\ Answer(c, "ok")
  <2>1. \A j \in IncidentIds : Exists(j) => incident[j].createdBy.rid # rid
    BY <1>5 DEF CreatedUnder
  <2>2. Create(i, r)
    BY <1>3, <1>5, <2>1 DEF Create, CreateCommands
  <2>3. row \in IncidentRows /\ row # NoIncident /\ row.createdBy.rid = rid
    BY <1>3, CreatedRowType, NoIncidentIsNoRow DEF CreatedRow
  <2>4. /\ incident'[i] = row
        /\ \A j \in IncidentIds : j # i => incident'[j] = incident[j]
    BY <1>3, <1>5 DEF IInv, LogInv, LogTypeOK
  <2>5. \A j \in IncidentIds : Exists(j) =>
           /\ incident[j] \in IncidentRows
           /\ incident[j].version \in Nat
    BY ExistsRow DEF IInv, LogInv, IncidentRows
  <2> HIDE DEF row
  <2>6. RowsAdvance(c)
    BY <1>1, <1>3, <2>4, <2>5 DEF RowsAdvance, Exists
  <2>7. CreatedOnce'
    BY <2>1, <2>3, <2>4 DEF CreatedOnce, Exists, IInv
  <2>8. VarTypes' /\ OthersKeep(c) /\ CallOK(c)' /\ pc'[c] = "idle"
    BY <1>1, <1>3, <1>5, CommitTypes DEF Answers
  <2>9. CallsOK' /\ TargetsDistinct'
    BY <2>6, <2>8, CallsKept
  <2> QED BY <1>3, <2>2, <2>7, <2>8, <2>9 DEF Kept, LogNext
<1> QED BY <1>4, <1>5 DEF CreateIncident, Answers

-----------------------------------------------------------------------------

LEMMA NextKept == IInv /\ [Next]_vars => Kept
<1> SUFFICES ASSUME IInv, [Next]_vars PROVE Kept
  OBVIOUS
<1>1. CASE Next
  <2>1. ASSUME NEW c \in Callers, Step(c) PROVE Kept
    BY <2>1, BeginKept, BusyKept, PreflightKept, LoadRowKept, LoadRolesKept,
       ApplyKept, AppendKept, CreateKept DEF Step
  <2> QED BY <1>1, <2>1, CrashKept, DeliverKept, DeliverCreateKept,
             RefuseCreateKept, TickKept DEF Next
<1>2. CASE UNCHANGED vars
  <2>1. VarTypes'
    BY <1>2 DEF IInv, VarTypes, vars
  <2> QED BY <1>2, <2>1, QuietKept DEF vars, rows
<1> QED BY <1>1, <1>2

THEOREM Invariant == Spec => []IInv
BY InitInv, NextKept, KeptInv, PTL DEF Spec

\* The variables keep their types, whatever is delivered, repeated or
\* crashes.
THEOREM TypeCorrect == Spec => []TypeOK
<1>1. IInv => TypeOK
  BY DEF IInv, LogInv, VarTypes, TypeOK
<1> QED BY <1>1, Invariant, PTL

\* An aggregate whose version is still the stored one is the stored row: the
\* optimistic version predicate alone makes the unlocked two-statement read
\* safe to write from.
THEOREM SnapshotsFresh == Spec => []SnapshotFresh
<1>1. IInv => SnapshotFresh
  BY DEF IInv, CallsOK, CallOK, WriteOK, Fresh, SnapshotFresh
<1> QED BY <1>1, Invariant, PTL

\* One creation request makes at most one incident.
THEOREM CreationsOnce == Spec => []CreatedOnce
<1>1. IInv => CreatedOnce
  BY DEF IInv
<1> QED BY <1>1, Invariant, PTL

\* The store implements the log: every accepted request takes effect once and
\* indivisibly, on the row of that moment.
THEOREM StoreImplementsLog == Spec => LogSpec
<1>1. Init => LogInit
  BY DEF Init
<1>2. IInv /\ [Next]_vars => [LogNext]_logVars
  BY NextKept DEF Kept
<1> QED BY <1>1, <1>2, Invariant, PTL DEF Spec, LogSpec

\* What the log keeps the store keeps: exclusive roles are held once,
\* overrides disagree with the derived severity, the target of a duplicate is
\* another stored incident, and every timeline explains its row.
THEOREM StoreKeepsRowsSound ==
    Spec => [](/\ ExclusiveRolesHeldOnce
               /\ OverrideIsDisagreement
               /\ DuplicateTargetStored
               /\ TimelineExplainsRow)
BY StoreImplementsLog, ExclusiveRoles, OverridesDisagree, DuplicateTargets,
   TimelinesExplain, PTL

-----------------------------------------------------------------------------
(* Conflicts.  A sender names a version it has seen; the stored one never   *)
(* goes back, and the write transaction compares with the version that was  *)
(* compared with the sender's.                                              *)

\* The version under which an incident may have been seen last.
SeenVersion(i) == IF Exists(i) THEN incident[i].version ELSE 1

ExpectedSeen(c) ==
    /\ req[c].expected <= SeenVersion(req[c].target)
    /\ pc[c] = "hydrate" => req[c].expected <= snap[c].version
    /\ pc[c] = "apply" => req[c].expected = snap[c].version

ExpectedInv ==
    \A c \in Callers : pc[c] \notin {"idle", "create"} => ExpectedSeen(c)

\* No step takes a row away or its version back.
LEMMA VersionsGrow ==
    ASSUME IInv, [LogNext]_logVars, NEW i \in IncidentIds
    PROVE  /\ Exists(i) => /\ Exists(i)'
                           /\ incident[i].version \in Nat
                           /\ incident'[i].version \in Nat
                           /\ incident[i].version <= incident'[i].version
           /\ Exists(i)' => incident'[i].version \in Nat \ {0}
<1>1. LogInv /\ LogInv'
  BY LogNextInv DEF IInv
<1>2. Exists(i) => incident[i].version \in Nat
  BY <1>1, ExistsRow DEF LogInv, IncidentRows
<1>3. Exists(i)' => incident'[i].version \in Nat \ {0}
  BY <1>1 DEF LogInv, LogTypeOK, Exists, IncidentRows
<1>4. CASE UNCHANGED incident
  BY <1>2, <1>3, <1>4 DEF Exists
<1>5. ASSUME NEW r \in Requests, NEW j \in IncidentIds, Create(j, r)
      PROVE  Exists(i) => incident'[i] = incident[i]
  BY <1>1, <1>5 DEF Create, LogInv, LogTypeOK, Exists
<1>6. ASSUME NEW r \in Requests, Mutate(r), Exists(i)
      PROVE  Exists(i)' /\ incident[i].version <= incident'[i].version
  <2>1. CASE r.cmd.incident = i
    <3>1. incident[i] \in IncidentRows /\ r.cmd \in VersionedCommands
      BY <1>1, <1>6, ExistsRow DEF LogInv, Mutate
    <3>2. incident'[i] = Applied(incident[i], r.cmd)
      BY <1>1, <1>6, <2>1 DEF Mutate, LogInv, LogTypeOK
    <3>3. /\ incident'[i] \in IncidentRows
          /\ incident'[i].version = incident[i].version + 1
      BY <3>1, <3>2, AppliedType
    <3> QED BY <1>2, <1>6, <3>3, NoIncidentIsNoRow DEF Exists
  <2>2. CASE r.cmd.incident # i
    <3>1. incident'[i] = incident[i]
      BY <1>1, <1>6, <2>2 DEF Mutate, LogInv, LogTypeOK
    <3> QED BY <1>2, <1>6, <3>1 DEF Exists
  <2> QED BY <2>1, <2>2
<1>7. CASE LogNext
  <2>1. ASSUME NEW r \in Requests, NEW j \in IncidentIds, Create(j, r), Exists(i)
        PROVE  Exists(i)' /\ incident[i].version <= incident'[i].version
    BY <1>2, <1>5, <2>1 DEF Exists
  <2>2. ASSUME NEW r \in Requests, Comment(r), Exists(i)
        PROVE  Exists(i)' /\ incident[i].version <= incident'[i].version
    BY <1>2, <2>2 DEF Comment, Exists
  <2> QED BY <1>2, <1>3, <1>6, <1>7, <2>1, <2>2 DEF LogNext
<1> QED BY <1>4, <1>7 DEF logVars

\* What is known of a call survives the steps that leave the call alone.
LEMMA ExpectedStays ==
    ASSUME IInv, ExpectedInv, [LogNext]_logVars, NEW c \in Callers,
           pc[c] \notin {"idle", "create"},
           pc'[c] = pc[c], req'[c] = req[c], snap'[c] = snap[c]
    PROVE  ExpectedSeen(c)'
<1> DEFINE i == req[c].target
           later == IF Exists(i)' THEN incident'[i].version ELSE 1
<1>1. ExpectedSeen(c)
  BY DEF ExpectedInv
<1>2. i \in IncidentIds /\ req[c].expected \in Nat
  BY DEF IInv, CallsOK, CallOK, WriteOK, Requested, Calls
<1>3. /\ SeenVersion(i) \in Nat
      /\ later \in Nat
      /\ SeenVersion(i) <= later
  BY <1>2, VersionsGrow DEF SeenVersion
<1>4. ExpectedSeen(c)' = /\ req[c].expected <= later
                         /\ pc[c] = "hydrate" =>
                               req[c].expected <= snap[c].version
                         /\ pc[c] = "apply" =>
                               req[c].expected = snap[c].version
  BY DEF ExpectedSeen, SeenVersion, Exists
<1>5. req[c].expected <= SeenVersion(i)
  BY <1>1 DEF ExpectedSeen
<1> HIDE DEF later, i
<1>6. req[c].expected <= later
  BY <1>2, <1>3, <1>5
<1> QED BY <1>1, <1>4, <1>6 DEF ExpectedSeen

\* A step of caller c that leaves the others alone.
LEMMA ExpectedByOthers ==
    ASSUME IInv, ExpectedInv, [LogNext]_logVars, NEW c \in Callers,
           OthersKeep(c),
           pc'[c] \notin {"idle", "create"} => ExpectedSeen(c)'
    PROVE  ExpectedInv'
<1>1. ASSUME NEW d \in Callers \ {c}, pc'[d] \notin {"idle", "create"}
      PROVE  ExpectedSeen(d)'
  BY <1>1, ExpectedStays DEF OthersKeep
<1> QED BY <1>1 DEF ExpectedInv

LEMMA ExpectedQuiet ==
    ASSUME IInv, ExpectedInv, [LogNext]_logVars, UNCHANGED <<pc, req, snap>>
    PROVE  ExpectedInv'
<1>1. ASSUME NEW c \in Callers, pc'[c] \notin {"idle", "create"}
      PROVE  ExpectedSeen(c)'
  BY <1>1, ExpectedStays
<1> QED BY <1>1 DEF ExpectedInv

LEMMA ExpectedAnswered ==
    ASSUME IInv, ExpectedInv, [LogNext]_logVars, NEW c \in Callers,
           NEW code, Answer(c, code)
    PROVE  ExpectedInv'
<1>1. OthersKeep(c) /\ pc'[c] = "idle"
  BY DEF Answer, OthersKeep, IInv, VarTypes
<1> QED BY <1>1, ExpectedByOthers

\* A sender names a version between the first and the stored one.
LEMMA ExpectedDelivered ==
    ASSUME IInv, ExpectedInv, [LogNext]_logVars, NEW c \in Callers,
           NEW r \in Requests, Deliver(c, r)
    PROVE  ExpectedInv'
<1> DEFINE i == r.cmd.incident
<1>1. i \in IncidentIds
  <2>1. r.cmd \in VersionedCommands \cup CommentCommands
    BY RequestsAssumption, CommandKinds DEF Deliver
  <2> QED BY <2>1, VersionedKinds DEF CommentCommands
<1>2. SeenVersion(i) \in Nat \ {0}
  BY <1>1, ExistsRow DEF SeenVersion, IInv, LogInv, IncidentRows
<1>3. PICK e \in 0 .. SeenVersion(i) : Accept(c, r, i, e, "preflight")
  BY <1>2 DEF Deliver, SeenVersion
<1>4. /\ pc'[c] = "preflight"
      /\ req'[c].expected = e
      /\ req'[c].target = i
      /\ incident' = incident
      /\ OthersKeep(c)
  BY <1>3 DEF Accept, OthersKeep, IInv, VarTypes, rows
<1>5. ExpectedSeen(c)'
  BY <1>2, <1>3, <1>4 DEF ExpectedSeen, SeenVersion, Exists
<1> QED BY <1>4, <1>5, ExpectedByOthers

\* The row just read has the version the sender saw, or a later one.
LEMMA ExpectedLoaded ==
    ASSUME IInv, ExpectedInv, [LogNext]_logVars, NEW c \in Callers,
           Preflight(c) \/ LoadRow(c) \/ LoadRoles(c)
    PROVE  ExpectedInv'
<1> DEFINE i == req[c].target
<1>1. pc[c] \in {"preflight", "load", "hydrate"} /\ incident' = incident
  BY DEF Preflight, LoadRow, LoadRoles, rows
<1>2. ExpectedSeen(c) /\ WriteOK(req[c], pc[c], snap[c])
  BY <1>1 DEF ExpectedInv, IInv, CallsOK, CallOK
<1>3. ASSUME NEW phase, Goto(c, phase)
      PROVE  pc'[c] = phase /\ req' = req
  BY <1>3 DEF Goto, IInv, VarTypes
<1>4. CASE \E code : Answer(c, code)
  BY <1>4, ExpectedAnswered
<1>5. CASE Preflight(c) /\ Goto(c, "load") /\ UNCHANGED snap
  <2>1. ExpectedSeen(c)'
    BY <1>1, <1>2, <1>3, <1>5 DEF ExpectedSeen, SeenVersion, Exists
  <2>2. OthersKeep(c)
    BY <1>5 DEF Goto, OthersKeep, IInv, VarTypes
  <2> QED BY <2>1, <2>2, ExpectedByOthers
<1>6. CASE LoadRow(c)
  <2>1. Exists(i) /\ snap'[c] = incident[i] /\ Goto(c, "hydrate")
    BY <1>2, <1>6 DEF LoadRow, WriteOK, IInv, VarTypes
  <2>2. ExpectedSeen(c)'
    BY <1>1, <1>2, <1>3, <2>1 DEF ExpectedSeen, SeenVersion, Exists
  <2>3. OthersKeep(c)
    BY <1>6 DEF LoadRow, Goto, OthersKeep, IInv, VarTypes
  <2> QED BY <2>2, <2>3, ExpectedByOthers
<1>7. CASE /\ LoadRoles(c)
           /\ \E phase \in {"apply", "append"} :
                 /\ Goto(c, phase)
                 /\ phase = "apply" =>
                       Hydrated(c).version = req[c].expected
           /\ snap' = [snap EXCEPT ![c] = Hydrated(c)]
  <2>1. PICK phase \in {"apply", "append"} :
           /\ Goto(c, phase)
           /\ phase = "apply" => Hydrated(c).version = req[c].expected
    BY <1>7
  <2>2. snap'[c] = Hydrated(c)
    BY <1>7 DEF IInv, VarTypes
  <2>3. ExpectedSeen(c)'
    BY <1>1, <1>2, <1>3, <2>1, <2>2 DEF ExpectedSeen, SeenVersion, Exists
  <2>4. OthersKeep(c)
    BY <1>7, <2>1 DEF Goto, OthersKeep, IInv, VarTypes
  <2> QED BY <2>3, <2>4, ExpectedByOthers
<1>8. LoadRoles(c) => \/ \E code : Answer(c, code)
                      \/ /\ \E phase \in {"apply", "append"} :
                               /\ Goto(c, phase)
                               /\ phase = "apply" =>
                                     Hydrated(c).version = req[c].expected
                         /\ snap' = [snap EXCEPT ![c] = Hydrated(c)]
  BY DEF LoadRoles
<1>9. Preflight(c) => \/ \E code : Answer(c, code)
                      \/ Goto(c, "load") /\ UNCHANGED snap
  BY DEF Preflight
<1> QED BY <1>4, <1>5, <1>6, <1>7, <1>8, <1>9

LEMMA ExpectedNext ==
    ASSUME IInv, ExpectedInv, [Next]_vars
    PROVE  ExpectedInv'
<1>1. [LogNext]_logVars
  BY NextKept DEF Kept
<1>2. ASSUME NEW c \in Callers, \E code : Answer(c, code)
      PROVE  ExpectedInv'
  BY <1>1, <1>2, ExpectedAnswered
<1>3. CASE UNCHANGED <<pc, req, snap>>
  BY <1>1, <1>3, ExpectedQuiet
<1>4. ASSUME NEW c \in Callers, Step(c) PROVE ExpectedInv'
  <2>1. CASE Begin(c) \/ BeginBusy(c) \/ CommitBusy(c) \/ ReadBusy(c)
    BY <1>2, <1>3, <2>1 DEF Begin, BeginBusy, CommitBusy, ReadBusy, Contended
  <2>2. CASE Preflight(c) \/ LoadRow(c) \/ LoadRoles(c)
    BY <1>1, <2>2, ExpectedLoaded
  <2>3. CASE ApplyMutation(c) \/ AppendComment(c) \/ CreateIncident(c)
    BY <1>2, <2>3 DEF ApplyMutation, AppendComment, CreateIncident,
                      ApplyAnswers
  <2> QED BY <1>4, <2>1, <2>2, <2>3 DEF Step
<1>5. ASSUME NEW c \in Callers, NEW r \in Requests, NEW i \in IncidentIds,
             DeliverCreate(c, r, i)
      PROVE  ExpectedInv'
  <2>1. pc'[c] = "create" /\ OthersKeep(c)
    BY <1>5 DEF DeliverCreate, Accept, OthersKeep, IInv, VarTypes
  <2> QED BY <1>1, <2>1, ExpectedByOthers
<1>6. ASSUME NEW c \in Callers, NEW r \in Requests,
             Deliver(c, r) \/ RefuseCreate(c, r)
      PROVE  ExpectedInv'
  BY <1>1, <1>2, <1>6, ExpectedDelivered DEF RefuseCreate
<1>7. CASE Next
  BY <1>2, <1>3, <1>4, <1>5, <1>6, <1>7 DEF Next, Crash, Tick
<1> QED BY <1>3, <1>7 DEF vars

\* The code a caller answers is the one the others read.
LEMMA AnswerReplies ==
    ASSUME IInv, NEW c \in Callers, NEW d \in Callers, NEW code, NEW seen,
           Answer(d, code), Replies(c, seen)
    PROVE  c = d /\ seen = code
<1>1. c = d
  BY DEF Answer, Replies, IInv, VarTypes
<1> QED BY <1>1 DEF Answer, Replies, IInv, VarTypes

\* A conflict is found where two versions differ: that of the sender and
\* that of the row read, or that of the row read and the stored one.
LEMMA ConflictFound ==
    ASSUME IInv, [Next]_vars, NEW c \in Callers, Replies(c, "VersionConflict")
    PROVE  \/ LoadRoles(c) /\ Hydrated(c).version # req[c].expected
           \/ /\ ApplyMutation(c)
              /\ incident[req[c].target].version # snap[c].version
<1> DEFINE Found == \/ LoadRoles(c) /\ Hydrated(c).version # req[c].expected
                    \/ /\ ApplyMutation(c)
                       /\ incident[req[c].target].version # snap[c].version
<1>1. pc'[c] # pc[c]
  BY DEF Replies
<1>2. ASSUME NEW d \in Callers, NEW code, Answer(d, code)
      PROVE  c = d /\ code = "VersionConflict"
  BY <1>2, AnswerReplies
<1>3. ASSUME NEW d \in Callers, NEW phase \in Phases \ {"idle"},
             pc' = [pc EXCEPT ![d] = phase]
      PROVE  FALSE
  BY <1>3 DEF Replies, IInv, VarTypes
<1>4. ASSUME NEW d \in Callers, Step(d) PROVE Found
  <2>1. CASE Begin(d) \/ BeginBusy(d) \/ CommitBusy(d) \/ ReadBusy(d)
    BY <1>1, <1>2, <2>1 DEF Begin, BeginBusy, CommitBusy, ReadBusy, Contended
  <2>2. CASE Preflight(d) \/ LoadRow(d)
    BY <1>2, <1>3, <2>2 DEF Preflight, LoadRow, Goto, Phases
  <2>3. CASE LoadRoles(d)
    <3>1. \/ Answer(d, "Invalid") \/ Answer(d, "NotFound")
          \/ /\ Hydrated(d).version # req[d].expected
             /\ Answer(d, "VersionConflict")
          \/ \E phase \in {"apply", "append"} : Goto(d, phase)
      BY <2>3 DEF LoadRoles
    <3>2. ~\E phase \in {"apply", "append"} : Goto(d, phase)
      BY <1>3 DEF Goto, Phases
    <3> QED BY <1>2, <2>3, <3>1, <3>2
  <2>4. CASE ApplyMutation(d)
    <3>1. \/ Answer(d, "ok") \/ Answer(d, "IdempotencyConflict")
          \/ Answer(d, "NotFound")
          \/ /\ incident[req[d].target].version # snap[d].version
             /\ Answer(d, "VersionConflict")
      BY <2>4 DEF ApplyMutation, ApplyAnswers
    <3> QED BY <1>2, <2>4, <3>1
  <2>5. CASE AppendComment(d) \/ CreateIncident(d)
    BY <1>2, <2>5 DEF AppendComment, CreateIncident, ApplyAnswers
  <2> QED BY <1>4, <2>1, <2>2, <2>3, <2>4, <2>5 DEF Step
<1>5. ASSUME NEW d \in Callers, NEW r \in Requests, NEW i \in IncidentIds,
             DeliverCreate(d, r, i)
      PROVE  FALSE
  BY <1>3, <1>5 DEF DeliverCreate, Accept, Phases
<1>6. ASSUME NEW d \in Callers, NEW r \in Requests,
             Deliver(d, r) \/ RefuseCreate(d, r)
      PROVE  FALSE
  BY <1>2, <1>3, <1>6 DEF Deliver, Accept, RefuseCreate, Phases
<1>7. CASE Next
  BY <1>1, <1>2, <1>4, <1>5, <1>6, <1>7 DEF Next, Crash, Tick
<1> QED BY <1>1, <1>7 DEF vars

\* VersionConflict, which sends a responder to reload, is answered only to a
\* caller whose copy is behind the stored row, whatever the number of callers
\* and however their reads and commits interleave.
THEOREM ConflictsAreStale == Spec => ConflictOnlyIfStale
<1>1. Init => ExpectedInv
  BY DEF Init, ExpectedInv
<1>2. ASSUME IInv, ExpectedInv, [Next]_vars, NEW c \in Callers,
             Replies(c, "VersionConflict")
      PROVE  req[c].expected < incident[req[c].target].version
  <2> DEFINE stored == incident[req[c].target].version
  <2>1. /\ pc[c] \in {"hydrate", "apply"}
        /\ \/ pc[c] = "hydrate" /\ snap[c].version # req[c].expected
           \/ pc[c] = "apply" /\ stored # snap[c].version
    <3>1. LoadRoles(c) => Hydrated(c).version = snap[c].version
      BY DEF LoadRoles, Hydrated, IInv, CallsOK, CallOK, WriteOK, Fresh,
             IncidentRows
    <3> QED BY <1>2, <3>1, ConflictFound DEF LoadRoles, ApplyMutation
  <2>2. ExpectedSeen(c) /\ WriteOK(req[c], pc[c], snap[c])
    BY <1>2, <2>1 DEF ExpectedInv, IInv, CallsOK, CallOK
  <2>3. /\ req[c].expected \in Nat
        /\ snap[c].version \in Nat
        /\ stored \in Nat
        /\ snap[c].version <= stored
    BY <1>2, <2>1, <2>2, ExistsRow DEF WriteOK, Requested, Calls, Fresh,
       IncidentRows, IInv, LogInv
  <2>4. \/ /\ req[c].expected <= snap[c].version
           /\ snap[c].version # req[c].expected
        \/ /\ req[c].expected = snap[c].version
           /\ stored # snap[c].version
    BY <2>1, <2>2 DEF ExpectedSeen
  <2> HIDE DEF stored
  <2>5. req[c].expected < stored
    BY <2>3, <2>4
  <2> QED BY <2>5 DEF stored
<1>3. IInv /\ ExpectedInv /\ [Next]_vars
        => [\A c \in Callers : Replies(c, "VersionConflict") =>
               req[c].expected < incident[req[c].target].version]_vars
  BY <1>2
<1>4. IInv /\ ExpectedInv /\ [Next]_vars => ExpectedInv'
  BY ExpectedNext
<1> QED BY <1>1, <1>3, <1>4, Invariant, PTL DEF Spec, ConflictOnlyIfStale

-----------------------------------------------------------------------------
(* Acknowledgements.  A replay is compared with what is stored, and what is *)
(* stored says what its command said.                                       *)

\* The events of a request that was not on the timeline are those just
\* appended for it.
LEMMA EventsOfRequest ==
    ASSUME NEW S, NEW t \in Seq(S), NEW evs \in Seq(S), NEW rid,
           ~HasEvents(t, rid), \A n \in 1 .. Len(evs) : evs[n].rid = rid
    PROVE  RequestEvents(t \o evs, rid) = evs
<1> DEFINE base == Len(t)
           all == t \o evs
           at == {n \in DOMAIN all : all[n].rid = rid}
           upTo(n) == {m \in at : m <= n}
<1>1. /\ base \in Nat /\ Len(evs) \in Nat
      /\ DOMAIN all = 1 .. base + Len(evs)
      /\ \A n \in 1 .. base : n \in DOMAIN t /\ all[n] = t[n]
      /\ \A k \in 1 .. Len(evs) : all[base + k] = evs[k]
  OBVIOUS
<1>2. \A n \in 1 .. base : all[n].rid # rid
  BY <1>1 DEF HasEvents
<1> HIDE DEF all, base
<1>3. \A n \in base + 1 .. base + Len(evs) : all[n].rid = rid
  <2> TAKE n \in base + 1 .. base + Len(evs)
  <2>1. n - base \in 1 .. Len(evs) /\ n = base + (n - base)
    BY <1>1
  <2> QED BY <1>1, <2>1
<1>4. at = base + 1 .. base + Len(evs)
  <2>1. \A n \in 1 .. base + Len(evs) :
           n \in 1 .. base \/ n \in base + 1 .. base + Len(evs)
    BY <1>1
  <2>2. base + 1 .. base + Len(evs) \subseteq 1 .. base + Len(evs)
    BY <1>1
  <2> QED BY <1>1, <1>2, <1>3, <2>1, <2>2
<1> HIDE DEF at
<1>5. Cardinality(at) = Len(evs)
  <2>1. base + 1 \in Int /\ base + Len(evs) \in Int
    BY <1>1
  <2>2. Cardinality(base + 1 .. base + Len(evs))
          = IF base + 1 > base + Len(evs) THEN 0
            ELSE (base + Len(evs)) - (base + 1) + 1
    BY <2>1, FS_Interval
  <2> QED BY <1>1, <1>4, <2>2
<1>6. \A n \in at : Cardinality(upTo(n)) = n - base
  <2> TAKE n \in at
  <2>1. upTo(n) = base + 1 .. n
    BY <1>1, <1>4
  <2>2. n \in Nat /\ base + 1 <= n /\ base + 1 \in Int /\ n \in Int
    BY <1>1, <1>4
  <2>3. Cardinality(base + 1 .. n) = n - (base + 1) + 1
    BY <1>1, <2>2, FS_Interval
  <2> HIDE DEF upTo
  <2> QED BY <1>1, <2>1, <2>2, <2>3
<1> HIDE DEF upTo
<1>7. \A k \in 1 .. Len(evs) :
         all[CHOOSE n \in at : Cardinality(upTo(n)) = k] = evs[k]
  <2> TAKE k \in 1 .. Len(evs)
  <2>1. base + k \in at /\ k \in Nat
    BY <1>1, <1>4
  <2>2. \A n \in at : Cardinality(upTo(n)) = k <=> n = base + k
    <3> TAKE n \in at
    <3>1. n \in Nat
      BY <1>1, <1>4
    <3> QED BY <1>1, <1>6, <2>1, <3>1
  <2>3. (CHOOSE n \in at : Cardinality(upTo(n)) = k) = base + k
    BY <2>1, <2>2
  <2> QED BY <1>1, <2>3
<1>8. RequestEvents(all, rid)
        = [k \in 1 .. Cardinality(at) |->
             all[CHOOSE n \in at : Cardinality(upTo(n)) = k]]
  BY DEF RequestEvents, at, upTo
<1>9. RequestEvents(all, rid) = [k \in 1 .. Len(evs) |-> evs[k]]
  BY <1>5, <1>7, <1>8
<1>10. evs = [k \in 1 .. Len(evs) |-> evs[k]]
  OBVIOUS
<1> QED BY <1>9, <1>10 DEF all

\* The events an accepted command appends say the same thing as the command.
LEMMA OwnEventsMatch ==
    ASSUME NEW row \in IncidentRows, NEW rid \in RequestIds,
           NEW cmd \in VersionedCommands, Accepts(row, cmd)
    PROVE  ReplayMatches(Events(row, rid, cmd), cmd)
<1>1. cmd.complete
  BY DEF Accepts
<1>2. CASE cmd.kind \in {"triage", "transition"}
  <2> DEFINE evs == Events(row, rid, cmd)
  <2>1. /\ evs[1] = StatusEvent(row, rid, cmd)
        /\ Len(evs) <= 3
    BY <1>2 DEF Events, TransitionEvents
  <2>2. /\ StatusEvent(row, rid, cmd).kind = "status_transitioned"
        /\ StatusEvent(row, rid, cmd).payload.by = cmd
    BY DEF StatusEvent, TimelineEvent
  <2> HIDE DEF evs
  <2> QED BY <1>1, <1>2, <2>1, <2>2 DEF ReplayMatches, evs
<1>3. ASSUME NEW e, Events(row, rid, cmd) = << e >>
      PROVE  Events(row, rid, cmd)[1] = e /\ Len(Events(row, rid, cmd)) = 1
  BY <1>3
<1>4. CASE cmd.kind \in {"reassess", "override"}
  <2> DEFINE e == SeverityEvent(row, rid, cmd)
             after == Applied(row, cmd)
  <2>1. Events(row, rid, cmd) = << e >>
    BY <1>4 DEF Events
  <2>2. /\ e.kind = "severity_changed"
        /\ e.payload.after.impact = after.impact
        /\ e.payload.after.override = after.override
    BY DEF SeverityEvent, TimelineEvent, Assessment
  <2>3. /\ after.override = Changed(row, cmd).override
        /\ after.impact = Changed(row, cmd).impact
    BY ChangedType DEF Applied, Advanced, IncidentRows
  <2>4. cmd.kind = "override" => Changed(row, cmd).override = {cmd.selected}
    BY ChangedSeverity
  <2>5. cmd.kind = "reassess" => /\ Changed(row, cmd).override = {}
                                 /\ Changed(row, cmd).impact = cmd.impact
    <3>1. cmd.kind = "reassess" => Changed(row, cmd) = Reassessed(row, cmd)
      BY ChangedForms
    <3>2. /\ Reassessed(row, cmd).override = {}
          /\ Reassessed(row, cmd).impact = cmd.impact
      BY DEF Reassessed, IncidentRows
    <3> QED BY <3>1, <3>2
  <2> HIDE DEF e, after
  <2> QED BY <1>1, <1>3, <1>4, <2>1, <2>2, <2>3, <2>4, <2>5 DEF ReplayMatches
<1>5. CASE cmd.kind = "disposition"
  <2> DEFINE e == DispositionEvent(row, rid, cmd)
  <2>1. Events(row, rid, cmd) = << e >>
    BY <1>5 DEF Events
  <2>2. /\ e.kind = "disposition_changed"
        /\ e.payload.after = cmd.disposition
        /\ e.payload.duplicateOf = cmd.duplicateOf
    BY DEF DispositionEvent, TimelineEvent
  <2> HIDE DEF e
  <2> QED BY <1>1, <1>3, <1>5, <2>1, <2>2 DEF ReplayMatches
<1>6. CASE cmd.kind \in {"assign", "replace", "release"}
  <2> DEFINE e == RoleCommandEvent(row, rid, cmd)
  <2>1. Events(row, rid, cmd) = << e >>
    BY <1>6 DEF Events
  <2>2. e.kind = "role_changed" /\ e.payload.role = cmd.role
    BY <1>6 DEF RoleCommandEvent, RoleEvent, TimelineEvent
  <2>3. cmd.kind = "assign" =>
          e.payload.previous = {} /\ e.payload.current = {cmd.principal}
    BY DEF RoleCommandEvent, RoleEvent, TimelineEvent
  <2>4. cmd.kind = "replace" => /\ Cardinality(e.payload.previous) = 1
                                /\ e.payload.current = {cmd.principal}
    <3>1. cmd.kind = "replace" => /\ e.payload.previous = Holders(row, cmd.role)
                                  /\ e.payload.current = {cmd.principal}
      BY DEF RoleCommandEvent, RoleEvent, TimelineEvent
    <3>2. cmd.kind = "replace" => Cardinality(Holders(row, cmd.role)) = 1
      BY DEF Accepts, RoleAccepted
    <3> QED BY <3>1, <3>2
  <2>5. cmd.kind = "release" =>
          e.payload.previous = {cmd.principal} /\ e.payload.current = {}
    BY DEF RoleCommandEvent, RoleEvent, TimelineEvent
  <2> HIDE DEF e
  <2>6. CASE cmd.kind = "assign"
    BY <1>1, <1>3, <2>1, <2>2, <2>3, <2>6 DEF ReplayMatches
  <2>7. CASE cmd.kind = "replace"
    BY <1>1, <1>3, <2>1, <2>2, <2>4, <2>7 DEF ReplayMatches
  <2>8. CASE cmd.kind = "release"
    BY <1>1, <1>3, <2>1, <2>2, <2>5, <2>8 DEF ReplayMatches
  <2> QED BY <1>6, <2>6, <2>7, <2>8
<1> QED BY <1>2, <1>4, <1>5, <1>6, VersionedKinds

LEMMA OwnCommentMatches ==
    ASSUME NEW rid, NEW cmd \in CommentCommands, cmd.complete
    PROVE  ReplayMatches(CommentEvents(rid, cmd), cmd)
<1> DEFINE evs == CommentEvents(rid, cmd)
<1>1. /\ evs[1].kind = "commented" /\ evs[1].payload.body = cmd.body
      /\ Len(evs) = 1
  BY DEF CommentEvents, TimelineEvent
<1>2. cmd.kind = "comment"
  BY DEF CommentCommands
<1> HIDE DEF evs
<1> QED BY <1>1, <1>2 DEF ReplayMatches, evs
\* An Ok comes from the replay preflight, or from a write transaction.
LEMMA OkFound ==
    ASSUME IInv, [Next]_vars, NEW c \in Callers, Replies(c, "ok")
    PROVE  \/ Preflight(c) \/ ApplyMutation(c) \/ AppendComment(c)
           \/ CreateIncident(c)
<1> DEFINE Found == \/ Preflight(c) \/ ApplyMutation(c) \/ AppendComment(c)
                    \/ CreateIncident(c)
<1>1. pc'[c] # pc[c]
  BY DEF Replies
<1>2. ASSUME NEW d \in Callers, NEW code, Answer(d, code)
      PROVE  c = d /\ code = "ok"
  BY <1>2, AnswerReplies
<1>3. ASSUME NEW d \in Callers, NEW phase \in Phases \ {"idle"},
             pc' = [pc EXCEPT ![d] = phase]
      PROVE  FALSE
  BY <1>3 DEF Replies, IInv, VarTypes
<1>4. ASSUME NEW d \in Callers, Step(d) PROVE Found
  <2>1. CASE Begin(d) \/ BeginBusy(d) \/ CommitBusy(d) \/ ReadBusy(d)
    BY <1>1, <1>2, <2>1 DEF Begin, BeginBusy, CommitBusy, ReadBusy, Contended
  <2>2. CASE Preflight(d)
    <3>1. Answer(d, "NotFound") \/ Goto(d, "load") \/ \E code : Answer(d, code)
      BY <2>2 DEF Preflight
    <3> QED BY <1>2, <1>3, <2>2, <3>1 DEF Goto, Phases
  <2>3. CASE LoadRow(d)
    BY <1>3, <2>3 DEF LoadRow, Goto, Phases
  <2>4. CASE LoadRoles(d)
    <3>1. \/ Answer(d, "Invalid") \/ Answer(d, "NotFound")
          \/ Answer(d, "VersionConflict")
          \/ \E phase \in {"apply", "append"} : Goto(d, phase)
      BY <2>4 DEF LoadRoles
    <3>2. ~\E phase \in {"apply", "append"} : Goto(d, phase)
      BY <1>3 DEF Goto, Phases
    <3> QED BY <1>2, <3>1, <3>2
  <2>5. CASE ApplyMutation(d)
    <3>1. \E code : Answer(d, code)
      BY <2>5 DEF ApplyMutation, ApplyAnswers
    <3> QED BY <1>2, <2>5, <3>1
  <2>6. CASE AppendComment(d)
    <3>1. \E code : Answer(d, code)
      BY <2>6 DEF AppendComment, ApplyAnswers
    <3> QED BY <1>2, <2>6, <3>1
  <2>7. CASE CreateIncident(d)
    <3>1. \E code : Answer(d, code)
      BY <2>7 DEF CreateIncident, ApplyAnswers
    <3> QED BY <1>2, <2>7, <3>1
  <2> QED BY <1>4, <2>1, <2>2, <2>3, <2>4, <2>5, <2>6, <2>7 DEF Step
<1>5. ASSUME NEW d \in Callers, NEW r \in Requests, NEW i \in IncidentIds,
             DeliverCreate(d, r, i)
      PROVE  FALSE
  BY <1>3, <1>5 DEF DeliverCreate, Accept, Phases
<1>6. ASSUME NEW d \in Callers, NEW r \in Requests,
             Deliver(d, r) \/ RefuseCreate(d, r)
      PROVE  FALSE
  BY <1>2, <1>3, <1>6 DEF Deliver, Accept, RefuseCreate, Phases
<1>7. CASE Next
  BY <1>1, <1>2, <1>4, <1>5, <1>6, <1>7 DEF Next, Crash, Tick
<1> QED BY <1>1, <1>7 DEF vars

\* What a write transaction of a versioned command or a comment answers with
\* Ok is stored under the request, now or from an earlier delivery.
LEMMA WrittenIsApplied ==
    ASSUME IInv, NEW c \in Callers, NEW evs,
           pc[c] \notin {"idle", "create"},
           RequestSeq(evs, req[c].rid),
           ReplayMatches(evs, req[c].cmd),
           \/ /\ HasEvents(timeline[req[c].target], req[c].rid)
              /\ Stored(c) = evs
              /\ timeline' = timeline
           \/ /\ ~HasEvents(timeline[req[c].target], req[c].rid)
              /\ timeline' = [timeline EXCEPT ![req[c].target] =
                                 InsertEvents(@, evs)]
    PROVE  AppliedAs(req[c], incident', timeline')
<1> DEFINE i == req[c].target
           rid == req[c].rid
<1>1. /\ req[c].cmd.kind # "create"
      /\ i \in IncidentIds
  BY VersionedKinds DEF IInv, CallsOK, CallOK, WriteOK, Requested, Calls,
                        CommentCommands
<1>2. timeline[i] \in Seq(TimelineEvents) /\ evs \in Seq(TimelineEvents)
  BY <1>1 DEF IInv, LogInv, LogTypeOK, RequestSeq
<1>3. HasEvents(timeline'[i], rid) /\ RequestEvents(timeline'[i], rid) = evs
  <2>1. CASE HasEvents(timeline[i], rid) /\ Stored(c) = evs /\ timeline' = timeline
    BY <2>1 DEF Stored
  <2>2. CASE /\ ~HasEvents(timeline[i], rid)
             /\ timeline' = [timeline EXCEPT ![i] = InsertEvents(@, evs)]
    <3>1. timeline'[i] = timeline[i] \o evs
      BY <1>1, <1>2, <2>2, InsertEventsAppends DEF IInv, LogInv, LogTypeOK
    <3>2. RequestEvents(timeline[i] \o evs, rid) = evs
      BY <1>2, <2>2, EventsOfRequest DEF RequestSeq
    <3>3. HasEvents(timeline[i] \o evs, rid)
      <4> HIDE DEF i, rid
      <4>1. /\ evs[1].rid = rid /\ 1 \in 1 .. Len(evs) /\ Len(evs) \in Nat
            /\ Len(timeline[i]) \in Nat
        BY <1>2 DEF RequestSeq, rid
      <4>2. /\ (timeline[i] \o evs)[Len(timeline[i]) + 1] = evs[1]
            /\ Len(timeline[i]) + 1 \in DOMAIN (timeline[i] \o evs)
        BY <1>2, <4>1
      <4> QED BY <4>1, <4>2 DEF HasEvents
    <3> QED BY <3>1, <3>2, <3>3
  <2> QED BY <2>1, <2>2
<1> QED BY <1>1, <1>3 DEF AppliedAs

\* Ok is answered only for a request whose own content is on the timeline,
\* now or since an earlier delivery: neither a reused request identifier nor
\* a write that lost its race is ever acknowledged.
THEOREM AcknowledgedAreApplied == Spec => AcknowledgedIsApplied
<1>1. ASSUME IInv, [Next]_vars, NEW c \in Callers, Replies(c, "ok")
      PROVE  AppliedAs(req[c], incident', timeline')
  <2> DEFINE rid == req[c].rid
             cmd == req[c].cmd
  <2>0. reply'[c] = "ok" /\ reply \in [Callers -> Answers]
    BY <1>1 DEF Replies, IInv, VarTypes
  <2>1. \A code : Answer(c, code) => code = "ok"
    BY <2>0 DEF Answer
  <2>2. CASE Preflight(c)
    <3>1. WriteOK(req[c], "preflight", snap[c])
      BY <1>1, <2>2 DEF Preflight, IInv, CallsOK, CallOK
    <3>2. cmd.kind # "create"
      BY <3>1, VersionedKinds DEF WriteOK, CommentCommands
    <3>3. /\ HasEvents(timeline[req[c].target], rid)
          /\ ReplayMatches(Stored(c), cmd)
          /\ timeline' = timeline
      <4>1. ~Answer(c, "NotFound") /\ ~Goto(c, "load")
        BY <1>1, <2>1 DEF Goto, Replies, IInv, VarTypes
      <4>2. /\ HasEvents(timeline[req[c].target], rid)
            /\ Answer(c, IF ReplayMatches(Stored(c), cmd)
                         THEN "ok" ELSE "IdempotencyConflict")
            /\ timeline' = timeline
        BY <2>2, <4>1 DEF Preflight, rows
      <4> QED BY <2>1, <4>2
    <3> QED BY <3>2, <3>3 DEF AppliedAs, Stored
  <2>3. CASE ApplyMutation(c)
    <3>1. WriteOK(req[c], "apply", snap[c]) /\ pc[c] = "apply"
      BY <1>1, <2>3 DEF ApplyMutation, IInv, CallsOK, CallOK
    <3>2. /\ snap[c] \in IncidentRows /\ rid \in RequestIds
          /\ cmd \in VersionedCommands /\ Accepts(snap[c], cmd)
      BY <3>1 DEF WriteOK, Fresh, Requested, Calls
    <3>3. RequestSeq(NewEvents(c), rid) /\ ReplayMatches(NewEvents(c), cmd)
      BY <3>2, EventsType, OwnEventsMatch DEF NewEvents
    <3>4. \/ /\ HasEvents(timeline[req[c].target], rid)
             /\ Stored(c) = NewEvents(c)
             /\ timeline' = timeline
          \/ /\ ~HasEvents(timeline[req[c].target], rid)
             /\ timeline' = [timeline EXCEPT ![req[c].target] =
                                InsertEvents(@, NewEvents(c))]
      <4>1. ~Answer(c, "VersionConflict") /\ ~Answer(c, "NotFound")
        BY <2>1
      <4>2. \/ /\ HasEvents(timeline[req[c].target], rid)
               /\ Answer(c, IF Stored(c) = NewEvents(c)
                            THEN "ok" ELSE "IdempotencyConflict")
               /\ timeline' = timeline
            \/ /\ ~HasEvents(timeline[req[c].target], rid)
               /\ timeline' = [timeline EXCEPT ![req[c].target] =
                                  InsertEvents(@, NewEvents(c))]
        BY <2>3, <4>1 DEF ApplyMutation, ApplyAnswers, rows
      <4> QED BY <2>1, <4>2
    <3> QED BY <1>1, <3>1, <3>3, <3>4, WrittenIsApplied
  <2>4. CASE AppendComment(c)
    <3> DEFINE evs == CommentEvents(rid, cmd)
    <3>1. WriteOK(req[c], "append", snap[c]) /\ pc[c] = "append"
      BY <1>1, <2>4 DEF AppendComment, IInv, CallsOK, CallOK
    <3>2. rid \in RequestIds /\ cmd \in CommentCommands /\ cmd.complete
      BY <3>1 DEF WriteOK, Requested, Calls
    <3>3. RequestSeq(evs, rid) /\ ReplayMatches(evs, cmd)
      BY <3>2, CommentEventsType, OwnCommentMatches
    <3>4. \/ /\ HasEvents(timeline[req[c].target], rid)
             /\ Stored(c) = evs
             /\ timeline' = timeline
          \/ /\ ~HasEvents(timeline[req[c].target], rid)
             /\ timeline' = [timeline EXCEPT ![req[c].target] =
                                InsertEvents(@, evs)]
      <4>1. \/ /\ HasEvents(timeline[req[c].target], rid)
               /\ Answer(c, IF Stored(c) = evs
                            THEN "ok" ELSE "IdempotencyConflict")
               /\ timeline' = timeline
            \/ /\ ~HasEvents(timeline[req[c].target], rid)
               /\ timeline' = [timeline EXCEPT ![req[c].target] =
                                  InsertEvents(@, evs)]
        BY <2>4 DEF AppendComment, ApplyAnswers, rows
      <4> QED BY <2>1, <4>1
    <3> HIDE DEF evs
    <3> QED BY <1>1, <3>1, <3>3, <3>4, WrittenIsApplied
  <2>5. CASE CreateIncident(c)
    <3>1. CreationOK(req[c])
      BY <1>1, <2>5 DEF CreateIncident, IInv, CallsOK, CallOK
    <3>2. /\ cmd \in CreateCommands /\ cmd.kind = "create"
          /\ req[c].target \in IncidentIds /\ rid \in RequestIds
      BY <3>1 DEF CreationOK, CreateCommands, Requested, Calls
    <3>3. \E j \in IncidentIds :
             /\ incident'[j] # NoIncident
             /\ incident'[j].createdBy = [rid |-> rid, cmd |-> cmd]
      <4>1. CASE /\ CreatedUnder(rid) # {}
                 /\ ApplyAnswers(c, IF \A j \in CreatedUnder(rid) :
                                          incident[j].createdBy.cmd = cmd
                                    THEN "ok" ELSE "IdempotencyConflict")
        <5>1. \A j \in CreatedUnder(rid) : incident[j].createdBy.cmd = cmd
          BY <2>1, <4>1 DEF ApplyAnswers
        <5>2. PICK j \in IncidentIds : /\ Exists(j)
                                       /\ incident[j].createdBy.rid = rid
                                       /\ incident[j].createdBy.cmd = cmd
          BY <4>1, <5>1 DEF CreatedUnder
        <5>3. incident[j].createdBy \in [rid : RequestIds, cmd : CreateCommands]
          BY <1>1, <5>2, ExistsRow DEF IInv, LogInv, IncidentRows
        <5>4. incident[j].createdBy = [rid |-> rid, cmd |-> cmd]
          BY <5>2, <5>3
        <5>5. incident' = incident
          BY <4>1 DEF ApplyAnswers, rows
        <5> QED BY <5>2, <5>4, <5>5 DEF Exists
      <4>2. CASE incident' = [incident EXCEPT ![req[c].target] =
                                 CreatedRow(rid, cmd)]
        <5>1. incident'[req[c].target] = CreatedRow(rid, cmd)
          BY <1>1, <3>2, <4>2 DEF IInv, LogInv, LogTypeOK
        <5>2. CreatedRow(rid, cmd) # NoIncident
          BY <3>2, CreatedRowType, NoIncidentIsNoRow
        <5>3. CreatedRow(rid, cmd).createdBy = [rid |-> rid, cmd |-> cmd]
          BY DEF CreatedRow
        <5> QED BY <3>2, <5>1, <5>2, <5>3
      <4> QED BY <2>5, <4>1, <4>2 DEF CreateIncident
    <3> QED BY <3>2, <3>3 DEF AppliedAs
  <2> QED BY <1>1, <2>2, <2>3, <2>4, <2>5, OkFound
<1>2. IInv /\ [Next]_vars
        => [\A c \in Callers : Replies(c, "ok") =>
               AppliedAs(req[c], incident', timeline')]_vars
  BY <1>1
<1> QED BY <1>2, Invariant, PTL DEF Spec, AcknowledgedIsApplied

-----------------------------------------------------------------------------
(***************************************************************************)
(* The timeline                                                            *)
(*                                                                         *)
(* What is shown is a prefix because the one answer that may be applied,   *)
(* the current ticket's, was asked for at the end of what is shown.  That  *)
(* is the inductive part (Sound): the in-flight mark keeps a second        *)
(* request from moving the end, and every selection and reload takes the   *)
(* ticket away from the request it overtakes.  LastPageIsLast adds what an *)
(* answered page covers (Covers).                                          *)
(*                                                                         *)
(* Every step of the workspace is one of the hook's lemmas or leaves the   *)
(* hook alone, so that the hook's invariant holds inside the shell too.    *)
(* ResultsBelong adds that an action whose number is still the last one    *)
(* was started under the present selection (ActionOwned).                  *)
(***************************************************************************)

\* What a request knows: where it reads, and what its page may hold.
Sound(m) ==
    /\ m.after <= length[m.id]
    /\ ~m.append => m.after = 0
    /\ m.page.ok =>
          /\ m.page.events =
                [k \in 1 .. Len(m.page.events) |-> Event(m.id, m.after + k)]
          /\ m.after + Len(m.page.events) <= length[m.id]
          /\ m.page.next # 0 =>
                /\ m.page.next = m.after + Len(m.page.events)
                /\ m.page.next < length[m.id]
    /\ m.ticket = ticket /\ m.append /\ m.stage # "landed" =>
          m.id = selected /\ m.after = Len(view.events)

MailSound == \A m \in mail : Sound(m)

\* An answered page that names no next one reaches what was stored when it
\* was asked for.
Covers(m) ==
    /\ m.asOf <= length[m.id]
    /\ m.page.ok /\ m.page.next = 0 =>
          m.after + Len(m.page.events) >= m.asOf

MailCovers == \A m \in mail : Covers(m)

ViewInv == /\ ViewTypeOK
           /\ InFlightIsCurrent
           /\ ShownIsPrefix
           /\ ResumesAtEnd
           /\ MailSound

-----------------------------------------------------------------------------
(* Pages. *)

\* The repository returns consecutive events, no further than the timeline,
\* and a number only if more are stored.
LEMMA PageIsSound ==
    ASSUME ViewTypeOK, NEW i \in Incidents, NEW after \in Nat,
           after <= length[i]
    PROVE  LET page == Timeline(i, after)
               n == Len(page.events)
           IN  /\ page \in Pages
               /\ page.events = [k \in 1 .. n |-> Event(i, after + k)]
               /\ after + n <= length[i]
               /\ page.next # 0 => page.next = after + n /\ page.next < length[i]
<1> DEFINE left == length[i] - after
           n == IF left > PageLimit THEN PageLimit ELSE left
           evs == [k \in 1 .. n |-> Event(i, after + k)]
<1>1. length[i] \in Nat /\ n \in Nat /\ n <= left
  BY PageAssumption DEF ViewTypeOK
<1>2. evs \in Seq(Incidents \X Nat) /\ Len(evs) = n
  BY <1>1 DEF Event
<1>3. Timeline(i, after) =
        [ok |-> TRUE, events |-> evs,
         next |-> IF left > PageLimit THEN after + n ELSE 0]
  BY DEF Timeline
<1>4. after + n \in Nat
  BY <1>1
<1>5. left > PageLimit => after + n < length[i]
  BY <1>1, PageAssumption
<1>6. after + n <= length[i]
  BY <1>1
<1> DEFINE next == IF left > PageLimit THEN after + n ELSE 0
<1>7. next \in Nat /\ (next # 0 => next = after + n /\ next < length[i])
  BY <1>4, <1>5
<1>8. evs = [k \in 1 .. n |-> Event(i, after + k)]
  OBVIOUS
<1> HIDE DEF next, evs, n, left
<1>9. Timeline(i, after) = [ok |-> TRUE, events |-> evs, next |-> next]
  BY <1>3 DEF next
<1>10. Timeline(i, after) \in Pages
  BY <1>2, <1>7, <1>9 DEF Pages
<1>11. Timeline(i, after).events = evs /\ Timeline(i, after).next = next
  BY <1>9
<1> QED BY <1>2, <1>6, <1>7, <1>8, <1>10, <1>11

\* A page without a next one ends where the timeline does.
LEMMA LastPageCovers ==
    ASSUME ViewTypeOK, NEW i \in Incidents, NEW after \in Nat,
           after <= length[i], Timeline(i, after).next = 0
    PROVE  after + Len(Timeline(i, after).events) = length[i]
<1> DEFINE left == length[i] - after
           n == IF left > PageLimit THEN PageLimit ELSE left
<1>1. length[i] \in Nat /\ n \in Nat /\ n <= left
  BY PageAssumption DEF ViewTypeOK
<1>2. Len([k \in 1 .. n |-> Event(i, after + k)]) = n
  BY <1>1
<1>3. left <= PageLimit
  BY <1>1, PageAssumption DEF Timeline
<1>4. n = left
  BY <1>3, PageAssumption, <1>1
<1> HIDE DEF n
<1>5. Timeline(i, after).events = [k \in 1 .. n |-> Event(i, after + k)]
  BY DEF Timeline, n
<1>6. Len(Timeline(i, after).events) = n
  BY <1>2, <1>5
<1> QED BY <1>1, <1>4, <1>6

\* Appending the events that follow a prefix makes a longer prefix.
LEMMA PrefixExtends ==
    ASSUME NEW i \in Incidents, NEW s \in Seq(Incidents \X Nat),
           NEW p \in Seq(Incidents \X Nat),
           s = FirstEvents(i, Len(s)),
           p = [k \in 1 .. Len(p) |-> Event(i, Len(s) + k)]
    PROVE  /\ s \o p \in Seq(Incidents \X Nat)
           /\ Len(s \o p) = Len(s) + Len(p)
           /\ s \o p = FirstEvents(i, Len(s) + Len(p))
<1>1. Len(s) \in Nat /\ Len(p) \in Nat
  OBVIOUS
<1>2. s \o p \in Seq(Incidents \X Nat) /\ Len(s \o p) = Len(s) + Len(p)
  OBVIOUS
<1>3. ASSUME NEW k \in 1 .. Len(s) + Len(p)
      PROVE  (s \o p)[k] = Event(i, k)
  <2>1. CASE k <= Len(s)
    <3>1. (s \o p)[k] = s[k]
      BY <2>1
    <3>2. s[k] = Event(i, k)
      BY <2>1, <1>1 DEF FirstEvents
    <3> QED BY <3>1, <3>2
  <2>2. CASE k > Len(s)
    <3>1. (s \o p)[k] = p[k - Len(s)]
      BY <2>2
    <3>2. k - Len(s) \in 1 .. Len(p)
      BY <2>2, <1>1
    <3>3. p[k - Len(s)] = Event(i, Len(s) + (k - Len(s)))
      BY <3>2
    <3>4. Len(s) + (k - Len(s)) = k
      BY <1>1
    <3> QED BY <3>1, <3>3, <3>4
  <2> QED BY <2>1, <2>2, <1>1
<1> DEFINE q == s \o p
<1>4. q \in [1 .. Len(q) -> Incidents \X Nat]
  BY <1>2, LenProperties
<1> HIDE DEF q
<1>5. q = [k \in 1 .. Len(q) |-> q[k]]
  BY <1>4
<1>6. q = [k \in 1 .. Len(s) + Len(p) |-> (s \o p)[k]]
  BY <1>2, <1>5 DEF q
<1> QED BY <1>2, <1>3, <1>6 DEF FirstEvents, q

\* The same of a first page alone.
LEMMA FirstPageIsPrefix ==
    ASSUME NEW i \in Incidents, NEW p \in Seq(Incidents \X Nat),
           p = [k \in 1 .. Len(p) |-> Event(i, 0 + k)]
    PROVE  p = FirstEvents(i, Len(p))
<1>1. \A k \in 1 .. Len(p) : 0 + k = k
  OBVIOUS
<1>2. Len(p) \in Nat
  OBVIOUS
<1>3. [k \in 1 .. Len(p) |-> Event(i, 0 + k)]
        = [k \in 1 .. Len(p) |-> Event(i, k)]
  BY <1>1
<1> QED BY <1>3 DEF FirstEvents

-----------------------------------------------------------------------------
(* The steps. *)

LEMMA InitView == ViewInit => ViewInv
<1> SUFFICES ASSUME ViewInit PROVE ViewInv
  OBVIOUS
<1>1. << >> \in Seq(Incidents \X Nat) /\ Len(<< >>) = 0
  OBVIOUS
<1>2. ViewTypeOK
  BY <1>1 DEF ViewInit, ViewTypeOK, BlankTimeline
<1>3. InFlightIsCurrent /\ MailSound
  BY DEF ViewInit, InFlightIsCurrent, MailSound
<1>4. ShownIsPrefix /\ ResumesAtEnd
  BY <1>1 DEF ViewInit, ShownIsPrefix, ResumesAtEnd, BlankTimeline
<1> QED BY <1>2, <1>3, <1>4 DEF ViewInv

\* A request stays sound while timelines grow and, if its answer may still
\* be appended, what is shown stays.
LEMMA SoundStays ==
    ASSUME ViewTypeOK, length' \in [Incidents -> Nat],
           \A i \in Incidents : length[i] <= length'[i],
           NEW m \in PageRequests, Sound(m),
           m.ticket = ticket' /\ m.append /\ m.stage # "landed" =>
              /\ m.ticket = ticket
              /\ selected' = selected
              /\ view'.events = view.events
    PROVE  Sound(m)'
<1>1. /\ m.id \in Incidents /\ m.after \in Nat
      /\ m.page.next \in Nat /\ m.page.events \in Seq(Incidents \X Nat)
  BY DEF PageRequests, Pages
<1>2. /\ length[m.id] \in Nat /\ length'[m.id] \in Nat
      /\ length[m.id] <= length'[m.id]
  BY <1>1 DEF ViewTypeOK
<1>3. Len(m.page.events) \in Nat
  BY <1>1
<1> QED BY <1>1, <1>2, <1>3 DEF Sound

\* What is shown, and where it resumes, only depend on the view, the
\* selection and a timeline that grows.
LEMMA ShownStays ==
    ASSUME ViewInv, length' \in [Incidents -> Nat],
           \A i \in Incidents : length[i] <= length'[i],
           selected' = selected, view'.events = view.events,
           view'.hasMore = view.hasMore, view'.after = view.after
    PROVE  ShownIsPrefix' /\ ResumesAtEnd'
<1>1. Len(view.events) \in Nat /\ view.after \in Nat
  BY DEF ViewInv, ViewTypeOK
<1>2. CASE selected = None
  <2>1. Len(view.events) = 0 /\ ~view.hasMore
    BY <1>1, <1>2 DEF ViewInv, ShownIsPrefix, ResumesAtEnd
  <2> QED BY <1>2, <2>1 DEF ShownIsPrefix, ResumesAtEnd
<1>3. CASE selected \in Incidents
  <2>1. /\ length[selected] \in Nat /\ length'[selected] \in Nat
        /\ length[selected] <= length'[selected]
    BY <1>3 DEF ViewInv, ViewTypeOK
  <2>2. Len(view.events) <= length[selected]
    BY <1>1, <2>1 DEF ViewInv, ShownIsPrefix
  <2> QED BY <1>1, <2>1, <2>2 DEF ViewInv, ShownIsPrefix, ResumesAtEnd
<1> QED BY <1>2, <1>3 DEF ViewInv, ViewTypeOK

LEMMA AppendEventKept ==
    ASSUME ViewInv, NEW i \in Incidents, AppendEvent(i)
    PROVE  ViewInv'
<1>1. length' \in [Incidents -> Nat] /\ \A j \in Incidents : length[j] <= length'[j]
  BY DEF ViewInv, ViewTypeOK, AppendEvent
<1>2. ViewTypeOK' /\ InFlightIsCurrent'
  BY <1>1 DEF ViewInv, ViewTypeOK, InFlightIsCurrent, AppendEvent
<1>3. ShownIsPrefix' /\ ResumesAtEnd'
  BY <1>1, ShownStays DEF AppendEvent
<1>4. MailSound'
  BY <1>1, SoundStays DEF ViewInv, MailSound, ViewTypeOK, AppendEvent
<1> QED BY <1>2, <1>3, <1>4 DEF ViewInv

\* No request has the ticket a selection takes.
LEMMA SelectKept ==
    ASSUME ViewInv, NEW i \in Incidents, Select(i)
    PROVE  ViewInv'
<1>1. \A m \in mail : m \in PageRequests /\ m.ticket \in Nat /\ m.ticket < ticket'
  BY DEF ViewInv, ViewTypeOK, Select, PageRequests
<1>2. << >> \in Seq(Incidents \X Nat) /\ Len(<< >>) = 0
  OBVIOUS
<1>3. view' = BlankTimeline(i) /\ view'.events = << >> /\ ~view'.hasMore
  BY DEF Select, BlankTimeline
<1>4. view' \in [events : Seq(Incidents \X Nat), loading : BOOLEAN,
                failed : BOOLEAN, hasMore : BOOLEAN, after : Nat]
  BY <1>2, <1>3 DEF BlankTimeline
<1>6. ticket \in Nat /\ ticket' = ticket + 1 /\ mail' = mail /\ length' = length
  BY DEF ViewInv, ViewTypeOK, Select
<1>7. ViewTypeOK'
  <2>1. \A m \in mail : m.ticket \in 1 .. ticket + 1
    BY <1>6 DEF ViewInv, ViewTypeOK
  <2>2. \A m, n \in mail : m.ticket = n.ticket => m = n
    BY DEF ViewInv, ViewTypeOK
  <2>3. ticket' \in Nat /\ i # None
    BY <1>6, NoneAssumption
  <2> QED BY <1>4, <1>6, <2>1, <2>2, <2>3
          DEF ViewInv, ViewTypeOK, Select
<1>8. InFlightIsCurrent'
  BY <1>1, <1>6 DEF InFlightIsCurrent, Select
<1>9. FirstEvents(i, 0) = << >>
  BY DEF FirstEvents
<1>10. ShownIsPrefix' /\ ResumesAtEnd'
  BY <1>2, <1>3, <1>9 DEF ShownIsPrefix, ResumesAtEnd, Select
<1>11. \A j \in Incidents : length[j] <= length'[j]
  BY <1>6 DEF ViewInv, ViewTypeOK
<1>12. MailSound'
  BY <1>1, <1>6, <1>11, SoundStays DEF ViewInv, MailSound, ViewTypeOK
<1> QED BY <1>7, <1>8, <1>10, <1>12 DEF ViewInv

\* A request made under a new ticket, from the end of what is shown if its
\* page is to be appended.
LEMMA SendKept ==
    ASSUME ViewInv, NEW i \in Incidents, NEW after \in Nat,
           NEW append \in BOOLEAN, NEW t \in Nat, t > ticket,
           Send(i, after, append, t),
           append => i = selected /\ after = Len(view.events),
           ~append => after = 0,
           UNCHANGED <<length, selected>>,
           fetchOwed' = FALSE \/ fetchOwed' = fetchOwed
    PROVE  ViewInv'
<1> DEFINE r == [ticket |-> t, id |-> i, after |-> after, append |-> append,
                 asOf |-> length[i], stage |-> "sent", page |-> NoPage]
<1>1. length[i] \in Nat /\ ticket \in Nat
  BY DEF ViewInv, ViewTypeOK
<1>2. NoPage \in Pages /\ ~NoPage.ok
  BY DEF NoPage, Pages
<1>3. r \in PageRequests
  BY <1>1, <1>2 DEF PageRequests
<1>4. /\ r.ticket = t /\ r.id = i /\ r.after = after /\ r.append = append
      /\ r.page = NoPage
  OBVIOUS
<1>5. mail' = mail \cup {r} /\ ticket' = t /\ inFlight' = TRUE
  BY DEF Send
<1>6. \A m \in mail : m \in PageRequests /\ m.ticket \in 1 .. ticket /\ m.ticket # t
  BY <1>1 DEF ViewInv, ViewTypeOK
<1> HIDE DEF r
<1>7. /\ view'.events = view.events /\ view'.hasMore = view.hasMore
      /\ view'.after = view.after
      /\ view' \in [events : Seq(Incidents \X Nat), loading : BOOLEAN,
                    failed : BOOLEAN, hasMore : BOOLEAN, after : Nat]
  BY DEF Send, ViewInv, ViewTypeOK
<1>8. \A m \in mail' : m.ticket \in 1 .. t
  BY <1>1, <1>4, <1>5, <1>6
<1>9. \A m, n \in mail' : m.ticket = n.ticket => m = n
  BY <1>4, <1>5, <1>6 DEF ViewInv, ViewTypeOK
<1>10. ViewTypeOK'
  <2>1. mail' \subseteq PageRequests
    BY <1>3, <1>5 DEF ViewInv, ViewTypeOK
  <2>2. fetchOwed \in BOOLEAN /\ (fetchOwed => selected # None)
    BY DEF ViewInv, ViewTypeOK
  <2>3. selected' = selected
    OBVIOUS
  <2>4. fetchOwed' \in BOOLEAN /\ (fetchOwed' => selected' # None)
    <3>1. CASE fetchOwed' = FALSE
      BY <3>1
    <3>2. CASE fetchOwed' = fetchOwed
      BY <2>2, <2>3, <3>2
    <3> QED BY <3>1, <3>2
  <2> QED BY <1>5, <1>7, <1>8, <1>9, <2>1, <2>4 DEF ViewInv, ViewTypeOK
<1>11. InFlightIsCurrent'
  BY <1>4, <1>5 DEF InFlightIsCurrent
<1>12. \A j \in Incidents : length[j] <= length'[j]
  BY DEF ViewInv, ViewTypeOK
<1>13. ShownIsPrefix' /\ ResumesAtEnd'
  BY <1>7, <1>12, ShownStays DEF ViewInv, ViewTypeOK
<1>14. after <= length[i]
  <2>1. CASE append
    <3>1. Len(view.events) \in Nat /\ selected # None
      BY <2>1, NoneAssumption DEF ViewInv, ViewTypeOK
    <3> QED BY <1>1, <2>1, <3>1 DEF ViewInv, ShownIsPrefix
  <2>2. CASE ~append
    BY <1>1, <2>2
  <2> QED BY <2>1, <2>2
<1>15. ASSUME NEW m, m = r PROVE Sound(m)'
  BY <1>2, <1>4, <1>7, <1>14, <1>15 DEF Sound
<1>16. ASSUME NEW m \in mail PROVE Sound(m)'
  <2>1. m \in PageRequests /\ m.ticket # ticket' /\ Sound(m)
    BY <1>5, <1>6 DEF ViewInv, MailSound
  <2>2. ViewTypeOK /\ length' \in [Incidents -> Nat]
    BY DEF ViewInv, ViewTypeOK
  <2> QED BY <1>12, <2>1, <2>2, SoundStays
<1>17. MailSound'
  BY <1>5, <1>15, <1>16 DEF MailSound
<1> QED BY <1>10, <1>11, <1>13, <1>17 DEF ViewInv
LEMMA FirstFetchKept ==
    ASSUME ViewInv, FirstFetch
    PROVE  ViewInv'
<1>1. /\ ticket \in Nat /\ ticket + 1 \in Nat /\ ticket + 1 > ticket
      /\ selected \in Incidents
  BY DEF ViewInv, ViewTypeOK, FirstFetch
<1>2. CASE inFlight /\ UNCHANGED <<view, ticket, inFlight, mail>>
  <2>1. ViewTypeOK' /\ InFlightIsCurrent' /\ ShownIsPrefix' /\ ResumesAtEnd'
    BY <1>2 DEF FirstFetch, ViewInv, ViewTypeOK, InFlightIsCurrent,
                ShownIsPrefix, ResumesAtEnd
  <2>2. MailSound'
    BY <1>2 DEF FirstFetch, ViewInv, MailSound, Sound
  <2> QED BY <2>1, <2>2 DEF ViewInv
<1>3. CASE Send(selected, 0, FALSE, ticket + 1)
  BY <1>1, <1>3, SendKept DEF FirstFetch
<1> QED BY <1>2, <1>3 DEF FirstFetch, FetchPage

LEMMA ReloadKept ==
    ASSUME ViewInv, NEW i \in Incidents, Reload(i)
    PROVE  ViewInv'
<1>1. ticket \in Nat /\ ticket + 2 \in Nat /\ ticket + 2 > ticket
  BY DEF ViewInv, ViewTypeOK
<1> QED BY <1>1, SendKept DEF Reload

\* A further page resumes at the end of what is shown.
LEMMA LoadMoreKept ==
    ASSUME ViewInv, LoadMore
    PROVE  ViewInv'
<1>1. /\ ticket \in Nat /\ ticket + 1 \in Nat /\ ticket + 1 > ticket
      /\ view.after \in Nat /\ selected \in Incidents
  BY DEF ViewInv, ViewTypeOK, LoadMore
<1>3. view.after = Len(view.events)
  BY DEF ViewInv, ResumesAtEnd, LoadMore
<1>4. CASE inFlight /\ UNCHANGED <<view, ticket, inFlight, mail>>
  <2>1. ViewTypeOK' /\ InFlightIsCurrent' /\ ShownIsPrefix' /\ ResumesAtEnd'
    BY <1>4 DEF LoadMore, ViewInv, ViewTypeOK, InFlightIsCurrent,
                ShownIsPrefix, ResumesAtEnd
  <2>2. MailSound'
    BY <1>4 DEF LoadMore, ViewInv, MailSound, Sound
  <2> QED BY <2>1, <2>2 DEF ViewInv
<1>5. CASE Send(selected, view.after, TRUE, ticket + 1)
  BY <1>1, <1>3, <1>5, SendKept DEF LoadMore
<1> QED BY <1>4, <1>5 DEF LoadMore, FetchPage

\* An answer moves on under the same ticket.
LEMMA ForwardKeeps ==
    ASSUME ViewInv, NEW m \in mail, NEW stage \in {"sent", "answered", "landed"},
           NEW page \in Pages, Forward(m, stage, page),
           UNCHANGED <<ticket, inFlight>>
    PROVE  /\ mail' \subseteq PageRequests
           /\ \A n \in mail' : n.ticket \in 1 .. ticket'
           /\ \A n, o \in mail' : n.ticket = o.ticket => n = o
           /\ InFlightIsCurrent'
           /\ \E r \in PageRequests :
                 /\ mail' = (mail \ {m}) \cup {r}
                 /\ r.ticket = m.ticket /\ r.id = m.id /\ r.after = m.after
                 /\ r.append = m.append /\ r.stage = stage /\ r.page = page
                 /\ r.asOf = m.asOf
<1>1. PICK r : r = [m EXCEPT !.stage = stage, !.page = page]
  OBVIOUS
<1>2. m \in PageRequests
  BY DEF ViewInv, ViewTypeOK
<1>3. /\ r \in PageRequests
      /\ r.ticket = m.ticket /\ r.id = m.id /\ r.after = m.after
      /\ r.append = m.append /\ r.stage = stage /\ r.page = page
      /\ r.asOf = m.asOf
  BY <1>1, <1>2 DEF PageRequests
<1>4. mail' = (mail \ {m}) \cup {r}
  BY <1>1 DEF Forward
<1>5. \A n, o \in mail : n.ticket = o.ticket => n = o
  BY DEF ViewInv, ViewTypeOK
<1>6. \A n, o \in mail' : n.ticket = o.ticket => n = o
  BY <1>3, <1>4, <1>5
<1>7. \A n \in mail' : n.ticket \in 1 .. ticket'
  BY <1>3, <1>4 DEF ViewInv, ViewTypeOK
<1>8. InFlightIsCurrent'
  BY <1>3, <1>4 DEF ViewInv, InFlightIsCurrent
<1> QED BY <1>3, <1>4, <1>6, <1>7, <1>8 DEF ViewInv, ViewTypeOK
LEMMA ServeKept ==
    ASSUME ViewInv, NEW m \in mail, Serve(m)
    PROVE  ViewInv'
<1>1. m \in PageRequests /\ m.id \in Incidents /\ m.after \in Nat /\ Sound(m)
  BY DEF ViewInv, ViewTypeOK, PageRequests, MailSound
<1>2. PICK page \in {Timeline(m.id, m.after), NoPage} :
          Forward(m, "answered", page)
  BY DEF Serve
<1>3. /\ page \in Pages
      /\ page.ok =>
            LET n == Len(page.events) IN
            /\ page.events = [k \in 1 .. n |-> Event(m.id, m.after + k)]
            /\ m.after + n <= length[m.id]
            /\ page.next # 0 =>
                  page.next = m.after + n /\ page.next < length[m.id]
  <2>1. CASE page = NoPage
    BY <2>1 DEF NoPage, Pages
  <2>2. CASE page = Timeline(m.id, m.after)
    BY <1>1, <2>2, PageIsSound DEF ViewInv, Sound
  <2> QED BY <2>1, <2>2
<1>4. PICK r \in PageRequests :
          /\ mail' = (mail \ {m}) \cup {r}
          /\ r.ticket = m.ticket /\ r.id = m.id /\ r.after = m.after
          /\ r.append = m.append /\ r.stage = "answered" /\ r.page = page
  BY <1>2, <1>3, ForwardKeeps DEF Serve
<1>5. ViewTypeOK' /\ InFlightIsCurrent'
  <2>1. /\ mail' \subseteq PageRequests
        /\ \A n \in mail' : n.ticket \in 1 .. ticket'
        /\ \A n, o \in mail' : n.ticket = o.ticket => n = o
        /\ InFlightIsCurrent'
    BY <1>2, <1>3, ForwardKeeps DEF Serve
  <2> QED BY <2>1 DEF Serve, ViewInv, ViewTypeOK
<1>6. ShownIsPrefix' /\ ResumesAtEnd'
  BY DEF Serve, ViewInv, ShownIsPrefix, ResumesAtEnd
<1>7. ASSUME NEW n \in mail PROVE Sound(n)'
  BY DEF Serve, ViewInv, MailSound, Sound
<1>8. m.ticket = ticket /\ m.append =>
          m.id = selected /\ m.after = Len(view.events)
  BY <1>1 DEF Serve, Sound
<1>9. m.after <= length[m.id] /\ (~m.append => m.after = 0)
  BY <1>1 DEF Sound
<1>10. UNCHANGED <<length, selected, view, ticket>>
  BY DEF Serve
<1>11. Sound(r)'
  BY <1>3, <1>4, <1>8, <1>9, <1>10 DEF Sound
<1>12. MailSound'
  BY <1>4, <1>7, <1>11 DEF MailSound
<1> QED BY <1>5, <1>6, <1>12 DEF ViewInv

LEMMA DropKept ==
    ASSUME ViewInv, NEW m \in mail, Drop(m)
    PROVE  ViewInv'
<1>1. ViewTypeOK' /\ InFlightIsCurrent'
  BY DEF Drop, ViewInv, ViewTypeOK, InFlightIsCurrent
<1>2. ShownIsPrefix' /\ ResumesAtEnd' /\ MailSound'
  BY DEF Drop, ViewInv, ShownIsPrefix, ResumesAtEnd, MailSound, Sound
<1> QED BY <1>1, <1>2 DEF ViewInv

LEMMA SettleKept ==
    ASSUME ViewInv, NEW m \in mail, Settle(m)
    PROVE  ViewInv'
<1>1. /\ view'.events = view.events /\ view'.hasMore = view.hasMore
      /\ view'.after = view.after
      /\ view' \in [events : Seq(Incidents \X Nat), loading : BOOLEAN,
                    failed : BOOLEAN, hasMore : BOOLEAN, after : Nat]
  BY DEF Settle, ViewInv, ViewTypeOK
<1>2. /\ mail' = mail \ {m} /\ ticket' = ticket /\ m.ticket = ticket
      /\ inFlight' = FALSE
  BY DEF Settle
<1>3. \A n, o \in mail : n.ticket = o.ticket => n = o
  BY DEF ViewInv, ViewTypeOK
<1>4. InFlightIsCurrent'
  BY <1>2, <1>3 DEF InFlightIsCurrent
<1>5. ViewTypeOK'
  BY <1>1, <1>2 DEF Settle, ViewInv, ViewTypeOK
<1>6. ShownIsPrefix' /\ ResumesAtEnd'
  BY <1>1 DEF Settle, ViewInv, ShownIsPrefix, ResumesAtEnd
<1>7. MailSound'
  BY <1>1, <1>2 DEF Settle, ViewInv, MailSound, Sound
<1> QED BY <1>4, <1>5, <1>6, <1>7 DEF ViewInv

\* The current answer continues what is shown, or replaces it.
LEMMA LandKept ==
    ASSUME ViewInv, NEW m \in mail, Land(m)
    PROVE  ViewInv'
<1>1. /\ m \in PageRequests /\ m.id \in Incidents /\ m.after \in Nat
      /\ m.page \in Pages /\ m.page.next \in Nat
      /\ m.page.events \in Seq(Incidents \X Nat) /\ Sound(m)
  BY DEF ViewInv, ViewTypeOK, PageRequests, Pages, MailSound
<1>2. PICK r \in PageRequests :
          /\ mail' = (mail \ {m}) \cup {r}
          /\ r.ticket = m.ticket /\ r.id = m.id /\ r.after = m.after
          /\ r.append = m.append /\ r.stage = "landed" /\ r.page = m.page
  BY <1>1, ForwardKeeps DEF Land
<1>3. /\ mail' \subseteq PageRequests
      /\ \A n \in mail' : n.ticket \in 1 .. ticket'
      /\ \A n, o \in mail' : n.ticket = o.ticket => n = o
      /\ InFlightIsCurrent'
  BY <1>1, ForwardKeeps DEF Land
<1>4. /\ UNCHANGED <<length, selected, ticket, inFlight, fetchOwed>>
      /\ m.ticket = ticket /\ m.stage = "answered"
  BY DEF Land
<1>5. \A n \in mail \ {m} : n.ticket # ticket
  BY <1>4 DEF ViewInv, ViewTypeOK
<1>6. Sound(r)'
  BY <1>1, <1>2, <1>4 DEF Sound
<1>7. ASSUME NEW n \in mail \ {m} PROVE Sound(n)'
  BY <1>4, <1>5 DEF ViewInv, MailSound, Sound
<1>8. MailSound'
  BY <1>2, <1>6, <1>7 DEF MailSound
<1> DEFINE Types == [events : Seq(Incidents \X Nat), loading : BOOLEAN,
                     failed : BOOLEAN, hasMore : BOOLEAN, after : Nat]
<1>9. view' \in Types /\ ShownIsPrefix' /\ ResumesAtEnd'
  <2>1. view \in Types /\ view.events \in Seq(Incidents \X Nat)
    BY DEF ViewInv, ViewTypeOK
  <2>2. CASE m.id # selected
    BY <1>4, <2>1, <2>2 DEF Land, ViewInv, ShownIsPrefix, ResumesAtEnd
  <2>3. CASE m.id = selected /\ ~m.page.ok
    <3>1. view' = [view EXCEPT !.failed = TRUE, !.hasMore = FALSE]
      BY <2>3 DEF Land, WithPage
    <3>2. view'.events = view.events /\ ~view'.hasMore /\ view' \in Types
      BY <2>1, <3>1
    <3> QED BY <1>4, <3>2 DEF ViewInv, ShownIsPrefix, ResumesAtEnd
  <2>4. CASE m.id = selected /\ m.page.ok
    <3> DEFINE evs == IF m.append THEN view.events \o m.page.events
                                  ELSE m.page.events
    <3>1. view' = [view EXCEPT !.events = evs, !.after = m.page.next,
                               !.hasMore = m.page.next # 0]
      BY <2>4 DEF Land, WithPage
    <3>2. /\ evs \in Seq(Incidents \X Nat)
          /\ Len(evs) = m.after + Len(m.page.events)
          /\ evs = FirstEvents(m.id, Len(evs))
      <4>1. m.page.events = [k \in 1 .. Len(m.page.events) |->
                                Event(m.id, m.after + k)]
        BY <1>1, <2>4 DEF Sound
      <4>2. CASE m.append
        <5>1. m.after = Len(view.events)
          BY <1>1, <1>4, <4>2 DEF Sound
        <5>2. view.events = FirstEvents(m.id, Len(view.events))
          BY <1>1, <2>4, NoneAssumption DEF ViewInv, ShownIsPrefix
        <5>3. m.page.events = [k \in 1 .. Len(m.page.events) |->
                                  Event(m.id, Len(view.events) + k)]
          BY <4>1, <5>1
        <5>4. evs = view.events \o m.page.events
          BY <4>2
        <5> HIDE DEF evs
        <5>5. /\ evs \in Seq(Incidents \X Nat)
              /\ Len(evs) = Len(view.events) + Len(m.page.events)
              /\ evs = FirstEvents(m.id,
                                   Len(view.events) + Len(m.page.events))
          BY <1>1, <2>1, <5>2, <5>3, <5>4, PrefixExtends
        <5> QED BY <5>1, <5>5
      <4>3. CASE ~m.append
        <5>1. m.after = 0 /\ Len(m.page.events) \in Nat
          BY <1>1, <4>3 DEF Sound
        <5>2. m.page.events = FirstEvents(m.id, Len(m.page.events))
          BY <1>1, <4>1, <5>1, FirstPageIsPrefix
        <5> QED BY <1>1, <4>3, <5>1, <5>2
      <4> QED BY <4>2, <4>3
    <3> HIDE DEF evs
    <3>3. /\ view'.events = evs /\ view'.after = m.page.next
          /\ view'.hasMore = (m.page.next # 0) /\ view' \in Types
      BY <1>1, <2>1, <3>1, <3>2
    <3>4. m.after + Len(m.page.events) <= length[m.id]
      BY <1>1, <2>4 DEF Sound
    <3>5. m.page.next # 0 =>
             m.page.next = m.after + Len(m.page.events)
             /\ m.page.next < length[m.id]
      BY <1>1, <2>4 DEF Sound
    <3>6. selected' = m.id /\ m.id # None /\ length' = length
      BY <1>1, <1>4, <2>4, NoneAssumption
    <3>7. ShownIsPrefix'
      BY <3>2, <3>3, <3>4, <3>6 DEF ShownIsPrefix
    <3>8. ResumesAtEnd'
      BY <3>2, <3>3, <3>5, <3>6 DEF ResumesAtEnd
    <3> QED BY <3>3, <3>7, <3>8
  <2> QED BY <2>2, <2>3, <2>4
<1>10. ViewTypeOK'
  BY <1>3, <1>4, <1>9 DEF ViewInv, ViewTypeOK
<1> QED BY <1>3, <1>8, <1>9, <1>10 DEF ViewInv

-----------------------------------------------------------------------------

LEMMA ViewStepKept == ViewInv /\ [ViewNext]_viewVars => ViewInv'
<1> SUFFICES ASSUME ViewInv, [ViewNext]_viewVars PROVE ViewInv'
  OBVIOUS
<1>1. ASSUME NEW i \in Incidents, AppendEvent(i) PROVE ViewInv'
  BY <1>1, AppendEventKept
<1>2. ASSUME NEW i \in Incidents, Select(i) PROVE ViewInv'
  BY <1>2, SelectKept
<1>3. CASE FirstFetch
  BY <1>3, FirstFetchKept
<1>4. CASE ReloadAfterComment
  BY <1>4, ReloadKept DEF ReloadAfterComment
<1>6. CASE Handle
  BY <1>6, ServeKept, DropKept, LandKept, SettleKept DEF Handle
<1>7. CASE LoadMore
  BY <1>7, LoadMoreKept
<1>8. CASE UNCHANGED viewVars
  <2>1. ViewTypeOK' /\ InFlightIsCurrent'
    BY <1>8 DEF viewVars, ViewInv, ViewTypeOK, InFlightIsCurrent
  <2>2. ShownIsPrefix' /\ ResumesAtEnd' /\ MailSound'
    BY <1>8 DEF viewVars, ViewInv, ShownIsPrefix, ResumesAtEnd, MailSound, Sound
  <2> QED BY <2>1, <2>2 DEF ViewInv
<1> QED BY <1>1, <1>2, <1>3, <1>4, <1>6, <1>7, <1>8 DEF ViewNext

\* Every step keeps what the answers cover.
LEMMA CoversKept ==
    ASSUME ViewInv, MailCovers, [ViewNext]_viewVars
    PROVE  MailCovers'
<1>1. ASSUME NEW m \in mail, NEW i \in Incidents,
             length' = [length EXCEPT ![i] = @ + 1]
      PROVE  Covers(m)'
  <2>1. m \in PageRequests /\ m.id \in Incidents /\ m.asOf \in Nat
    BY DEF ViewInv, ViewTypeOK, PageRequests
  <2>2. /\ length[m.id] \in Nat /\ length'[m.id] \in Nat
        /\ length[m.id] <= length'[m.id]
    BY <1>1, <2>1 DEF ViewInv, ViewTypeOK
  <2> QED BY <2>1, <2>2 DEF MailCovers, Covers
<1>2. ASSUME NEW i \in Incidents, NEW after \in Nat, NEW append \in BOOLEAN,
             NEW t, Send(i, after, append, t), length' = length
      PROVE  MailCovers'
  <2> DEFINE r == [ticket |-> t, id |-> i, after |-> after,
                   append |-> append, asOf |-> length[i], stage |-> "sent",
                   page |-> NoPage]
  <2>1. mail' = mail \cup {r}
    BY <1>2 DEF Send
  <2>2. length[i] \in Nat /\ ~NoPage.ok
    BY DEF ViewInv, ViewTypeOK, NoPage
  <2>3. ASSUME NEW m, m = r PROVE Covers(m)'
    BY <1>2, <2>2, <2>3 DEF Covers
  <2> HIDE DEF r
  <2>4. ASSUME NEW m \in mail PROVE Covers(m)'
    BY <1>2 DEF MailCovers, Covers
  <2> QED BY <2>1, <2>3, <2>4 DEF MailCovers
<1>3. ASSUME length' = length, mail' \subseteq mail
      PROVE  MailCovers'
  BY <1>3 DEF MailCovers, Covers
<1>4. ASSUME NEW m \in mail, NEW r,
             mail' = (mail \ {m}) \cup {r}, length' = length,
             r.id = m.id, r.after = m.after, r.page = m.page, r.asOf = m.asOf
      PROVE  MailCovers'
  BY <1>4 DEF MailCovers, Covers
<1>5. CASE \E i \in Incidents : AppendEvent(i)
  BY <1>1, <1>5 DEF AppendEvent, MailCovers
<1>6. CASE \E i \in Incidents : Select(i)
  BY <1>3, <1>6 DEF Select
<1>7. CASE FirstFetch
  <2>1. selected \in Incidents
    BY <1>7 DEF FirstFetch, ViewInv, ViewTypeOK
  <2> QED BY <1>2, <1>3, <1>7, <2>1 DEF FirstFetch, FetchPage
<1>8. CASE LoadMore
  <2>1. selected \in Incidents /\ view.after \in Nat
    BY <1>8 DEF LoadMore, ViewInv, ViewTypeOK
  <2> QED BY <1>2, <1>3, <1>8, <2>1 DEF LoadMore, FetchPage
<1>9. CASE ReloadAfterComment
  BY <1>2, <1>9 DEF ReloadAfterComment, Reload
<1>10. ASSUME NEW m \in mail, Serve(m) PROVE MailCovers'
  <2>1. /\ m \in PageRequests /\ m.id \in Incidents /\ m.after \in Nat
        /\ m.asOf \in Nat /\ m.after <= length[m.id] /\ Covers(m)
    BY DEF ViewInv, ViewTypeOK, PageRequests, MailSound, Sound, MailCovers
  <2>2. PICK page \in {Timeline(m.id, m.after), NoPage} :
            Forward(m, "answered", page)
    BY <1>10 DEF Serve
  <2>3. length' = length
    BY <1>10 DEF Serve
  <2>4. page.ok /\ page.next = 0 => m.after + Len(page.events) >= m.asOf
    <3>1. CASE page = NoPage
      BY <3>1 DEF NoPage
    <3>2. CASE page = Timeline(m.id, m.after)
      <4>1. length[m.id] \in Nat
        BY <2>1 DEF ViewInv, ViewTypeOK
      <4>2. page.next = 0 => m.after + Len(page.events) = length[m.id]
        BY <2>1, <3>2, LastPageCovers DEF ViewInv
      <4> QED BY <2>1, <4>1, <4>2 DEF Covers
    <3> QED BY <3>1, <3>2
  <2>5. PICK r : r = [m EXCEPT !.stage = "answered", !.page = page]
    OBVIOUS
  <2>6. /\ r.id = m.id /\ r.after = m.after /\ r.asOf = m.asOf
        /\ r.page = page
    BY <2>1, <2>5 DEF PageRequests
  <2>7. mail' = (mail \ {m}) \cup {r}
    BY <2>2, <2>5 DEF Forward
  <2>8. Covers(r)'
    BY <2>1, <2>3, <2>4, <2>6 DEF Covers
  <2>9. ASSUME NEW n \in mail PROVE Covers(n)'
    BY <2>3 DEF MailCovers, Covers
  <2> QED BY <2>7, <2>8, <2>9 DEF MailCovers
<1>11. ASSUME NEW m \in mail, Land(m) PROVE MailCovers'
  <2>1. m \in PageRequests /\ m.page \in Pages
    BY DEF ViewInv, ViewTypeOK, PageRequests
  <2>2. Forward(m, "landed", m.page) /\ length' = length
    BY <1>11 DEF Land
  <2>3. PICK r : r = [m EXCEPT !.stage = "landed", !.page = m.page]
    OBVIOUS
  <2>4. /\ r.id = m.id /\ r.after = m.after /\ r.asOf = m.asOf
        /\ r.page = m.page
    BY <2>1, <2>3 DEF PageRequests
  <2> QED BY <1>4, <2>2, <2>3, <2>4 DEF Forward
<1>12. ASSUME NEW m \in mail, Drop(m) \/ Settle(m) PROVE MailCovers'
  BY <1>3, <1>12 DEF Drop, Settle
<1>13. CASE UNCHANGED viewVars
  BY <1>3, <1>13 DEF viewVars
<1> QED BY <1>5, <1>6, <1>7, <1>8, <1>9, <1>10, <1>11, <1>12, <1>13
        DEF ViewNext, Handle

LEMMA ViewInvariant == ViewSpec => []ViewInv
BY InitView, ViewStepKept, PTL DEF ViewSpec

\* Every request's ticket is its own and no later than the last one taken.
THEOREM ViewTyped == ViewSpec => []ViewTypeOK
<1>1. ViewInv => ViewTypeOK
  BY DEF ViewInv
<1> QED BY <1>1, ViewInvariant, PTL

\* The in-flight mark of useIncidentTimeline is always its current request's.
THEOREM ViewInFlight == ViewSpec => []InFlightIsCurrent
<1>1. ViewInv => InFlightIsCurrent
  BY DEF ViewInv
<1> QED BY <1>1, ViewInvariant, PTL

\* The events useIncidentTimeline shows are the first of the selected
\* incident's timeline, whatever answers overtake each other.
THEOREM ViewShowsPrefix == ViewSpec => []ShownIsPrefix
<1>1. ViewInv => ShownIsPrefix
  BY DEF ViewInv
<1> QED BY <1>1, ViewInvariant, PTL

\* A further page is offered only if there is one, from where it starts.
THEOREM ViewResumes == ViewSpec => []ResumesAtEnd
<1>1. ViewInv => ResumesAtEnd
  BY DEF ViewInv
<1> QED BY <1>1, ViewInvariant, PTL

LEMMA ViewCovers == ViewSpec => []MailCovers
<1>1. ViewInit => MailCovers
  BY DEF ViewInit, MailCovers
<1>2. ViewInv /\ MailCovers /\ [ViewNext]_viewVars => MailCovers'
  BY CoversKept
<1> QED BY <1>1, <1>2, ViewInvariant, PTL DEF ViewSpec

\* The only step that takes the current ticket's answered request out of the
\* mail is the one that shows its page.
LEMMA LastPageStep ==
    ASSUME ViewInv, MailCovers, ViewNext, NEW m \in mail \ mail',
           m.stage = "answered", m.ticket = ticket, m.id = selected,
           m.page.ok, ~view'.hasMore
    PROVE  Len(view'.events) >= m.asOf
<1>1. /\ m \in PageRequests /\ m.id \in Incidents /\ m.after \in Nat
      /\ m.asOf \in Nat /\ m.page.next \in Nat
      /\ m.page.events \in Seq(Incidents \X Nat)
      /\ Sound(m) /\ Covers(m)
  BY DEF ViewInv, ViewTypeOK, PageRequests, Pages, MailSound, MailCovers
<1>2. Land(m)
  <2>1. \A i \in Incidents : ~AppendEvent(i) /\ ~Select(i)
    BY DEF AppendEvent, Select
  <2>2. ~FirstFetch /\ ~LoadMore /\ ~ReloadAfterComment
    BY DEF FirstFetch, LoadMore, ReloadAfterComment, Reload, FetchPage, Send
  <2>3. ASSUME NEW n \in mail, Serve(n) \/ Drop(n) \/ Land(n) \/ Settle(n)
        PROVE  n = m
    BY <2>3 DEF Serve, Drop, Land, Settle, Forward
  <2>4. ~Serve(m) /\ ~Drop(m) /\ ~Settle(m)
    BY DEF Serve, Drop, Settle
  <2> QED BY <2>1, <2>2, <2>3, <2>4 DEF ViewNext, Handle
<1> DEFINE evs == IF m.append THEN view.events \o m.page.events
                              ELSE m.page.events
<1>3. view' = [view EXCEPT !.events = evs, !.after = m.page.next,
                           !.hasMore = m.page.next # 0]
  BY <1>2 DEF Land, WithPage
<1>4. view \in [events : Seq(Incidents \X Nat), loading : BOOLEAN,
               failed : BOOLEAN, hasMore : BOOLEAN, after : Nat]
  BY DEF ViewInv, ViewTypeOK
<1>5. Len(evs) = m.after + Len(m.page.events)
  <2>1. CASE m.append
    <3>1. m.after = Len(view.events)
      BY <1>1, <2>1 DEF Sound
    <3> QED BY <1>1, <1>4, <2>1, <3>1
  <2>2. CASE ~m.append
    BY <1>1, <2>2 DEF Sound
  <2> QED BY <2>1, <2>2
<1> HIDE DEF evs
<1>6. view'.events = evs /\ view'.hasMore = (m.page.next # 0)
  BY <1>3, <1>4
<1> QED BY <1>1, <1>5, <1>6 DEF Covers

\* A page of useIncidentTimeline that offers no further one leaves nothing
\* out that was stored when it was asked for.
THEOREM ViewLastPage == ViewSpec => LastPageIsLast
<1> DEFINE A == \A m \in mail \ mail' :
                  /\ m.stage = "answered"
                  /\ m.ticket = ticket
                  /\ m.id = selected
                  /\ m.page.ok
                  /\ ~view'.hasMore
                  => Len(view'.events) >= m.asOf
<1>1. ViewInv /\ MailCovers /\ [ViewNext]_viewVars => [A]_viewVars
  BY LastPageStep
<1> QED BY <1>1, ViewInvariant, ViewCovers, PTL DEF ViewSpec, LastPageIsLast

-----------------------------------------------------------------------------
(* The shell. *)

Selections == Incidents \cup {None}

Actions ==
    [id : Selections, request : Nat, verb : Verbs \cup {"none"},
     expected : Nat, stage : {"none", "sent", "accepted", "conflict",
                              "rejected", "reload"},
     got : SUBSET {"row", "page"}, row : Nat, page : Pages, asOf : Nat]

WorkspaceTypeOK ==
    /\ version \in [Incidents -> Nat]
    /\ listed \in [Incidents -> Nat]
    /\ override \in [id : Selections, version : Nat]
    /\ timelineOverride \in [id : Selections, events : Seq(Incidents \X Nat)]
    /\ conflict \in [id : Selections, event : Nat, asOf : Nat]
    /\ actionRequest \in Nat
    /\ actionPending \in BOOLEAN
    /\ action \in Actions
    /\ displayed \in Selections
    /\ comment \in [id : Selections,
                    stage : {"none", "sent", "stored", "rejected"},
                    event : Nat]
    /\ optimistic \subseteq [of : Incidents, event : Nat]

\* Nothing has been selected since a command that is still awaited was sent.
ActionOwned ==
    \/ action = NoAction
    \/ /\ action.stage # "none"
       /\ action.id \in Incidents
       /\ action.request <= actionRequest
       /\ Awaited => action.id = selected
       /\ action.got # {} => action.stage = "reload"

CommentOwned == comment.stage # "none" => comment.id \in Incidents

\* The shell's pending mark is that of an awaited command: one that was
\* overtaken by a selection neither holds it nor takes another one's down.
PendingIsAwaited == actionPending <=> action # NoAction /\ Awaited

ShellInv == /\ WorkspaceTypeOK
            /\ ActionOwned
            /\ CommentOwned
            /\ PendingIsAwaited
            /\ ResultsBelong

LEMMA BlanksTyped ==
    /\ NoRow \in [id : Selections, version : Nat]
    /\ NoEvents \in [id : Selections, events : Seq(Incidents \X Nat)]
    /\ NoConflict \in [id : Selections, event : Nat, asOf : Nat]
    /\ NoPage \in Pages
    /\ NoAction \in Actions
<1>1. << >> \in Seq(Incidents \X Nat)
  OBVIOUS
<1>2. NoPage \in Pages
  BY <1>1 DEF NoPage, Pages
<1>3. NoAction \in Actions
  BY <1>2 DEF NoAction, Actions, Selections
<1>4. NoRow \in [id : Selections, version : Nat]
  BY DEF NoRow, Selections
<1>5. NoEvents \in [id : Selections, events : Seq(Incidents \X Nat)]
  BY <1>1 DEF NoEvents, Selections
<1>6. NoConflict \in [id : Selections, event : Nat, asOf : Nat]
  BY DEF NoConflict, Selections
<1> QED BY <1>2, <1>3, <1>4, <1>5, <1>6

LEMMA InitShell == WorkspaceInit => ShellInv
<1> SUFFICES ASSUME WorkspaceInit PROVE ShellInv
  OBVIOUS
<1>4. WorkspaceTypeOK
  BY BlanksTyped DEF WorkspaceInit, WorkspaceTypeOK, NoComment, Selections
<1>5. ActionOwned /\ CommentOwned /\ PendingIsAwaited
  BY DEF WorkspaceInit, ActionOwned, CommentOwned, PendingIsAwaited, NoComment
<1>6. ResultsBelong
  BY DEF WorkspaceInit, ResultsBelong, NoRow, NoEvents, NoConflict
<1> QED BY <1>4, <1>5, <1>6 DEF ShellInv

\* What neither selects, acts nor comments leaves the shell's marks alone.
LEMMA PassiveKept ==
    ASSUME ShellInv, UNCHANGED <<selected, panelVars, actionVars, displayed,
                                 comment>>,
           version' \in [Incidents -> Nat], listed' \in [Incidents -> Nat],
           optimistic' \subseteq optimistic
    PROVE  ShellInv'
<1>1. WorkspaceTypeOK'
  BY DEF ShellInv, WorkspaceTypeOK, panelVars, actionVars
<1>2. ActionOwned' /\ CommentOwned'
  BY DEF ShellInv, ActionOwned, CommentOwned, Awaited, actionVars
<1>3. PendingIsAwaited' /\ ResultsBelong'
  BY DEF ShellInv, PendingIsAwaited, ResultsBelong, Awaited, panelVars,
         actionVars
<1> QED BY <1>1, <1>2, <1>3 DEF ShellInv

LEMMA SelectIncidentKept ==
    ASSUME ViewInv, ShellInv, NEW i \in Incidents, SelectIncident(i)
    PROVE  ShellInv'
<1>2. /\ override' = NoRow /\ timelineOverride' = NoEvents
      /\ conflict' = NoConflict /\ actionPending' = FALSE
      /\ actionRequest' = actionRequest + 1 /\ actionRequest \in Nat
      /\ UNCHANGED <<version, listed, action, comment>>
  BY DEF SelectIncident, ShellInv, WorkspaceTypeOK
<1>3. optimistic' \subseteq optimistic
  BY DEF SelectIncident, Reconcile
<1>4. displayed' \in Selections
  BY DEF SelectIncident, ShellInv, WorkspaceTypeOK, Selections
<1>5. WorkspaceTypeOK'
  <2>1. /\ override' \in [id : Selections, version : Nat]
        /\ timelineOverride' \in [id : Selections,
                                  events : Seq(Incidents \X Nat)]
        /\ conflict' \in [id : Selections, event : Nat, asOf : Nat]
    BY <1>2, BlanksTyped
  <2>2. actionPending' \in BOOLEAN
    BY <1>2
  <2>3. actionRequest + 1 \in Nat
    BY <1>2
  <2>4. actionRequest' \in Nat
    BY <1>2, <2>3
  <2> QED BY <1>2, <1>3, <1>4, <2>1, <2>2, <2>4 DEF ShellInv, WorkspaceTypeOK
<1>6. action # NoAction => action.request \in Nat /\ action.request <= actionRequest
  BY DEF ShellInv, WorkspaceTypeOK, ActionOwned, Actions
<1>7. action' # NoAction => ~Awaited'
  BY <1>2, <1>6 DEF Awaited
<1>8. ActionOwned'
  BY <1>2, <1>6, <1>7 DEF ShellInv, ActionOwned, NoAction
<1>9. PendingIsAwaited' /\ CommentOwned'
  BY <1>2, <1>7 DEF ShellInv, PendingIsAwaited, CommentOwned
<1>10. ResultsBelong'
  BY <1>2 DEF ResultsBelong, NoRow, NoEvents, NoConflict
<1> QED BY <1>5, <1>8, <1>9, <1>10 DEF ShellInv

LEMMA StartActionKept ==
    ASSUME ViewInv, ShellInv, NEW verb \in Verbs, StartAction(verb)
    PROVE  ShellInv'
<1>1. selected \in Incidents
  BY DEF StartAction, ViewInv, ViewTypeOK
<1>2. ShownVersion \in Nat /\ actionRequest \in Nat
  BY <1>1 DEF ShownVersion, ShellInv, WorkspaceTypeOK
<1>3. action' = [NoAction EXCEPT !.id = selected, !.verb = verb,
                   !.request = actionRequest + 1, !.stage = "sent",
                   !.expected = ShownVersion]
  BY DEF StartAction
<1>5. NoPage \in Pages
  BY BlanksTyped
<1>4. action' = [id |-> selected, request |-> actionRequest + 1,
                 verb |-> verb, expected |-> ShownVersion, stage |-> "sent",
                 got |-> {}, row |-> 0, page |-> NoPage, asOf |-> 0]
  BY <1>3 DEF NoAction
<1>6. /\ action' = [id |-> selected, request |-> actionRequest + 1,
                    verb |-> verb, expected |-> ShownVersion, stage |-> "sent",
                    got |-> {}, row |-> 0, page |-> NoPage, asOf |-> 0]
      /\ action' \in Actions
  BY <1>1, <1>2, <1>4, <1>5 DEF Actions, Selections
<1>7. /\ action'.stage = "sent" /\ action'.id = selected /\ action'.got = {}
      /\ action'.request = actionRequest + 1
  BY <1>6
<1>8. action' # NoAction
  BY <1>7 DEF NoAction
<1>9. /\ actionRequest' = actionRequest + 1 /\ actionPending' = TRUE
      /\ conflict' = NoConflict
      /\ UNCHANGED <<selected, version, listed, override, timelineOverride,
                     displayed, comment, optimistic>>
  BY DEF StartAction, hookVars, threadVars
<1>10. WorkspaceTypeOK'
  BY <1>2, <1>6, <1>9, BlanksTyped DEF ShellInv, WorkspaceTypeOK
<1>11. ActionOwned'
  BY <1>1, <1>2, <1>7, <1>9 DEF ActionOwned
<1>12. PendingIsAwaited' /\ CommentOwned'
  BY <1>7, <1>8, <1>9 DEF ShellInv, PendingIsAwaited, CommentOwned, Awaited
<1>13. ResultsBelong'
  BY <1>9 DEF ShellInv, ResultsBelong, NoConflict
<1> QED BY <1>10, <1>11, <1>12, <1>13 DEF ShellInv

\* A command that moves on without ending keeps its number and its incident.
LEMMA ActionMovesOn ==
    ASSUME ShellInv, action.stage # "none", action' \in Actions,
           action'.id = action.id, action'.request = action.request,
           action'.stage # "none", action'.got # {} => action'.stage = "reload",
           version' \in [Incidents -> Nat],
           UNCHANGED <<selected, listed, panelVars, actionRequest,
                       actionPending, displayed, threadVars>>
    PROVE  ShellInv'
<1>1. action # NoAction /\ action' # NoAction
  BY DEF NoAction
<1>2. Awaited' <=> Awaited
  BY DEF Awaited
<1>3. WorkspaceTypeOK'
  BY DEF ShellInv, WorkspaceTypeOK, panelVars, threadVars
<1>4. ActionOwned'
  BY <1>1, <1>2 DEF ShellInv, ActionOwned
<1>5. PendingIsAwaited' /\ CommentOwned' /\ ResultsBelong'
  BY <1>1, <1>2 DEF ShellInv, PendingIsAwaited, CommentOwned, ResultsBelong,
                    panelVars, threadVars
<1> QED BY <1>3, <1>4, <1>5 DEF ShellInv

LEMMA ServeActionKept ==
    ASSUME ViewInv, ShellInv, ServeAction
    PROVE  ShellInv'
<1>1. action.stage = "sent" /\ action # NoAction /\ action \in Actions
  BY DEF ServeAction, NoAction, ShellInv, WorkspaceTypeOK
<1>2. action.id \in Incidents /\ action.got = {}
  BY <1>1 DEF ShellInv, ActionOwned
<1>3. /\ version[action.id] \in Nat /\ length[action.id] \in Nat
      /\ action.expected \in Nat
  BY <1>1, <1>2 DEF ViewInv, ViewTypeOK, ShellInv, WorkspaceTypeOK, Actions
<1>4. version' \in [Incidents -> Nat]
  BY <1>2, <1>3 DEF ServeAction, ShellInv, WorkspaceTypeOK
<1>5. /\ action' \in Actions /\ action'.id = action.id
      /\ action'.request = action.request /\ action'.stage # "none"
      /\ action'.got = {}
  <2>1. ASSUME NEW n \in Nat,
               action' = [action EXCEPT !.stage = "accepted", !.row = n]
        PROVE  <1>5!:
    BY <1>1, <1>2, <2>1 DEF Actions
  <2>2. ASSUME NEW n \in Nat,
               action' = [action EXCEPT !.stage = "conflict", !.asOf = n]
        PROVE  <1>5!:
    BY <1>1, <1>2, <2>2 DEF Actions
  <2>3. CASE action' = [action EXCEPT !.stage = "rejected"]
    BY <1>1, <1>2, <2>3 DEF Actions
  <2>4. action.expected + 1 \in Nat
    BY <1>3
  <2> QED BY <1>3, <2>1, <2>2, <2>3, <2>4 DEF ServeAction
<1>6. UNCHANGED <<selected, listed, panelVars, actionRequest, actionPending,
                  displayed, threadVars>>
  BY DEF ServeAction, hookVars
<1> QED BY <1>1, <1>4, <1>5, <1>6, ActionMovesOn

LEMMA StartReloadKept ==
    ASSUME ShellInv, StartReload
    PROVE  ShellInv'
<1>1. action.stage = "conflict" /\ action # NoAction /\ action \in Actions
  BY DEF StartReload, NoAction, ShellInv, WorkspaceTypeOK
<1>2. /\ action' \in Actions /\ action'.id = action.id
      /\ action'.request = action.request /\ action'.stage = "reload"
  BY <1>1 DEF StartReload, Actions
<1>3. /\ UNCHANGED <<selected, listed, panelVars, actionRequest,
                     actionPending, displayed, threadVars>>
      /\ version' \in [Incidents -> Nat]
  BY DEF StartReload, hookVars, ShellInv, WorkspaceTypeOK
<1> QED BY <1>1, <1>2, <1>3, ActionMovesOn

LEMMA ServeReloadKept ==
    ASSUME ViewInv, ShellInv, ServeReload
    PROVE  ShellInv'
<1>1. action.stage = "reload" /\ action # NoAction /\ action \in Actions
  BY DEF ServeReload, NoAction, ShellInv, WorkspaceTypeOK
<1>2. action.id \in Incidents
  BY <1>1 DEF ShellInv, ActionOwned
<1>3. version[action.id] \in Nat /\ length[action.id] \in Nat
  BY <1>2 DEF ViewInv, ViewTypeOK, ShellInv, WorkspaceTypeOK
<1>4. ViewTypeOK /\ 0 \in Nat /\ 0 <= length[action.id]
  BY <1>3 DEF ViewInv
<1>5. NoPage \in Pages /\ Timeline(action.id, 0) \in Pages
  BY <1>2, <1>4, PageIsSound, BlanksTyped
<1>6. /\ action' \in Actions /\ action'.id = action.id
      /\ action'.request = action.request /\ action'.stage # "none"
      /\ action'.got # {} => action'.stage = "reload"
  <2>1. ASSUME NEW v \in Nat,
               action' = [action EXCEPT !.got = @ \cup {"row"}, !.row = v]
        PROVE  <1>6!:
    BY <1>1, <2>1 DEF Actions
  <2>2. ASSUME NEW page \in Pages,
               action' = [action EXCEPT !.got = @ \cup {"page"}, !.page = page]
        PROVE  <1>6!:
    BY <1>1, <2>2 DEF Actions
  <2>3. CASE action' = [action EXCEPT !.stage = "rejected", !.got = {}]
    BY <1>1, <2>3 DEF Actions
  <2> QED BY <1>3, <1>5, <2>1, <2>2, <2>3 DEF ServeReload
<1>7. /\ UNCHANGED <<selected, listed, panelVars, actionRequest,
                     actionPending, displayed, threadVars>>
      /\ version' \in [Incidents -> Nat]
  BY DEF ServeReload, hookVars, ShellInv, WorkspaceTypeOK
<1> QED BY <1>1, <1>6, <1>7, ActionMovesOn

\* A command that ends takes the pending mark down if it was its own, and
\* what it shows is of the selection if it was awaited.
LEMMA ActionReturns ==
    ASSUME ShellInv, action # NoAction, action' = NoAction,
           actionPending' = IF Awaited THEN FALSE ELSE actionPending,
           override' \in [id : Selections, version : Nat],
           timelineOverride' \in [id : Selections,
                                  events : Seq(Incidents \X Nat)],
           conflict' \in [id : Selections, event : Nat, asOf : Nat],
           displayed' \in Selections, optimistic' \subseteq optimistic,
           override' = override \/ (Awaited /\ override'.id = action.id),
           timelineOverride' = timelineOverride
              \/ (Awaited /\ timelineOverride'.id = action.id),
           conflict' = conflict \/ (Awaited /\ conflict'.id = action.id),
           UNCHANGED <<selected, version, listed, actionRequest, comment>>
    PROVE  ShellInv'
<1>2. NoAction \in Actions
  BY BlanksTyped
<1>3. actionPending' = FALSE
  BY DEF ShellInv, WorkspaceTypeOK, PendingIsAwaited
<1>4. WorkspaceTypeOK'
  BY <1>2, <1>3 DEF ShellInv, WorkspaceTypeOK
<1>5. Awaited => action.id = selected
  BY DEF ShellInv, ActionOwned
<1>6. ResultsBelong'
  BY <1>5 DEF ShellInv, ResultsBelong
<1>7. ActionOwned' /\ PendingIsAwaited' /\ CommentOwned'
  BY <1>3 DEF ShellInv, ActionOwned, PendingIsAwaited, CommentOwned
<1> QED BY <1>4, <1>6, <1>7 DEF ShellInv

LEMMA ReturnAcceptedKept ==
    ASSUME ShellInv, ReturnAccepted
    PROVE  ShellInv'
<1>1. action.stage = "accepted" /\ action # NoAction
  BY DEF ReturnAccepted, NoAction
<1>2. action.id \in Incidents /\ action.row \in Nat
  BY <1>1 DEF ShellInv, ActionOwned, WorkspaceTypeOK, Actions
<1>3. /\ action' = NoAction
      /\ actionPending' = IF Awaited THEN FALSE ELSE actionPending
      /\ UNCHANGED <<selected, version, listed, actionRequest, comment,
                     timelineOverride, conflict, optimistic>>
  BY DEF ReturnAccepted, hookVars, threadVars
<1>4. /\ override' \in [id : Selections, version : Nat]
      /\ override' = override \/ (Awaited /\ override'.id = action.id)
      /\ displayed' \in Selections
  BY <1>2 DEF ReturnAccepted, ShellInv, WorkspaceTypeOK, Selections
<1>5. /\ timelineOverride \in [id : Selections, events : Seq(Incidents \X Nat)]
      /\ conflict \in [id : Selections, event : Nat, asOf : Nat]
  BY DEF ShellInv, WorkspaceTypeOK
<1> QED BY <1>1, <1>3, <1>4, <1>5, ActionReturns

LEMMA ReturnRejectedKept ==
    ASSUME ShellInv, ReturnRejected
    PROVE  ShellInv'
<1>1. action # NoAction
  BY DEF ReturnRejected, NoAction
<1>2. /\ action' = NoAction
      /\ actionPending' = IF Awaited THEN FALSE ELSE actionPending
      /\ UNCHANGED <<selected, version, listed, actionRequest, comment,
                     override, timelineOverride, conflict, displayed,
                     optimistic>>
  BY DEF ReturnRejected, hookVars, threadVars, panelVars
<1>3. /\ override \in [id : Selections, version : Nat]
      /\ timelineOverride \in [id : Selections, events : Seq(Incidents \X Nat)]
      /\ conflict \in [id : Selections, event : Nat, asOf : Nat]
      /\ displayed \in Selections
  BY DEF ShellInv, WorkspaceTypeOK
<1> QED BY <1>1, <1>2, <1>3, ActionReturns

LEMMA ReturnReloadKept ==
    ASSUME ShellInv, ReturnReload
    PROVE  ShellInv'
<1>1. action.got # {} /\ action # NoAction
  BY DEF ReturnReload, NoAction
<1>2. /\ action.id \in Incidents /\ action.row \in Nat /\ action.asOf \in Nat
      /\ action.page \in Pages
  BY <1>1 DEF ShellInv, ActionOwned, WorkspaceTypeOK, Actions
<1>3. /\ action.page.events \in Seq(Incidents \X Nat)
      /\ NewestOf(action.page) \in Nat
  BY <1>2 DEF Pages, NewestOf
<1>4. /\ action' = NoAction
      /\ actionPending' = IF Awaited THEN FALSE ELSE actionPending
      /\ UNCHANGED <<selected, version, listed, actionRequest, comment>>
  BY DEF ReturnReload, hookVars
<1>5. /\ override' \in [id : Selections, version : Nat]
      /\ override' = override \/ (Awaited /\ override'.id = action.id)
      /\ displayed' \in Selections
  BY <1>2 DEF ReturnReload, ShellInv, WorkspaceTypeOK, Selections
<1>6. optimistic' \subseteq optimistic
  BY DEF ReturnReload, Reconcile
<1>7. /\ timelineOverride' \in [id : Selections,
                                events : Seq(Incidents \X Nat)]
      /\ timelineOverride' = timelineOverride
           \/ (Awaited /\ timelineOverride'.id = action.id)
  BY <1>2, <1>3 DEF ReturnReload, ShellInv, WorkspaceTypeOK, Selections
<1>8. /\ conflict' \in [id : Selections, event : Nat, asOf : Nat]
      /\ conflict' = conflict \/ (Awaited /\ conflict'.id = action.id)
  BY <1>2, <1>3 DEF ReturnReload, ShellInv, WorkspaceTypeOK, Selections
<1> QED BY <1>1, <1>4, <1>5, <1>6, <1>7, <1>8, ActionReturns

\* Comments touch the thread only.
LEMMA CommentKept ==
    ASSUME ViewInv, ShellInv,
           StartComment \/ ServeComment \/ ReturnStored \/ ReturnUnstored
    PROVE  ShellInv'
<1>1. UNCHANGED <<selected, version, listed, panelVars, actionVars, displayed>>
  BY DEF StartComment, ServeComment, ReturnStored, ReturnUnstored, hookVars,
         Reload
<1> DEFINE Comments == [id : Selections,
                        stage : {"none", "sent", "stored", "rejected"},
                        event : Nat]
<1>2. NoComment \in Comments /\ NoComment.stage = "none"
  BY DEF NoComment, Selections
<1>3. comment \in Comments /\ optimistic \subseteq [of : Incidents, event : Nat]
  BY DEF ShellInv, WorkspaceTypeOK
<1>4. comment.stage # "none" => comment.id \in Incidents
  BY DEF ShellInv, CommentOwned
<1>5. /\ comment' \in Comments
      /\ comment'.stage # "none" => comment'.id \in Incidents
      /\ optimistic' \subseteq [of : Incidents, event : Nat]
  <2>1. CASE StartComment
    <3>1. selected \in Incidents
      BY <2>1 DEF StartComment, ViewInv, ViewTypeOK
    <3>2. [of |-> selected, event |-> 0] \in [of : Incidents, event : Nat]
      BY <3>1
    <3>3. comment' = [id |-> selected, stage |-> "sent", event |-> 0]
      BY <2>1 DEF StartComment
    <3>4. optimistic' \subseteq [of : Incidents, event : Nat]
      BY <1>3, <2>1, <3>2 DEF StartComment
    <3> QED BY <3>1, <3>3, <3>4 DEF Selections
  <2>2. CASE ServeComment
    <3>1. comment.stage = "sent" /\ comment.id \in Incidents
      BY <1>4, <2>2 DEF ServeComment
    <3>2. length[comment.id] + 1 \in Nat
      BY <3>1 DEF ViewInv, ViewTypeOK
    <3>3. comment' = [comment EXCEPT !.stage = "stored",
                                     !.event = length[comment.id] + 1]
          \/ comment' = [comment EXCEPT !.stage = "rejected"]
      BY <2>2 DEF ServeComment
    <3>4. comment' \in Comments /\ comment'.id = comment.id
      BY <1>3, <3>2, <3>3
    <3> QED BY <1>3, <2>2, <3>1, <3>4 DEF ServeComment
  <2>3. CASE ReturnStored
    <3>1. comment.id \in Incidents /\ comment.event \in Nat
      BY <1>3, <1>4, <2>3 DEF ReturnStored
    <3>2. [of |-> comment.id, event |-> comment.event]
             \in [of : Incidents, event : Nat]
      BY <3>1
    <3> QED BY <1>2, <1>3, <2>3, <3>2 DEF ReturnStored
  <2>4. CASE ReturnUnstored
    BY <1>2, <1>3, <2>4 DEF ReturnUnstored
  <2> QED BY <2>1, <2>2, <2>3, <2>4
<1>6. WorkspaceTypeOK'
  BY <1>1, <1>5 DEF ShellInv, WorkspaceTypeOK, panelVars, actionVars
<1>7. ActionOwned' /\ CommentOwned'
  BY <1>1, <1>5 DEF ShellInv, ActionOwned, CommentOwned, Awaited, actionVars
<1>8. PendingIsAwaited' /\ ResultsBelong'
  BY <1>1 DEF ShellInv, PendingIsAwaited, ResultsBelong, Awaited, panelVars,
              actionVars
<1> QED BY <1>6, <1>7, <1>8 DEF ShellInv

-----------------------------------------------------------------------------
(* The hook inside the shell, and both together. *)

LEMMA HookKept ==
    ASSUME ViewInv, ShellInv, [WorkspaceNext]_workspaceVars
    PROVE  ViewInv'
<1>1. ASSUME UNCHANGED <<length, hookVars>> PROVE ViewInv'
  <2>1. UNCHANGED viewVars
    BY <1>1 DEF hookVars, viewVars
  <2> QED BY <2>1, ViewStepKept
<1>2. ASSUME NEW i \in Incidents, OtherResponder(i) PROVE ViewInv'
  <2>1. AppendEvent(i)
    BY <1>2 DEF OtherResponder, AppendEvent, hookVars
  <2> QED BY <2>1, AppendEventKept
<1>3. ASSUME NEW i \in Incidents, SelectIncident(i) PROVE ViewInv'
  BY <1>1, <1>3, SelectKept DEF SelectIncident
<1>4. CASE FetchFirst
  BY <1>4, FirstFetchKept DEF FetchFirst
<1>5. CASE HandleTimeline
  BY <1>5, ServeKept, DropKept, LandKept, SettleKept DEF HandleTimeline
<1>6. CASE ServeAction
  <2>1. CASE UNCHANGED length
    BY <1>1, <1>6, <2>1 DEF ServeAction
  <2>2. CASE length[action.id] < MaxEvents
             /\ length' = [length EXCEPT ![action.id] = @ + 1]
    <3>1. action.id \in Incidents
      BY <1>6 DEF ServeAction, ShellInv, ActionOwned, NoAction
    <3>2. AppendEvent(action.id)
      BY <1>6, <2>2 DEF ServeAction, AppendEvent, hookVars
    <3> QED BY <3>1, <3>2, AppendEventKept
  <2> QED BY <1>6, <2>1, <2>2 DEF ServeAction
<1>7. CASE ServeComment
  <2>1. CASE UNCHANGED length
    BY <1>1, <1>7, <2>1 DEF ServeComment
  <2>2. CASE length[comment.id] < MaxEvents
             /\ length' = [length EXCEPT ![comment.id] = @ + 1]
    <3>1. comment.id \in Incidents
      BY <1>7 DEF ServeComment, ShellInv, CommentOwned
    <3>2. AppendEvent(comment.id)
      BY <1>7, <2>2 DEF ServeComment, AppendEvent, hookVars
    <3> QED BY <3>1, <3>2, AppendEventKept
  <2> QED BY <1>7, <2>1, <2>2 DEF ServeComment
<1>8. CASE ReturnStored
  <2>1. comment.id \in Incidents
    BY <1>8 DEF ReturnStored, ShellInv, CommentOwned
  <2> QED BY <1>8, <2>1, ReloadKept DEF ReturnStored
<1>9. CASE LoadQueue \/ StartComment \/ ReturnUnstored
           \/ (\E verb \in Verbs : StartAction(verb))
  BY <1>1, <1>9 DEF LoadQueue, StartComment, ReturnUnstored, StartAction
<1>10. CASE ReturnAccepted \/ ReturnRejected \/ StartReload \/ ServeReload
            \/ ReturnReload
  BY <1>1, <1>10 DEF ReturnAccepted, ReturnRejected, StartReload, ServeReload,
                     ReturnReload
<1>11. CASE UNCHANGED workspaceVars
  BY <1>1, <1>11 DEF workspaceVars, hookVars
<1> QED BY <1>2, <1>3, <1>4, <1>5, <1>6, <1>7, <1>8, <1>9, <1>10, <1>11
        DEF WorkspaceNext, Respond

LEMMA ShellKept ==
    ASSUME ViewInv, ShellInv, [WorkspaceNext]_workspaceVars
    PROVE  ShellInv'
<1>1. version \in [Incidents -> Nat] /\ listed \in [Incidents -> Nat]
  BY DEF ShellInv, WorkspaceTypeOK
<1>2. ASSUME NEW i \in Incidents, OtherResponder(i) PROVE ShellInv'
  <2>1. version' \in [Incidents -> Nat]
    BY <1>1, <1>2 DEF OtherResponder
  <2>2. UNCHANGED <<selected, panelVars, actionVars, displayed, comment,
                    listed, optimistic>>
    BY <1>2 DEF OtherResponder, hookVars, threadVars
  <2> QED BY <1>1, <2>1, <2>2, PassiveKept
<1>3. ASSUME NEW i \in Incidents, SelectIncident(i) PROVE ShellInv'
  BY <1>3, SelectIncidentKept
<1>4. CASE LoadQueue
  <2>1. listed' \in [Incidents -> Nat] /\ version' \in [Incidents -> Nat]
    BY <1>1, <1>4 DEF LoadQueue
  <2>2. UNCHANGED <<selected, panelVars, actionVars, displayed, comment,
                    optimistic>>
    BY <1>4 DEF LoadQueue, hookVars, threadVars
  <2> QED BY <2>1, <2>2, PassiveKept
<1>5. CASE FetchFirst \/ HandleTimeline
  <2>1. UNCHANGED <<selected, panelVars, actionVars, displayed, comment,
                    version, listed>>
    BY <1>5 DEF FetchFirst, FirstFetch, HandleTimeline, Serve, Drop, Land,
                Settle, threadVars
  <2>2. optimistic' \subseteq optimistic
    BY <1>5 DEF FetchFirst, HandleTimeline, Reconcile, threadVars
  <2> QED BY <1>1, <2>1, <2>2, PassiveKept
<1>6. CASE ServeAction \/ ReturnAccepted \/ ReturnRejected \/ StartReload
           \/ ServeReload \/ ReturnReload
  BY <1>6, ServeActionKept, ReturnAcceptedKept, ReturnRejectedKept,
     StartReloadKept, ServeReloadKept, ReturnReloadKept
<1>7. CASE StartComment \/ ServeComment \/ ReturnStored \/ ReturnUnstored
  BY <1>7, CommentKept
<1>8. ASSUME NEW verb \in Verbs, StartAction(verb) PROVE ShellInv'
  BY <1>8, StartActionKept
<1>9. CASE UNCHANGED workspaceVars
  <2>1. UNCHANGED <<selected, panelVars, actionVars, displayed, comment,
                    version, listed, optimistic>>
    BY <1>9 DEF workspaceVars, panelVars, actionVars
  <2> QED BY <1>1, <2>1, PassiveKept
<1> QED BY <1>2, <1>3, <1>4, <1>5, <1>6, <1>7, <1>8, <1>9
        DEF WorkspaceNext, Respond

LEMMA WorkspaceInvariant == WorkspaceSpec => [](ViewInv /\ ShellInv)
<1>1. WorkspaceInit => ViewInv /\ ShellInv
  BY InitView, InitShell DEF WorkspaceInit
<1>2. ViewInv /\ ShellInv /\ [WorkspaceNext]_workspaceVars
         => (ViewInv /\ ShellInv)'
  BY HookKept, ShellKept
<1> QED BY <1>1, <1>2, PTL DEF WorkspaceSpec

\* The row, the events and the conflict notice the shell lays over a
\* selection are that incident's, whatever returns late.
THEOREM ResultsAreTheSelections == WorkspaceSpec => []ResultsBelong
<1>1. ShellInv => ResultsBelong
  BY DEF ShellInv
<1> QED BY <1>1, WorkspaceInvariant, PTL

\* Inside the shell too, where a comment reloads the incident it was sent
\* from, the hook shows a beginning of the selected timeline.
THEOREM WorkspaceShowsPrefix == WorkspaceSpec => []ShownIsPrefix
<1>1. ViewInv => ShownIsPrefix
  BY DEF ViewInv
<1> QED BY <1>1, WorkspaceInvariant, PTL

\* The panel is disabled by a command that is under way and awaited, by
\* nothing else, so that none that has ended can leave it so.
THEOREM PanelFollowsAction == WorkspaceSpec => []PendingIsAwaited
<1>1. ShellInv => PendingIsAwaited
  BY DEF ShellInv
<1> QED BY <1>1, WorkspaceInvariant, PTL
=============================================================================
