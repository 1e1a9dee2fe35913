--------------------------- MODULE Authorization ---------------------------
(***************************************************************************)
(* Who may run which command: scopes, memberships, roles, the descriptors  *)
(* of the commands and the check in front of every one of them.            *)
(***************************************************************************)
EXTENDS FiniteSets

CONSTANT None

Levels == {"organization", "team", "workspace", "environment"}

\* A scope names at most one thing per level, and any number of resources.
Unbounded == [l \in Levels \cup {"resources"} |->
                 IF l = "resources" THEN {} ELSE None]

Bounded(scope) ==
    \/ \E l \in Levels : scope[l] # None
    \/ scope["resources"] # {}

\* candidate is equal to or narrower than scope.
Contains(scope, candidate) ==
    /\ \A l \in Levels : scope[l] # None => candidate[l] = scope[l]
    /\ scope["resources"] # {} =>
          /\ candidate["resources"] # {}
          /\ candidate["resources"] \subseteq scope["resources"]

WorkspaceScope(organization, team, workspace) ==
    [Unbounded EXCEPT !["organization"] = organization, !["team"] = team,
                      !["workspace"] = workspace]

-----------------------------------------------------------------------------

Permission == {"Read", "Investigate", "ManageIncident", "RecommendAction",
               "ExecuteAction", "ManagePolicy", "ManageMembership", "AuditRead"}
MembershipRole == {"Owner", "Administrator", "Operator", "Viewer", "Auditor"}
MembershipStatus == {"Active", "Suspended", "Revoked"}

PermissionsOf(role) ==
    CASE role \in {"Owner", "Administrator"} -> Permission
      [] role = "Operator" ->
             Permission \ {"AuditRead", "ManagePolicy", "ManageMembership"}
      [] role = "Viewer" -> {"Read", "Investigate"}
      [] role = "Auditor" -> {"Read", "AuditRead"}

WorkspaceOwner(principal, workspace) ==
    [principal |-> principal, role |-> "Owner", status |-> "Active",
     scope |-> [Unbounded EXCEPT !["workspace"] = workspace]]

Grants(membership, scope) ==
    /\ membership.status = "Active"
    /\ Contains(membership.scope, scope)

-----------------------------------------------------------------------------

Projections == {"operations", "topology", "correlation", "change"}
IncidentReads == {"get", "list", "timeline"}
IncidentWrites == {"create", "transition", "set_severity", "set_disposition",
                   "assign_role", "add_comment"}
AiReads == {"providers", "provider_order", "probe"}
AiActs == {"configure_provider", "set_provider_order"}
AiRuns == {"complete", "cancel"}
ConnectorActs == {"add", "enable", "disable", "remove", "test"}
KubernetesReads == {"inventory", "pod_logs", "pod_events",
                    "resource_manifest"}
CloudReads == {"access_check", "inventory"}
ObservabilityReads ==
    {<<"prometheus", "query">>, <<"prometheus", "query_range">>,
     <<"loki", "query_range">>, <<"tempo", "trace">>, <<"tempo", "health">>,
     <<"alertmanager", "alerts">>, <<"grafana", "health">>,
     <<"grafana", "link">>}

Named(resource, verbs) == {<<resource, verb>> : verb \in verbs}

\* The commands by the capability their descriptor requires.
CommandsOf ==
    [WorkspaceRead |-> Named("system", {"health", "context"})
                           \cup {<<p, "snapshot">> : p \in Projections},
     EnvironmentRead |-> Named("cloud", CloudReads)
                             \cup {<<"kubernetes", "inventory">>},
     ResourceRead |-> {<<p, "evidence">> : p \in Projections}
                          \cup Named("kubernetes",
                                     KubernetesReads \ {"inventory"})
                          \cup ObservabilityReads,
     IncidentRead |-> Named("incident", IncidentReads),
     IncidentWrite |-> Named("incident", IncidentWrites),
     ConnectorRead |-> Named("connector", {"list", "diagnose"})
                           \cup Named("ai", AiReads),
     ConnectorAct |-> Named("connector", ConnectorActs)
                          \cup Named("ai", AiActs),
     AiInvoke |-> Named("ai", AiRuns)]

Capability == DOMAIN CommandsOf
Commands == UNION {CommandsOf[c] : c \in Capability}

RequiredPermission(command) ==
    CASE command \in CommandsOf["IncidentWrite"] -> "ManageIncident"
      [] command \in CommandsOf["AiInvoke"] -> "Investigate"
      [] OTHER -> "Read"

\* These commands ask for an active membership, and not whose or which.
MembershipOnly ==
    Named("system", {"health", "context"}) \cup Named("kubernetes", KubernetesReads)
        \cup Named("connector", ConnectorActs \cup {"list", "diagnose"})

Envelope(command, capability, scope) ==
    [command |-> command, capability |-> capability, scope |-> scope]

\* The envelope claims the command, its capability and no resource; the
\* membership is the principal's, grants the workspace of the session, and
\* its role has the permission.
Authorized(session, command, envelope) ==
    /\ envelope.command = command
    /\ command \in CommandsOf[envelope.capability]
    /\ ~Bounded(envelope.scope)
    /\ Contains(Unbounded, envelope.scope)
    /\ session.membership.status = "Active"
    /\ command \notin MembershipOnly =>
          /\ session.membership.principal = session.principal
          /\ Grants(session.membership,
                    WorkspaceScope(session.organization, session.team,
                                   session.workspace))
          /\ RequiredPermission(command) \in
                PermissionsOf(session.membership.role)
=============================================================================
