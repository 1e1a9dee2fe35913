-------------------------- MODULE MCIncidentStore --------------------------
(* Two callers and small request sets for IncidentStore.  Request           *)
(* identifiers are few and shared between commands on purpose: the set      *)
(* holds one identifier with two contents, and any request may come twice.  *)
EXTENDS IncidentStore

MCPrincipals == {"ana", "eve"}
MCMembers == {"ana"}
MCImpacts == {"major"}
MCDerive == [m \in MCImpacts |-> "S2"]

Req(rid, cmd) == [rid |-> rid, cmd |-> cmd]

CreateCmd(roles) ==
    [kind |-> "create", impact |-> "major", roles |-> roles, complete |-> TRUE]
TriageCmd(owner) ==
    [kind |-> "triage", incident |-> "i1", impact |-> "major",
     owner |-> owner, complete |-> TRUE]
RoleCmd(kind, role, p) ==
    [kind |-> kind, incident |-> "i1", role |-> role, principal |-> p,
     complete |-> TRUE]
CommentCmd(body) ==
    [kind |-> "comment", incident |-> "i1", body |-> body, complete |-> TRUE]

\* The same creation from two callers and another under its identifier, one
\* that is rejected; a triage that takes the owner role racing with a role
\* command that wants it too, and with a comment under the triage's
\* identifier; a comment on an incident of another workspace.
MCRequests ==
    { Req("r0", CreateCmd({})),
      Req("r0", CreateCmd({<<"owner", "ana">>})),
      Req("r1", [CreateCmd({}) EXCEPT !.complete = FALSE]),
      Req("r1", TriageCmd("ana")),
      Req("r1", CommentCmd("a")),
      Req("r1", [CommentCmd("b") EXCEPT !.incident = "i9"]),
      Req("r2", RoleCmd("assign", "owner", "ana")) }
=============================================================================
