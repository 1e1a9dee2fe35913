--------------------------- MODULE MCIncidentLog ---------------------------
(* Request sets for model-checking IncidentLog: each request identifier     *)
(* belongs to one command, so a run is a choice of which commands arrive in *)
(* which order, each at most once.                                          *)
EXTENDS IncidentLog

MCPrincipals == {"ana", "bo", "eve"}
MCMembers == {"ana", "bo"}
MCImpacts == {"minor", "major", "severe"}
MCDerive == [m \in MCImpacts |-> CASE m = "minor"  -> "S4"
                                   [] m = "major"  -> "S2"
                                   [] m = "severe" -> "S2"]

CreateCmd(impact, roles) ==
    [kind |-> "create", impact |-> impact, roles |-> roles, complete |-> TRUE]
TriageCmd(i, impact, owner) ==
    [kind |-> "triage", incident |-> i, impact |-> impact, owner |-> owner,
     complete |-> TRUE]
MoveCmd(i, target) ==
    [kind |-> "transition", incident |-> i, target |-> target,
     complete |-> TRUE]
ReassessCmd(i, impact) ==
    [kind |-> "reassess", incident |-> i, impact |-> impact, complete |-> TRUE]
OverrideCmd(i, s) ==
    [kind |-> "override", incident |-> i, selected |-> s, complete |-> TRUE]
DisposeCmd(i, d, dup) ==
    [kind |-> "disposition", incident |-> i, disposition |-> d,
     duplicateOf |-> dup, complete |-> TRUE]
RoleCmd(kind, i, role, p) ==
    [kind |-> kind, incident |-> i, role |-> role, principal |-> p,
     complete |-> TRUE]
CommentCmd(i, b) ==
    [kind |-> "comment", incident |-> i, body |-> b, complete |-> TRUE]

Req(rid, cmd) == [rid |-> rid, cmd |-> cmd]

\* A whole lifecycle with one reopening, severity commands at any moment and
\* a comment; one resolution arrives without its context.
LifecycleRequests ==
    { Req("open", CreateCmd("minor", {})),
      Req("confirm", TriageCmd("i1", "major", "ana")),
      Req("look", MoveCmd("i1", "investigating")),
      Req("lookAgain", MoveCmd("i1", "investigating")),
      Req("mitigate", MoveCmd("i1", "mitigating")),
      Req("monitor", MoveCmd("i1", "monitoring")),
      Req("resolve", MoveCmd("i1", "resolved")),
      Req("resolveBare", [MoveCmd("i1", "resolved") EXCEPT !.complete = FALSE]),
      Req("close", MoveCmd("i1", "closed")),
      Req("reopen", MoveCmd("i1", "reopened")),
      Req("raise", OverrideCmd("i1", "S2")),
      Req("lower", OverrideCmd("i1", "S4")),
      Req("reassess", ReassessCmd("i1", "severe")),
      Req("note", CommentCmd("i1", "n")) }
LifecycleRids == {r.rid : r \in LifecycleRequests}

\* Two incidents created with initial roles, duplicates of one another, and
\* every way of handing an exclusive and a shared role around.
ResponderRequests ==
    { Req("create", CreateCmd("major", {<<"owner", "ana">>,
                                        <<"stakeholder", "ana">>})),
      Req("createTwo", CreateCmd("major", {<<"owner", "ana">>,
                                           <<"owner", "bo">>})),
      Req("create2", CreateCmd("minor", {})),
      Req("triage", TriageCmd("i1", "major", "bo")),
      Req("triageEve", TriageCmd("i1", "major", "eve")),
      Req("assign", RoleCmd("assign", "i1", "owner", "bo")),
      Req("replace", RoleCmd("replace", "i1", "owner", "ana")),
      Req("replaceBo", RoleCmd("replace", "i1", "owner", "bo")),
      Req("release", RoleCmd("release", "i1", "owner", "ana")),
      Req("join", RoleCmd("assign", "i1", "stakeholder", "bo")),
      Req("dup", DisposeCmd("i1", "duplicate", {"i2"})),
      Req("dupSelf", DisposeCmd("i1", "duplicate", {"i1"})),
      Req("false", DisposeCmd("i1", "false_positive", {})) }
ResponderRids == {r.rid : r \in ResponderRequests}

MCRequests == LifecycleRequests \cup ResponderRequests
MCRids == LifecycleRids \cup ResponderRids

\* A behaviour is of one story or the other: severities and roles touch
\* different parts of a row, and all orders of both together are too many.
OneStory ==
    \E story \in {LifecycleRids, ResponderRids} :
        \A i \in IncidentIds : \A n \in DOMAIN timeline[i] :
            timeline[i][n].rid \in story
=============================================================================
