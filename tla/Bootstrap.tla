----------------------------- MODULE Bootstrap -----------------------------
(***************************************************************************)
(* Launches of the application on one database file: migrations, the first *)
(* launch's principal, organization, team, workspace and membership, the   *)
(* policy document, and the request audit.  Each reads before it writes    *)
(* and no transaction spans the two, another launch may be opening the     *)
(* same file, and any launch may be stopped anywhere.                      *)
(*                                                                         *)
(* A document is known by the launch that made it.                         *)
(***************************************************************************)
EXTENDS Authorization, Naturals, Sequences

CONSTANTS
    Launches,     \* each starts the application at most once
    Elders,       \* versions of the application that may have been here
    LastVersion,  \* the last migration
    Founder       \* the launch of an elder

ASSUME VersionAssumption ==
    /\ LastVersion \in Nat \ {0}
    /\ Elders \subseteq 1 .. LastVersion
    /\ Founder \notin Launches

VARIABLES
    schema,       \* the migrations whose batch has run
    versions,     \* schema_migrations
    rows,         \* the documents in each table, in the order of insertion
    policy,       \* whether policy_store has the baseline
    usage,        \* the token columns of ai_request_attempts
    pc,           \* per launch: the phase and the migration it is at
    session,      \* per launch: what it has loaded or made
    overlapped    \* history: launches that were opening at the same time

vars == <<schema, versions, rows, policy, usage, pc, session, overlapped>>
database == <<schema, versions, rows, policy, usage>>

Migrations == 1 .. LastVersion

\* In the order in which the first launch writes and later ones read them.
Tables == <<"principals", "organizations", "teams", "workspaces",
            "memberships">>
TableNames == {Tables[n] : n \in DOMAIN Tables}

NoSession == [t \in TableNames |-> None]

At(l, phase) == pc[l][1] = phase
Goto(l, phase, n) == pc' = [pc EXCEPT ![l] = <<phase, n>>]

Opening(l) == pc[l][1] \notin {"idle", "open", "failed", "stopped"}

Init ==
    /\ \E elder \in Elders \cup {0} :
          /\ schema = 1 .. elder
          /\ versions = 1 .. elder
          /\ rows = [t \in TableNames |->
                        IF elder = 0 THEN <<>> ELSE <<Founder>>]
          /\ policy = (elder # 0)
          /\ usage \in (IF elder = LastVersion THEN {"not_null", "nullable"}
                                               ELSE {"absent"})
    /\ pc = [l \in Launches |-> <<"idle", 0>>]
    /\ session = [l \in Launches |-> NoSession]
    /\ overlapped = {}

\* AppState::open.
Start(l) ==
    LET others == {m \in Launches : Opening(m)}
    IN  /\ At(l, "idle")
        /\ Goto(l, "batch", 1)
        /\ overlapped' = overlapped \cup
              (IF others = {} THEN {} ELSE others \cup {l})
        /\ UNCHANGED <<database, session>>

\* Tables that are there stay as they are.
Batch(l) ==
    /\ At(l, "batch")
    /\ schema' = schema \cup {pc[l][2]}
    /\ usage' = IF pc[l][2] = LastVersion /\ usage = "absent" THEN "nullable"
                                                             ELSE usage
    /\ Goto(l, "select", pc[l][2])
    /\ UNCHANGED <<versions, rows, policy, session, overlapped>>

After(n) == IF n = LastVersion THEN <<"principal", 0>> ELSE <<"batch", n + 1>>

Select(l) ==
    LET n == pc[l][2]
    IN  /\ At(l, "select")
        /\ pc' = [pc EXCEPT ![l] = IF n \in versions THEN After(n)
                                                     ELSE <<"insert", n>>]
        /\ UNCHANGED <<database, session, overlapped>>

\* A version is a primary key: it cannot be recorded twice.
Insert(l) ==
    LET n == pc[l][2]
    IN  /\ At(l, "insert")
        /\ IF n \in versions
           THEN Goto(l, "failed", 0) /\ UNCHANGED versions
           ELSE /\ versions' = versions \cup {n}
                /\ pc' = [pc EXCEPT ![l] = After(n)]
        /\ UNCHANGED <<schema, rows, policy, usage, session, overlapped>>

-----------------------------------------------------------------------------
(* load_or_bootstrap. *)

Load(l, t) ==
    session' = [session EXCEPT ![l][t] = Head(rows[t])]

FindPrincipal(l) ==
    /\ At(l, "principal")
    /\ IF rows["principals"] = <<>>
       THEN Goto(l, "create", 0) /\ UNCHANGED session
       ELSE Goto(l, "load", 2) /\ Load(l, "principals")
    /\ UNCHANGED <<database, overlapped>>

\* Mutant: the documents are written one by one.
CreateTorn(l) ==
    /\ At(l, "create")
    /\ \E n \in DOMAIN Tables :
          /\ rows' = [t \in TableNames |->
                         IF \E k \in 1 .. n : Tables[k] = t
                         THEN Append(rows[t], l) ELSE rows[t]]
          /\ IF n = Len(Tables) THEN Goto(l, "policy", 0)
                                ELSE Goto(l, "stopped", 0)
    /\ session' = [session EXCEPT ![l] = [t \in TableNames |-> l]]
    /\ UNCHANGED <<schema, versions, policy, usage, overlapped>>

\* Five inserts in one transaction.
Create(l) ==
    /\ At(l, "create")
    /\ rows' = [t \in TableNames |-> Append(rows[t], l)]
    /\ session' = [session EXCEPT ![l] = [t \in TableNames |-> l]]
    /\ Goto(l, "policy", 0)
    /\ UNCHANGED <<schema, versions, policy, usage, overlapped>>

\* Mutant: the row inserted last is loaded.
LoadOneNewest(l) ==
    LET n == pc[l][2]
        found == rows[Tables[n]]
    IN  /\ At(l, "load")
        /\ session' = [session EXCEPT ![l][Tables[n]] = found[Len(found)]]
        /\ pc' = [pc EXCEPT ![l] = IF n = Len(Tables) THEN <<"policy", 0>>
                                                      ELSE <<"load", n + 1>>]
        /\ UNCHANGED <<database, overlapped>>

\* load_one: the first row of a table, which has to be there.
LoadOne(l) ==
    LET n == pc[l][2]
    IN  /\ At(l, "load")
        /\ IF rows[Tables[n]] = <<>>
           THEN Goto(l, "failed", 0) /\ UNCHANGED session
           ELSE /\ Load(l, Tables[n])
                /\ pc' = [pc EXCEPT ![l] =
                             IF n = Len(Tables) THEN <<"policy", 0>>
                                                ELSE <<"load", n + 1>>]
        /\ UNCHANGED <<database, overlapped>>

-----------------------------------------------------------------------------

\* load_or_seed_policy.
FindPolicy(l) ==
    /\ At(l, "policy")
    /\ Goto(l, IF policy THEN "audit" ELSE "seed", 0)
    /\ UNCHANGED <<database, session, overlapped>>

SeedPolicy(l) ==
    /\ At(l, "seed")
    /\ Goto(l, IF policy THEN "failed" ELSE "audit", 0)
    /\ policy' = TRUE
    /\ UNCHANGED <<schema, versions, rows, usage, session, overlapped>>

\* AiRequestStore::open: its batch finds the tables there.
FindUsage(l) ==
    /\ At(l, "audit")
    /\ Goto(l, IF usage = "nullable" THEN "open" ELSE "rebuild", 0)
    /\ UNCHANGED <<database, session, overlapped>>

\* One transaction copies the attempts to a table without the constraints;
\* a second launch that also found them copies the new table.
Rebuild(l) ==
    /\ At(l, "rebuild")
    /\ usage' = "nullable"
    /\ Goto(l, "open", 0)
    /\ UNCHANGED <<schema, versions, rows, policy, session, overlapped>>

\* The file stays locked by another launch.
Busy(l) ==
    /\ Opening(l) /\ l \in overlapped
    /\ Goto(l, "failed", 0)
    /\ UNCHANGED <<database, session, overlapped>>

\* A statement or a transaction that was not committed leaves nothing.
Stop(l) ==
    /\ Opening(l)
    /\ Goto(l, "stopped", 0)
    /\ UNCHANGED <<database, session, overlapped>>

Next ==
    \E l \in Launches :
        \/ Start(l)
        \/ Batch(l) \/ Select(l) \/ Insert(l)
        \/ FindPrincipal(l) \/ Create(l) \/ LoadOne(l)
        \/ FindPolicy(l) \/ SeedPolicy(l)
        \/ FindUsage(l) \/ Rebuild(l)
        \/ Busy(l) \/ Stop(l)

Spec == Init /\ [][Next]_vars

-----------------------------------------------------------------------------
(* Properties. *)

SessionOf(l) ==
    LET s == session[l]
    IN  [principal |-> s["principals"], organization |-> s["organizations"],
         team |-> s["teams"], workspace |-> s["workspaces"],
         membership |-> WorkspaceOwner(s["memberships"], s["memberships"])]

\* open reads before it writes: a launch fails only when another one was
\* opening beside it, wherever earlier launches were stopped, and one that
\* opens finds every migration recorded and the audit's columns converted.
SoloOpens ==
    \A l \in Launches :
        /\ At(l, "failed") => l \in overlapped
        /\ At(l, "open") => versions = Migrations /\ usage = "nullable"

\* load_existing_bootstrap reads five tables one by one, each for its first
\* row: whichever launches bootstrapped the file beside one another, what a
\* launch has loaded belongs together, so that its principal may run every
\* command.
OwnerAuthorized ==
    \A l \in Launches :
        At(l, "open") =>
            \A c \in Capability : \A command \in CommandsOf[c] :
                Authorized(SessionOf(l), command,
                           Envelope(command, c, Unbounded))
=============================================================================
