--------------------------- MODULE IncidentStore ---------------------------
(***************************************************************************)
(* Incident commands as they really run: several callers, each with its    *)
(* own SQLite connection to one database file, take IncidentService and    *)
(* SqliteIncidentRepository through                                        *)
(*                                                                         *)
(*     preflight  replay_mutation: was this request already applied?       *)
(*     load       repository.get, the SELECT of the incident row           *)
(*     hydrate    ... and, outside any transaction, of its active roles    *)
(*     apply      apply_mutation, retried on contention                    *)
(*     append     append_comment, likewise                                 *)
(*     create     create, attempted once                                   *)
(*                                                                         *)
(* A transaction is two steps, BEGIN IMMEDIATE (Begin) and the rest up to  *)
(* COMMIT, so that callers see each other's lock; SQLite's atomic commit   *)
(* and rollback are assumed.  A caller may crash anywhere, and a request   *)
(* may be delivered again at any time, also under a reused identifier or   *)
(* with another expected version.                                          *)
(***************************************************************************)
EXTENDS IncidentLog

CONSTANTS
    Foreign,     \* identifiers of incidents of other workspaces
    Callers,     \* processes with a connection to the incident store
    Free,        \* the lock's value when nobody holds it
    RetryBudget, \* SEQUENCE_RETRY_BUDGET, attempts of a write transaction
    MaxClock     \* bound on the wall clock

ASSUME ForeignAssumption == Foreign \subseteq IncidentIds
ASSUME FreeAssumption == Free \notin Callers
ASSUME BudgetAssumption == RetryBudget \in Nat \ {0}

VARIABLES       \* besides IncidentLog's incident and timeline
    updatedAt,  \* the row's updated_at
    clock,      \* the wall clock the application reads
    lock,       \* the caller inside BEGIN IMMEDIATE, or Free
    pc, req, snap, tries, reply  \* per caller: where it is, the request it
                \* serves, the aggregate it loaded, failed attempts, answer

rows == <<incident, timeline, updatedAt>>
vars == <<incident, timeline, updatedAt, clock, lock, pc, req, snap, tries,
          reply>>

NoCall == [rid |-> "none"]
Calls == [rid : RequestIds, cmd : Commands, target : IncidentIds,
          expected : Nat, now : Nat]
Phases == {"idle", "create", "preflight", "load", "hydrate", "apply", "append"}
InTransaction == {"create", "preflight", "apply", "append"}
Reading == {"load", "hydrate"}
Answers == {"none", "ok", "Invalid", "NotFound", "VersionConflict",
            "IdempotencyConflict", "WriteContention", "Database"}

Init ==
    /\ LogInit
    /\ updatedAt = [i \in IncidentIds |-> 0]
    /\ clock = 1
    /\ lock = Free
    /\ pc = [c \in Callers |-> "idle"]
    /\ req = [c \in Callers |-> NoCall]
    /\ snap = [c \in Callers |-> NoIncident]
    /\ tries = [c \in Callers |-> 0]
    /\ reply = [c \in Callers |-> "none"]

-----------------------------------------------------------------------------
(* A caller leaves for the next phase, or answers and forgets the call. *)

Goto(c, phase) ==
    /\ pc' = [pc EXCEPT ![c] = phase]
    /\ UNCHANGED <<req, tries, reply>>

Answer(c, code) ==
    /\ pc' = [pc EXCEPT ![c] = "idle"]
    /\ req' = [req EXCEPT ![c] = NoCall]
    /\ snap' = [snap EXCEPT ![c] = NoIncident]
    /\ tries' = [tries EXCEPT ![c] = 0]
    /\ reply' = [reply EXCEPT ![c] = code]

\* The command layer hands a request to the service, with the time of the
\* call and the version its sender last saw.  A sender names an incident it
\* has seen, or one that is not this workspace's.
Accept(c, r, target, expected, phase) ==
    /\ pc[c] = "idle"
    /\ pc' = [pc EXCEPT ![c] = phase]
    /\ req' = [req EXCEPT ![c] = [rid |-> r.rid, cmd |-> r.cmd,
                                  target |-> target, expected |-> expected,
                                  now |-> clock]]
    /\ reply' = [reply EXCEPT ![c] = "none"]
    /\ UNCHANGED <<rows, clock, lock, snap, tries>>

Deliver(c, r) ==
    /\ r.cmd.kind # "create"
    /\ LET i == r.cmd.incident
           seen == IF Exists(i) THEN 1 .. incident[i].version ELSE {1}
       IN  /\ Exists(i) \/ i \in Foreign
           /\ \E e \in (IF r.cmd.kind = "comment" THEN {0} ELSE seen) :
                 Accept(c, r, i, e, "preflight")

\* Incident::create mints the identifier before the transaction opens.
DeliverCreate(c, r, i) ==
    /\ r.cmd.kind = "create"
    /\ CreateAccepted(r.cmd)
    /\ ~Exists(i)
    /\ i \notin Foreign
    /\ \A d \in Callers : pc[d] = "create" => req[d].target # i
    /\ Accept(c, r, i, 0, "create")

\* A creation the aggregate rejects never reaches the repository.
RefuseCreate(c, r) ==
    /\ pc[c] = "idle"
    /\ r.cmd.kind = "create"
    /\ ~CreateAccepted(r.cmd)
    /\ Answer(c, "Invalid")
    /\ UNCHANGED <<rows, clock, lock>>

-----------------------------------------------------------------------------
(* Transaction boundaries. *)

Begin(c) ==
    /\ pc[c] \in InTransaction
    /\ lock = Free
    /\ lock' = c
    /\ UNCHANGED <<rows, clock, pc, req, snap, tries, reply>>

\* Mutant: a contended attempt is retried without being counted.
ContendedForever(c) == UNCHANGED <<pc, req, snap, tries, reply>>

\* What a contended attempt costs: apply and append run inside
\* with_sequence_retry, the preflight and creation do not.
Contended(c) ==
    IF pc[c] \in {"apply", "append"} /\ tries[c] + 1 < RetryBudget
    THEN /\ tries' = [tries EXCEPT ![c] = @ + 1]
         /\ UNCHANGED <<pc, req, snap, reply>>
    ELSE Answer(c, "WriteContention")

\* busy_timeout expires while another connection holds the write lock.
BeginBusy(c) ==
    /\ pc[c] \in InTransaction
    /\ lock \notin {Free, c}
    /\ Contended(c)
    /\ UNCHANGED <<rows, clock, lock>>

\* COMMIT finds a reader's shared lock; the transaction is rolled back.
CommitBusy(c) ==
    /\ pc[c] \in InTransaction
    /\ lock = c
    /\ \E d \in Callers : pc[d] \in Reading
    /\ Contended(c)
    /\ lock' = Free
    /\ UNCHANGED <<rows, clock>>

\* A read that meets a committing writer is a plain database error.
ReadBusy(c) ==
    /\ pc[c] \in Reading
    /\ lock \notin {Free, c}
    /\ Answer(c, "Database")
    /\ UNCHANGED <<rows, clock, lock>>

-----------------------------------------------------------------------------
(* Replay preflight, its own transaction. *)

Stored(c) == RequestEvents(timeline[req[c].target], req[c].rid)

\* The service's *_replay_matches: the stored events of the request say the
\* same thing as the submitted command.
ReplayMatches(evs, cmd) ==
    LET e == evs[1]
        kind == cmd.kind
        said(what) == e.kind = what /\ Len(evs) = 1
    IN  /\ cmd.complete
        /\ \/ /\ kind \in {"triage", "transition"}
              /\ e.kind = "status_transitioned"
              /\ e.payload.by = cmd
              /\ Len(evs) <= 3
           \/ /\ kind = "reassess" /\ said("severity_changed")
              /\ e.payload.after.impact = cmd.impact
              /\ e.payload.after.override = {}
           \/ /\ kind = "override" /\ said("severity_changed")
              /\ e.payload.after.override = {cmd.selected}
           \/ /\ kind = "disposition" /\ said("disposition_changed")
              /\ e.payload.after = cmd.disposition
              /\ e.payload.duplicateOf = cmd.duplicateOf
           \/ /\ kind \in {"assign", "replace", "release"}
              /\ said("role_changed")
              /\ e.payload.role = cmd.role
              /\ CASE kind = "assign" ->
                        /\ e.payload.previous = {}
                        /\ e.payload.current = {cmd.principal}
                   [] kind = "replace" ->
                        /\ Cardinality(e.payload.previous) = 1
                        /\ e.payload.current = {cmd.principal}
                   [] kind = "release" ->
                        /\ e.payload.previous = {cmd.principal}
                        /\ e.payload.current = {}
           \/ /\ kind = "comment" /\ said("commented")
              /\ e.payload.body = cmd.body

\* Mutant: any stored events of the request count as a replay.
PreflightAnyContent(c) ==
    /\ pc[c] = "preflight"
    /\ lock = c
    /\ lock' = Free
    /\ \/ /\ ~Exists(req[c].target)
          /\ Answer(c, "NotFound")
       \/ /\ Exists(req[c].target)
          /\ ~HasEvents(timeline[req[c].target], req[c].rid)
          /\ Goto(c, "load")
          /\ UNCHANGED snap
       \/ /\ Exists(req[c].target)
          /\ HasEvents(timeline[req[c].target], req[c].rid)
          /\ Answer(c, "ok")
    /\ UNCHANGED <<rows, clock>>

Preflight(c) ==
    /\ pc[c] = "preflight"
    /\ lock = c
    /\ lock' = Free
    /\ \/ /\ ~Exists(req[c].target)
          /\ Answer(c, "NotFound")
       \/ /\ Exists(req[c].target)
          /\ ~HasEvents(timeline[req[c].target], req[c].rid)
          /\ Goto(c, "load")
          /\ UNCHANGED snap
       \/ /\ Exists(req[c].target)
          /\ HasEvents(timeline[req[c].target], req[c].rid)
          /\ Answer(c, IF ReplayMatches(Stored(c), req[c].cmd)
                       THEN "ok" ELSE "IdempotencyConflict")
    /\ UNCHANGED <<rows, clock>>

-----------------------------------------------------------------------------
(* repository.get without a transaction: the row, then the roles.  The     *)
(* preflight found the row and rows are never deleted, so it is there.     *)

LoadRow(c) ==
    /\ pc[c] = "load"
    /\ snap' = [snap EXCEPT ![c] = incident[req[c].target]]
    /\ Goto(c, "hydrate")
    /\ UNCHANGED <<rows, clock, lock>>

Hydrated(c) == [snap[c] EXCEPT !.roles = incident[req[c].target].roles]

\* The lookups the service makes before it runs the aggregate.
LookupsSucceed(cmd) ==
    /\ cmd.kind = "disposition" /\ cmd.disposition = "duplicate" =>
          \A d \in cmd.duplicateOf : Exists(d)
    /\ cmd.kind \in {"assign", "replace"} => cmd.principal \in Members

\* The rest of the read, the version check, the lookups and the aggregate's
\* verdict: what a caller does before it opens the write transaction.
LoadRoles(c) ==
    LET cmd == req[c].cmd
        row == Hydrated(c)
    IN
    /\ pc[c] = "hydrate"
    /\ \/ /\ cmd.kind = "comment"
          /\ IF cmd.complete
             THEN /\ Goto(c, "append")
                  /\ snap' = [snap EXCEPT ![c] = row]
             ELSE Answer(c, "Invalid")
       \/ /\ cmd.kind # "comment"
          /\ CASE row.version # req[c].expected -> Answer(c, "VersionConflict")
               [] row.version = req[c].expected /\ ~LookupsSucceed(cmd) ->
                     Answer(c, "NotFound")
               [] row.version = req[c].expected /\ LookupsSucceed(cmd)
                     /\ ~Accepts(row, cmd) -> Answer(c, "Invalid")
               [] OTHER -> /\ Goto(c, "apply")
                           /\ snap' = [snap EXCEPT ![c] = row]
    /\ UNCHANGED <<rows, clock, lock>>

-----------------------------------------------------------------------------
(* The write transactions. *)

\* Timeline rows are inserted at the sequences after the highest stored one.
HighestSequence(t) ==
    IF DOMAIN t = {} THEN 0
    ELSE CHOOSE n \in DOMAIN t : \A m \in DOMAIN t : m <= n

InsertEvents(t, evs) ==
    LET base == HighestSequence(t) IN
    [n \in DOMAIN t \cup {base + k : k \in 1 .. Len(evs)} |->
        IF n \in DOMAIN t THEN t[n] ELSE evs[n - base]]

\* The mutation the aggregate built from the loaded row.
NewRow(c) == Applied(snap[c], req[c].cmd)
NewEvents(c) == Events(snap[c], req[c].rid, req[c].cmd)

ApplyAnswers(c, code) == Answer(c, code) /\ UNCHANGED rows

\* Mutant: the UPDATE without its version predicate.
ApplyAnyVersion(c) ==
    LET i == req[c].target IN
    /\ pc[c] = "apply"
    /\ lock = c
    /\ lock' = Free
    /\ \/ /\ HasEvents(timeline[i], req[c].rid)
          /\ ApplyAnswers(c, IF Stored(c) = NewEvents(c)
                             THEN "ok" ELSE "IdempotencyConflict")
       \/ /\ ~HasEvents(timeline[i], req[c].rid)
          /\ incident' = [incident EXCEPT ![i] = NewRow(c)]
          /\ timeline' = [timeline EXCEPT ![i] = InsertEvents(@, NewEvents(c))]
          /\ updatedAt' = [updatedAt EXCEPT ![i] = req[c].now]
          /\ Answer(c, "ok")
    /\ UNCHANGED clock

\* Mutant: the predicate compares with the version the mutation writes.
ApplyComparesNewVersion(c) ==
    /\ pc[c] = "apply"
    /\ lock = c
    /\ lock' = Free
    /\ incident[req[c].target].version # NewRow(c).version
    /\ ApplyAnswers(c, "VersionConflict")
    /\ UNCHANGED clock

ApplyMutation(c) ==
    LET i == req[c].target IN
    /\ pc[c] = "apply"
    /\ lock = c
    /\ lock' = Free
    /\ \/ /\ HasEvents(timeline[i], req[c].rid)
          /\ ApplyAnswers(c, IF Stored(c) = NewEvents(c)
                             THEN "ok" ELSE "IdempotencyConflict")
       \/ /\ ~HasEvents(timeline[i], req[c].rid)
          /\ incident[i].version # snap[c].version
          /\ ApplyAnswers(c, "VersionConflict")
       \/ /\ ~HasEvents(timeline[i], req[c].rid)
          /\ incident[i].version = snap[c].version
          /\ ~ReferencesKnown(incident, NewRow(c), NewEvents(c))
          /\ ApplyAnswers(c, "NotFound")
       \/ /\ ~HasEvents(timeline[i], req[c].rid)
          /\ incident[i].version = snap[c].version
          /\ ReferencesKnown(incident, NewRow(c), NewEvents(c))
          /\ incident' = [incident EXCEPT ![i] = NewRow(c)]
          /\ timeline' = [timeline EXCEPT ![i] = InsertEvents(@, NewEvents(c))]
          /\ updatedAt' = [updatedAt EXCEPT ![i] = req[c].now]
          /\ Answer(c, "ok")
    /\ UNCHANGED clock

LaterOf(a, b) == IF a >= b THEN a ELSE b

AppendComment(c) ==
    LET i == req[c].target
        evs == CommentEvents(req[c].rid, req[c].cmd)
    IN
    /\ pc[c] = "append"
    /\ lock = c
    /\ lock' = Free
    /\ \/ /\ HasEvents(timeline[i], req[c].rid)
          /\ ApplyAnswers(c, IF Stored(c) = evs
                             THEN "ok" ELSE "IdempotencyConflict")
       \/ /\ ~HasEvents(timeline[i], req[c].rid)
          /\ timeline' = [timeline EXCEPT ![i] = InsertEvents(@, evs)]
          /\ updatedAt' = [updatedAt EXCEPT ![i] = LaterOf(@, req[c].now)]
          /\ UNCHANGED incident
          /\ Answer(c, "ok")
    /\ UNCHANGED clock

\* The incidents stored under the creation's request identifier.
CreatedUnder(rid) ==
    {j \in IncidentIds : Exists(j) /\ incident[j].createdBy.rid = rid}

CreateIncident(c) ==
    LET i == req[c].target
        rid == req[c].rid
        cmd == req[c].cmd
    IN
    /\ pc[c] = "create"
    /\ lock = c
    /\ lock' = Free
    /\ \/ /\ CreatedUnder(rid) # {}
          /\ ApplyAnswers(c, IF \A j \in CreatedUnder(rid) :
                                   incident[j].createdBy.cmd = cmd
                             THEN "ok" ELSE "IdempotencyConflict")
       \/ /\ CreatedUnder(rid) = {}
          /\ incident' = [incident EXCEPT ![i] = CreatedRow(rid, cmd)]
          /\ timeline' = [timeline EXCEPT ![i] = CreationEvents(rid, cmd)]
          /\ updatedAt' = [updatedAt EXCEPT ![i] = req[c].now]
          /\ Answer(c, "ok")
    /\ UNCHANGED clock

-----------------------------------------------------------------------------
(* The process dies: SQLite rolls its transaction back, the caller learns  *)
(* nothing.                                                                *)

Crash(c) ==
    /\ pc[c] # "idle"
    /\ Answer(c, "none")
    /\ lock' = IF lock = c THEN Free ELSE lock
    /\ UNCHANGED <<rows, clock>>

Tick == /\ clock < MaxClock
        /\ clock' = clock + 1
        /\ UNCHANGED <<rows, lock, pc, req, snap, tries, reply>>

-----------------------------------------------------------------------------

\* The steps a running command takes without the client's help.
Step(c) == \/ Begin(c) \/ BeginBusy(c) \/ CommitBusy(c) \/ ReadBusy(c)
           \/ Preflight(c) \/ LoadRow(c) \/ LoadRoles(c)
           \/ ApplyMutation(c) \/ AppendComment(c) \/ CreateIncident(c)

Next == \/ \E c \in Callers : \/ Step(c)
                              \/ Crash(c)
                              \/ \E r \in Requests :
                                    \/ Deliver(c, r)
                                    \/ \E i \in IncidentIds :
                                          DeliverCreate(c, r, i)
                                    \/ RefuseCreate(c, r)
        \/ Tick

Spec == Init /\ [][Next]_vars

\* A command runs on its own thread to its end and every wait for the lock
\* is bounded by busy_timeout; nothing obliges a client to send.
FairSpec == Spec /\ \A c \in Callers : WF_vars(Step(c))

-----------------------------------------------------------------------------
(* Correctness. *)

TypeOK ==
    /\ LogTypeOK
    /\ updatedAt \in [IncidentIds -> Nat]
    /\ clock \in Nat
    /\ lock \in Callers \cup {Free}
    /\ pc \in [Callers -> Phases]
    /\ req \in [Callers -> Calls \cup {NoCall}]
    /\ snap \in [Callers -> IncidentRows \cup {NoIncident}]
    /\ tries \in [Callers -> 0 .. RetryBudget - 1]
    /\ reply \in [Callers -> Answers]

\* The version predicate of the UPDATE is enough: an aggregate whose version
\* is still the stored one is the stored row, even though it was read in two
\* statements outside any transaction, and however long ago.
SnapshotFresh ==
    \A c \in Callers : pc[c] \in {"hydrate", "apply", "append"} =>
        LET row == incident[req[c].target] IN
        /\ snap[c].version <= row.version
        /\ snap[c].version = row.version => snap[c] = row

\* No two incidents come from one creation request, however often and from
\* however many callers it arrives.
CreatedOnce ==
    \A i, j \in IncidentIds :
        /\ Exists(i)
        /\ Exists(j)
        /\ incident[i].createdBy.rid = incident[j].createdBy.rid
        => i = j

\* The caller c answers its call with the given code in this step.
Replies(c, code) ==
    pc[c] # "idle" /\ pc'[c] = "idle" /\ reply'[c] = code

\* Applied, as its own content: what a caller may believe after an Ok.
AppliedAs(call, stored, timelines) ==
    IF call.cmd.kind = "create"
    THEN \E i \in IncidentIds :
            /\ stored[i] # NoIncident
            /\ stored[i].createdBy = [rid |-> call.rid, cmd |-> call.cmd]
    ELSE LET t == timelines[call.target] IN
         /\ HasEvents(t, call.rid)
         /\ ReplayMatches(RequestEvents(t, call.rid), call.cmd)

\* Ok is answered only for a request whose own content is on the timeline:
\* neither a reused identifier nor a lost race is acknowledged.
AcknowledgedIsApplied ==
    [][\A c \in Callers : Replies(c, "ok") =>
          AppliedAs(req[c], incident', timeline')]_vars

\* VersionConflict sends a responder to reload: it is answered only to a
\* caller whose copy really is behind the stored row.
ConflictOnlyIfStale ==
    [][\A c \in Callers : Replies(c, "VersionConflict") =>
          req[c].expected < incident[req[c].target].version]_vars

\* Whatever contention does, a running command answers (or its process dies).
Answered == \A c \in Callers : pc[c] # "idle" ~> pc[c] = "idle"
=============================================================================
