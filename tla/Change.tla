------------------------------- MODULE Change -------------------------------
(***************************************************************************)
(* The change commands (app/change.rs).  change_snapshot replays the       *)
(* fixtures one by one into the source ledger, builds the timeline of the  *)
(* request, associates its entries with the candidates of the default      *)
(* correlation request, and answers by a snapshot that was validated as a  *)
(* whole, or by an error.  change_evidence does the same for the default   *)
(* request and answers only for identifiers that snapshot names.           *)
(*                                                                         *)
(* The ledger outlives the command: a process may end between two          *)
(* fixtures and the next command replays over what was retained.           *)
(***************************************************************************)
EXTENDS ChangeRecords, ChangeAssociation, Functions

CONSTANTS
  Catalogs,        \* the fixtures that may be committed, sequences of payloads
  Requests,        \* what change_snapshot may be asked
  DefaultRequest,  \* what change_evidence evaluates
  Asked,           \* the evidence identifiers that may be asked for, sets
  MaxCommands,     \* bound: how many commands are given
  MaxFaults        \* bound: how often the process ends or the file is busy

ASSUME CatalogsAssumption == Catalogs \subseteq Seq(Payload)
ASSUME RequestsAssumption ==
  \A r \in Requests \cup {DefaultRequest} :
    {r.start, r.end, r.evaluated, r.lookback, r.limit} \subseteq Nat
ASSUME CandidatesAssumption == \A c \in Candidates : Observed(c) \subseteq Nat

VARIABLES
  catalog,
  rows,        \* the ledger: digest -> source, native identifier
  pc, command, \* where the command stands, and what it was asked
  rest,        \* the fixtures still to replay
  events, statuses,
  timeline, left, associations,
  answer,
  commands, faults,
  disturbed,   \* history: a fault touched the present command
  given        \* history: the answers of commands no fault touched
vars == <<catalog, rows, pc, command, rest, events, statuses, timeline, left, associations, answer,
          commands, faults, disturbed, given>>
result == <<timeline, left, associations>>
frame == <<catalog, command, commands, given>>

NoAnswer == [kind |-> "none"]
Error(of) == [kind |-> "error", of |-> of]
NoTimeline == [entries |-> {}, truncated |-> FALSE]
Idle(reply) == pc' = "idle" /\ answer' = reply

Init ==
  /\ catalog \in Catalogs
  /\ rows = << >> /\ pc = "idle" /\ command = NoAnswer /\ rest = << >>
  /\ events = << >> /\ statuses = << >> /\ timeline = NoTimeline /\ left = {} /\ associations = {}
  /\ answer = NoAnswer /\ commands = 0 /\ faults = 0 /\ disturbed = FALSE /\ given = {}

(* Who may not ask, or asks what the request's validation refuses, learns  *)
(* nothing and retains nothing.                                            *)
ValidRequest(r) == r.start < r.end /\ r.start <= r.evaluated /\ r.limit > 0

Ask(c) ==
  /\ pc = "idle" /\ commands < MaxCommands
  /\ commands' = commands + 1 /\ command' = c
  /\ disturbed' = FALSE
  /\ rest' = catalog /\ events' = << >> /\ statuses' = << >>
  /\ timeline' = NoTimeline /\ left' = Candidates /\ associations' = {}
  /\ IF ~c.granted THEN Idle(Error("denied"))
     ELSE IF ~ValidRequest(c.request) THEN Idle(Error("request"))
     ELSE pc' = "replay" /\ answer' = NoAnswer
  /\ UNCHANGED <<catalog, rows, faults, given>>

Commands ==
  [kind : {"snapshot"}, request : Requests, granted : BOOLEAN, ids : {{}}]
    \cup [kind : {"evidence"}, request : {DefaultRequest}, granted : {TRUE}, ids : Asked]

(***************************************************************************)
(* Replay                                                                  *)
(***************************************************************************)
Report(p) == statuses' = Append(statuses, FixtureStatus(p)) /\ UNCHANGED events

Identity(p) == [source |-> p.source, native |-> p.native]

(* A digest has one identity, and its evidence one source; and under one   *)
(* native identifier there is one digest.                                  *)
Ambiguous(p) ==
  \/ p.digest \in DOMAIN rows /\ rows[p.digest] # Identity(p)
  \/ p.native # None /\ \E d \in DOMAIN rows \ {p.digest} : rows[d] = Identity(p)

\* Mutant: a record that is already there is not admitted again.
RetainableOnce(p) == Refusal(p) = None /\ ~Ambiguous(p) /\ p.digest \notin DOMAIN rows

Retainable(p) == Refusal(p) = None /\ ~Ambiguous(p)

Retained(p) ==
  [d \in DOMAIN rows \cup {p.digest} |->
     IF d \in DOMAIN rows THEN rows[d] ELSE Identity(p)]

(* The statuses of one record come in the order of its fields.             *)
Fields == <<"actor", "changed_path", "repository", "source_link">>
Reported(p) ==
  LET lost == SelectSeq(Fields, LAMBDA f : f \in Downgraded(p))
  IN [i \in DOMAIN lost |-> FieldStatus(p, lost[i])]

Taken(p) == rest' = Tail(rest)

(* A record that cannot be read as a change stays in the ledger.           *)
Replay ==
  /\ pc = "replay" /\ rest # << >>
  /\ LET p == Head(rest)
         q == Stripped(p)
     IN /\ Taken(p)
        /\ IF ~Retainable(p) THEN Report(p) /\ UNCHANGED rows
           ELSE /\ rows' = Retained(p)
                /\ IF ~Readable(q) THEN Report(p)
                   ELSE /\ events' = Append(events, Event(q))
                        /\ statuses' = statuses \o Reported(q)
  /\ UNCHANGED <<frame, pc, result, answer, faults, disturbed>>

(* The file is held by another connection past the busy timeout: nothing   *)
(* is retained, or the shared row is and the change's own is not.          *)
ReplayBusy ==
  /\ pc = "replay" /\ rest # << >> /\ faults < MaxFaults
  /\ LET p == Head(rest)
     IN /\ Retainable(p)
        /\ Taken(p) /\ Report(p)
        /\ rows' \in {rows, Retained(p)}
  /\ faults' = faults + 1 /\ disturbed' = TRUE
  /\ UNCHANGED <<frame, pc, result, answer>>

(***************************************************************************)
(* Projection                                                              *)
(***************************************************************************)
Shown == Range(events)
Twins(list) == \E i, j \in DOMAIN list : i # j /\ list[i] = list[j]
InTimeline == {e \in Shown : e.id \in timeline.entries}

Answer(reply) ==
  /\ Idle(reply)
  /\ given' = IF disturbed THEN given ELSE given \cup {[command |-> command, answer |-> reply]}
  /\ UNCHANGED <<catalog, rows, command, rest, events, statuses, commands, faults, disturbed>>

BuildTimeline ==
  /\ pc = "replay" /\ rest = << >>
  /\ IF Twins([i \in DOMAIN events |-> events[i].id])
     THEN Answer(Error("twins")) /\ UNCHANGED result
     ELSE /\ pc' = "associate"
          /\ timeline' = Timeline(Shown, command.request)
          /\ UNCHANGED <<frame, rows, rest, events, statuses, left, associations, answer, faults, disturbed>>

(* The correlation snapshot the context is taken from opens a ledger of    *)
(* its own, which may fail.                                                *)
LoseContext ==
  /\ pc = "associate" /\ left = Candidates /\ faults < MaxFaults
  /\ Idle(Error("context"))
  /\ faults' = faults + 1 /\ disturbed' = TRUE
  /\ UNCHANGED <<frame, rows, rest, events, statuses, result>>

AssociateCandidate ==
  /\ pc = "associate"
  /\ \E c \in left :
       /\ \A d \in left : c.id <= d.id
       /\ left' = left \ {c}
       /\ associations' = associations \cup Associate(InTimeline, c, command.request.lookback)
  /\ UNCHANGED <<frame, rows, pc, rest, events, statuses, timeline, answer, faults, disturbed>>

(* ChangeSnapshot::validate: the keys of the statuses differ, and all the  *)
(* evidence that is named is some event's.                                 *)
Known == UNION {e.evidence : e \in Shown}
Closed == \A a \in associations : a.evidence \subseteq Known

Snapshot ==
  [kind |-> "snapshot", events |-> Shown, timeline |-> timeline, associations |-> associations,
   metrics |-> Metrics(InTimeline, associations), statuses |-> Range(statuses)]

\* Mutant: evidence is answered for only when its event is in the window.
KnownInWindow(ids) == ids \subseteq UNION {e.evidence : e \in InTimeline}

Resolvable(ids) == ids \subseteq Known

Finish ==
  /\ pc = "associate" /\ left = {}
  /\ Answer(IF Twins(statuses) THEN Error("statuses")
            ELSE IF ~Closed THEN Error("evidence")
            ELSE IF command.kind = "snapshot" THEN Snapshot
            ELSE IF Resolvable(command.ids) THEN [kind |-> "evidence", ids |-> command.ids]
            ELSE Error("not found"))
  /\ UNCHANGED result

(* The process ends; the ledger stays.                                     *)
Crash ==
  /\ pc # "idle" /\ faults < MaxFaults
  /\ Idle(NoAnswer)
  /\ faults' = faults + 1 /\ disturbed' = TRUE
  /\ UNCHANGED <<frame, rows, rest, events, statuses, result>>

Next ==
  \/ \E c \in Commands : Ask(c)
  \/ Replay \/ ReplayBusy
  \/ BuildTimeline \/ LoseContext \/ AssociateCandidate \/ Finish
  \/ Crash
  \/ pc = "idle" /\ commands = MaxCommands /\ UNCHANGED vars

Spec == Init /\ [][Next]_vars

-----------------------------------------------------------------------------
(***************************************************************************)
(* Properties                                                              *)
(***************************************************************************)
Answered == answer.kind = "snapshot"

(* The entries of the timeline are the newest of the window, and the       *)
(* associations are exactly the entries that precede every signal of a     *)
(* candidate, one of them within the lookback, and share its structure; a  *)
(* count says how many.                                                    *)
Eligible(e, c, r) ==
  /\ Observed(c) # {}
  /\ \A t \in Observed(c) : e.at < t
  /\ \E t \in Observed(c) : t <= e.at + r.lookback
  /\ e.targets \cap c.targets # {} \/ Unambiguous(Relations(e, c)) # {}

AssociationsExact ==
  Answered =>
    LET r == command.request
        entries == {e \in answer.events : e.id \in answer.timeline.entries}
        window == {e \in answer.events : r.start <= e.at /\ e.at < r.end}
    IN /\ entries \subseteq window
       /\ \A e \in entries, f \in window : f \in entries \/ Precedes(f, e)
       /\ answer.timeline.truncated <=> entries # window
       /\ {<<a.change, a.candidate>> : a \in answer.associations} =
            {<<x[1].id, x[2].id>> : x \in {y \in entries \X Candidates : Eligible(y[1], y[2], r)}}
       /\ \A m \in answer.metrics :
            m.key = "associated_changes" => m.value = Cardinality({a.change : a \in answer.associations})

(* One request has one answer, however often the fixtures were replayed    *)
(* before it and wherever an earlier command broke off (the projection is  *)
(* deterministic: app/change.rs, change_snapshot).                         *)
SameAnswer ==
  \A g, h \in given : g.command = h.command => g.answer = h.answer

(* Evidence that a snapshot of any request has shown can be asked for,     *)
(* unless the default request is itself refused as a whole.                *)
EvidenceResolves ==
  \A g, h \in given :
    /\ g.answer.kind = "snapshot" /\ h.command.kind = "evidence"
    /\ h.command.ids \subseteq UNION {e.evidence : e \in g.answer.events}
    => h.answer.kind = "evidence" \/ h.answer.of # "not found"
=============================================================================
