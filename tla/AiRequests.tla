----------------------------- MODULE AiRequests -----------------------------
(***************************************************************************)
(* The AI commands of one application: concurrent ai_complete calls, each  *)
(* in a thread of its own, ai_cancel calls that reach them through the     *)
(* table of cancellation tokens, and the audit store on disk.              *)
(*                                                                         *)
(*     Complete      the token table, keyed by request identifier          *)
(*     ReadWindow    the usage recorded so far, read from the audit        *)
(*     Enter         Gateway::complete up to its provider loop             *)
(*     Check, Send   an attempt: the request's state, then policy and      *)
(*                   budget and the provider call itself                   *)
(*     Reply         what the provider returns, in time or too late        *)
(*     Unregister, Record   the token is dropped, the outcome audited      *)
(*                                                                         *)
(* Expire is a deadline passing; Restart is the application stopping and   *)
(* starting again, which loses every call in flight and keeps the audit.   *)
(***************************************************************************)
EXTENDS AiGateway

CONSTANTS
    Calls,       \* ai_complete calls, each made at most once
    RequestIds,  \* request identifiers, chosen by the callers
    Requests,    \* the requests callers send
    Usages,      \* the usages providers report
    Errors       \* the reasons providers fail with

\* ModelFinishReason, the provider's own reasons taken as one.
Finished == {"complete", "cancelled"}

\* How the gateway ends: a finish, or the code of an error.
Codes ==
    Finished \cup Bounds \cup ProviderErrorReason \cup
    {"ai_provider_selection_failed", "ai_audit_store_failed",
     "ai_request_cancelled", "ai_deadline_exceeded", "model_request_invalid",
     "policy_denied"}

ASSUME ErrorsAssumption == Errors \subseteq ProviderErrorReason
ASSUME UsagesAssumption == Usages \subseteq ModelUsage
ASSUME NoneAssumption == None \notin Calls \cup Codes /\ None \notin Usages
ASSUME RequestsAssumption ==
    \A q \in Requests : q.id \in RequestIds /\ q.budget.output \in Nat
ASSUME WindowAssumption == Window.output \in Nat \cup {None}

VARIABLES
    tokens,      \* ai_cancellations: the call whose token is in the table
    audit,       \* ai_requests and ai_request_attempts
    pc, req,     \* per call: where it is, the request it serves
    cancelled, expired,  \* its token's flag, and whether its deadline passed
    used,        \* the window usage it read
    queue,       \* the selections it has not tried
    attempts,    \* the attempts it will record
    result,      \* how the gateway ended: a finish or an error's reason
    reply,       \* what its caller was told
    made,        \* history: the providers it called, in order
    before       \* history: the requests answered when it began

vars == <<tokens, audit, pc, req, cancelled, expired, used, queue, attempts,
          result, reply, made, before>>
shared == <<tokens, audit>>
flags == <<cancelled, expired>>

InGateway == {"enter", "check", "send", "call"}
InFlight == {"window", "unregister"} \cup InGateway
Phases == {"idle", "record", "done"} \cup InFlight

NoUsage == [input |-> 0, output |-> 0, cost |-> None]

Init ==
    /\ tokens = [i \in RequestIds |-> None]
    /\ audit = [i \in RequestIds |-> None]
    /\ pc = [c \in Calls |-> "idle"]
    /\ req = [c \in Calls |-> None]
    /\ cancelled = [c \in Calls |-> FALSE]
    /\ expired = [c \in Calls |-> FALSE]
    /\ used = [c \in Calls |-> NoUsage]
    /\ queue = [c \in Calls |-> <<>>]
    /\ attempts = [c \in Calls |-> <<>>]
    /\ result = [c \in Calls |-> None]
    /\ reply = [c \in Calls |-> None]
    /\ made = [c \in Calls |-> <<>>]
    /\ before = [c \in Calls |-> {}]

-----------------------------------------------------------------------------
(* The audit store. *)

Audited == {i \in RequestIds : audit[i] # None}

\* Mutant: the last attempt of a request, the one that answered, is missed.
RecordedButLast ==
    {a \in UNION {{i} \X (1 .. Len(audit[i].attempts) - 1) : i \in Audited} :
        audit[a[1]].attempts[a[2]].usage # None}

\* AiRequestStore::window_usage: the sums over every recorded attempt.  An
\* attempt without usage adds nothing, and the cost is absent while no
\* recorded attempt has one.
Recorded ==
    {a \in UNION {{i} \X DOMAIN audit[i].attempts : i \in Audited} :
        audit[a[1]].attempts[a[2]].usage # None}

WindowUsage ==
    LET usage(a) == audit[a[1]].attempts[a[2]].usage
        costs == {a \in Recorded : usage(a).cost # None}
    IN  [input |-> SumFunction([a \in Recorded |-> usage(a).input]),
         output |-> SumFunction([a \in Recorded |-> usage(a).output]),
         cost |-> IF costs = {} THEN None
                  ELSE SumFunction([a \in costs |-> usage(a).cost])]

-----------------------------------------------------------------------------
(* ai_complete. *)

Goto(c, phase) == pc' = [pc EXCEPT ![c] = phase]

\* The calls of D answer, each with its code, and their locals are gone.
AnswerAll(D, code(_)) ==
    /\ pc' = [c \in Calls |-> IF c \in D THEN "done" ELSE pc[c]]
    /\ reply' = [c \in Calls |-> IF c \in D THEN code(c) ELSE reply[c]]
    /\ cancelled' = [c \in Calls |-> cancelled[c] /\ c \notin D]
    /\ expired' = [c \in Calls |-> expired[c] /\ c \notin D]
    /\ used' = [c \in Calls |-> IF c \in D THEN NoUsage ELSE used[c]]
    /\ queue' = [c \in Calls |-> IF c \in D THEN <<>> ELSE queue[c]]
    /\ attempts' = [c \in Calls |-> IF c \in D THEN <<>> ELSE attempts[c]]
    /\ result' = [c \in Calls |-> IF c \in D THEN None ELSE result[c]]
    /\ made' = [c \in Calls |-> IF c \in D THEN <<>> ELSE made[c]]

Answer(c, code) == AnswerAll({c}, LAMBDA d : code)

\* Gateway::complete returns.
Return(c, code) ==
    /\ Goto(c, "unregister")
    /\ result' = [result EXCEPT ![c] = code]

\* Mutant: a refused call takes its token out of the table again.
CompleteRefusedLeaves(c, q) ==
    /\ pc[c] = "idle"
    /\ req' = [req EXCEPT ![c] = q]
    /\ UNCHANGED <<audit, before>>
    /\ IF tokens[q.id] = None
       THEN /\ tokens' = [tokens EXCEPT ![q.id] = c]
            /\ Goto(c, "window")
            /\ UNCHANGED <<flags, used, queue, attempts, result, reply, made>>
       ELSE /\ tokens' = [tokens EXCEPT ![q.id] = None]
            /\ Answer(c, "ai_request_in_flight")

\* The token is put in the table before it is known whether another call of
\* the same request is in flight; if one is, its token is gone from the
\* table and this call is refused.
Complete(c, q) ==
    /\ pc[c] = "idle"
    /\ req' = [req EXCEPT ![c] = q]
    /\ before' = [before EXCEPT ![c] =
                     {req[d].id : d \in {e \in Calls : reply[e] \in Finished}}]
    /\ IF ~q.authorized
       THEN Answer(c, "permission_denied") /\ UNCHANGED tokens
       ELSE /\ tokens' = [tokens EXCEPT ![q.id] = c]
            /\ IF tokens[q.id] = None
               THEN /\ Goto(c, "window")
                    /\ UNCHANGED <<flags, used, queue, attempts, result, reply,
                                   made>>
               ELSE Answer(c, "ai_request_in_flight")
    /\ UNCHANGED audit

\* complete_model: one configured provider that cannot be built fails the
\* registry of every request, and an audit that cannot be read ends the call
\* unrecorded.
ReadWindow(c) ==
    /\ pc[c] = "window"
    /\ \/ /\ used' = [used EXCEPT ![c] = WindowUsage]
          /\ Goto(c, "enter")
          /\ UNCHANGED result
       \/ /\ \/ Return(c, "ai_provider_selection_failed")
             \/ Return(c, "ai_audit_store_failed")
          /\ UNCHANGED used
    /\ UNCHANGED <<shared, req, flags, queue, attempts, reply,
                   made, before>>

\* check_request_state: the reason the gateway gives up with, or None.
RequestState(c) ==
    IF cancelled[c] THEN "ai_request_cancelled"
    ELSE IF expired[c] THEN "ai_deadline_exceeded" ELSE None

Enter(c) ==
    /\ pc[c] = "enter"
    /\ LET q == req[c]
           refusal ==
             IF ~ValidRequest(q) THEN "model_request_invalid"
             ELSE IF RequestState(c) # None THEN RequestState(c)
             ELSE IF Select(q.model) = None
             THEN "ai_provider_selection_failed" ELSE None
       IN  IF refusal # None
           THEN Return(c, refusal) /\ UNCHANGED queue
           ELSE /\ queue' = [queue EXCEPT ![c] = Candidates(q.model)]
                /\ Goto(c, "check")
                /\ UNCHANGED result
    /\ UNCHANGED <<shared, req, flags, used, attempts, reply,
                   made, before>>

Check(c) ==
    /\ pc[c] = "check"
    /\ IF RequestState(c) # None
       THEN Return(c, RequestState(c))
       ELSE Goto(c, "send") /\ UNCHANGED result
    /\ UNCHANGED <<shared, req, flags, used, queue, attempts,
                   reply, made, before>>

Send(c) ==
    /\ pc[c] = "send"
    /\ LET s == Head(queue[c])
           bound == Refusal(req[c], s.model, used[c])
       IN  IF ~EgressAllowed(req[c], s.provider)
           THEN Return(c, "policy_denied") /\ UNCHANGED made
           ELSE IF bound # None
           THEN Return(c, bound) /\ UNCHANGED made
           ELSE /\ made' = [made EXCEPT ![c] = Append(@, s.provider)]
                /\ Goto(c, "call")
                /\ UNCHANGED result
    /\ UNCHANGED <<shared, req, flags, used, queue, attempts,
                   reply, before>>

Attempt(c, outcome, usage) ==
    attempts' = [attempts EXCEPT ![c] =
                    Append(@, [provider |-> Head(queue[c]).provider,
                               outcome |-> outcome, usage |-> usage])]

\* Mutant: the gateway waits for an answer it can still use.
ReplyLateAwaited(c) == pc[c] = "call" /\ expired[c] /\ UNCHANGED vars

\* An answer that comes after the deadline is dropped as it is.
ReplyLate(c) ==
    /\ pc[c] = "call"
    /\ expired[c]
    /\ Return(c, "ai_deadline_exceeded")
    /\ UNCHANGED <<shared, req, flags, used, queue, attempts,
                   reply, made, before>>

ReplyAnswer(c, usage) ==
    /\ pc[c] = "call"
    /\ ~expired[c]
    /\ Attempt(c, "answered", usage)
    /\ Return(c, IF cancelled[c] THEN "cancelled" ELSE "complete")
    /\ UNCHANGED <<shared, req, flags, used, queue, reply, made,
                   before>>

MayFailOver(c, reason) ==
    /\ req[c].failover
    /\ reason \in FailoverReason
    /\ Len(queue[c]) > 1

ReplyError(c, reason) ==
    /\ pc[c] = "call"
    /\ ~expired[c]
    /\ Attempt(c, reason, None)
    /\ IF MayFailOver(c, reason)
       THEN /\ queue' = [queue EXCEPT ![c] = Tail(@)]
            /\ Goto(c, "check")
            /\ UNCHANGED result
       ELSE /\ Return(c, CASE reason = "deadline_exceeded" ->
                                  "ai_deadline_exceeded"
                           [] reason = "cancelled" -> "ai_request_cancelled"
                           [] OTHER -> reason)
            /\ UNCHANGED queue
    /\ UNCHANGED <<shared, req, flags, used, reply, made, before>>

\* Whatever the result, the table forgets the request.
Unregister(c) ==
    /\ pc[c] = "unregister"
    /\ tokens' = [tokens EXCEPT ![req[c].id] = None]
    /\ IF result[c] = "ai_audit_store_failed"
       THEN Answer(c, "ai_audit_store_failed")
       ELSE /\ Goto(c, "record")
            /\ UNCHANGED <<flags, used, queue, attempts, result, reply, made>>
    /\ UNCHANGED <<audit, req, before>>

\* Mutant: the record of an identifier is replaced by a later one.
RecordReplaces(c) ==
    /\ pc[c] = "record"
    /\ audit' = [audit EXCEPT ![req[c].id] = [result |-> result[c],
                                             attempts |-> attempts[c]]]
    /\ Answer(c, result[c])
    /\ UNCHANGED <<tokens, req, before>>

\* One transaction inserts the request and its attempts.  It fails on an
\* identifier already recorded, and may fail for the database's own reasons;
\* the caller is then told of the audit, not of what a provider answered.
Record(c) ==
    LET i == req[c].id
    IN  /\ pc[c] = "record"
        /\ \/ /\ audit[i] = None
              /\ audit' = [audit EXCEPT ![i] = [result |-> result[c],
                                                attempts |-> attempts[c]]]
              /\ Answer(c, result[c])
           \/ /\ Answer(c, "ai_audit_store_failed")
              /\ UNCHANGED audit
        /\ UNCHANGED <<tokens, req, before>>

-----------------------------------------------------------------------------
(* What happens around the calls. *)

\* The deadline is set once the window usage is known.
Expire(c) ==
    /\ pc[c] \in InGateway
    /\ ~expired[c]
    /\ expired' = [expired EXCEPT ![c] = TRUE]
    /\ UNCHANGED <<shared, pc, req, cancelled, used, queue, attempts, result,
                   reply, made, before>>

\* ai_cancel finds the token in the table and sets its flag.
Cancel(i) ==
    /\ tokens[i] # None
    /\ cancelled' = [cancelled EXCEPT ![tokens[i]] = TRUE]
    /\ UNCHANGED <<shared, pc, req, expired, used, queue, attempts, result,
                   reply, made, before>>

Restart ==
    LET lost == {c \in Calls : pc[c] \notin {"idle", "done"}}
    IN  /\ lost # {}
        /\ AnswerAll(lost, LAMBDA c : "lost")
        /\ tokens' = [i \in RequestIds |-> None]
        /\ UNCHANGED <<audit, req, before>>

Step(c) ==
    \/ ReadWindow(c) \/ Enter(c) \/ Check(c) \/ Send(c)
    \/ ReplyLate(c)
    \/ \E u \in Usages : ReplyAnswer(c, u)
    \/ \E r \in Errors : ReplyError(c, r)
    \/ Unregister(c) \/ Record(c)

Next ==
    \/ \E c \in Calls, q \in Requests : Complete(c, q)
    \/ \E c \in Calls : Step(c) \/ Expire(c)
    \/ \E i \in RequestIds : Cancel(i)
    \/ Restart

\* A call is a thread the scheduler keeps running, and its adapter gives up
\* at the deadline it was handed.
Fairness == \A c \in Calls : WF_vars(Step(c))

Spec == Init /\ [][Next]_vars /\ Fairness

-----------------------------------------------------------------------------
(* Properties. *)

AttemptRecords ==
    [provider : Providers, outcome : {"answered"} \cup ProviderErrorReason,
     usage : ModelUsage \cup {None}]
AuditRecords == [result : Codes, attempts : Seq(AttemptRecords)]

ASSUME RecordAssumption == None \notin AuditRecords

TypeOK ==
    /\ tokens \in [RequestIds -> Calls \cup {None}]
    /\ audit \in [RequestIds -> AuditRecords \cup {None}]
    /\ pc \in [Calls -> Phases]
    /\ req \in [Calls -> Requests \cup {None}]
    /\ cancelled \in [Calls -> BOOLEAN]
    /\ expired \in [Calls -> BOOLEAN]
    /\ used \in [Calls -> ModelUsage]
    /\ attempts \in [Calls -> Seq(AttemptRecords)]
    /\ made \in [Calls -> Seq(Providers)]
    /\ before \in [Calls -> SUBSET RequestIds]

Running(i) == {c \in Calls : pc[c] \in InFlight /\ req[c].id = i}

\* ai_complete's refusal of a request in flight: whatever calls are made with
\* one identifier, at most one of them runs, and the table holds a token for
\* exactly the identifiers of running calls, so that none is left behind and
\* none is freed early, although a refused call's token replaces the other's.
OneRunning ==
    \A i \in RequestIds :
        /\ \A c, d \in Running(i) : c = d
        /\ tokens[i] = None <=> Running(i) = {}

\* Gateway::complete's failover: a request is sent to no provider twice, to a
\* second one only with the caller's permission and after a failure that
\* allows it, and what is recorded of the earlier attempts is what happened.
FailoverPermitted ==
    \A c \in Calls :
        /\ \A m, n \in DOMAIN made[c] : m # n => made[c][m] # made[c][n]
        /\ Len(made[c]) > 1 => req[c].failover
        /\ \A n \in 1 .. Len(made[c]) - 1 :
              /\ attempts[c][n].provider = made[c][n]
              /\ attempts[c][n].outcome \in FailoverReason

OutputOf(i) == Last(audit[i].attempts).usage.output

\* The window budget read back from the audit: what a call may still produce
\* is counted together with every answer its caller could have seen before
\* it, however calls overlap and even across a restart.  Calls that overlap
\* are not counted for one another.
AnsweredIsCounted ==
    \A c \in Calls :
        made[c] # <<>> /\ Window.output # None =>
            SumFunction([i \in before[c] |-> OutputOf(i)])
                + req[c].budget.output <= Window.output

\* The records of requests a provider answered.
AnsweredRecords ==
    {r \in AuditRecords : /\ r.result \in Finished
                          /\ r.attempts # <<>>
                          /\ Last(r.attempts).outcome = "answered"}

Standing(c) ==
    CASE pc[c] = "idle" -> "new"
      [] pc[c] = "done" -> IF reply[c] \in Finished THEN "ok"
                           ELSE IF reply[c] = "lost" THEN "lost" ELSE "error"
      [] OTHER -> "open"

\* The audit's promise, see AiAudit.
Audit ==
    INSTANCE AiAudit WITH
        Ids <- RequestIds,
        Records <- AuditRecords,
        Contents <- AnsweredRecords,
        Unrecorded <- None,
        ledger <- audit,
        call <- [c \in Calls |-> Standing(c)]

\* AiRequests implements AiAudit: records are written once, and before the
\* content they account for is handed out.
AuditKept == Audit!Spec

\* Every admitted ai_complete is answered: no failure of a provider, of the
\* audit store or of another call of the same identifier leaves it open.
CallsAnswered == Audit!Answered
=============================================================================
