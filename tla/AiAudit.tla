------------------------------ MODULE AiAudit ------------------------------
(***************************************************************************)
(* What the AI commands promise of their audit, whatever happens inside:   *)
(* a request identifier is recorded once and its record never changes; a   *)
(* call is given content only by the step that records it; and a call that *)
(* was admitted is answered, unless the application stops under it.        *)
(***************************************************************************)
CONSTANTS Calls, Ids, Records, Contents, Unrecorded

\* Contents are the records of requests a provider answered, and Unrecorded
\* is no record.

VARIABLES call, ledger

vars == <<call, ledger>>

Init ==
    /\ call = [c \in Calls |-> "new"]
    /\ ledger = [i \in Ids |-> Unrecorded]

Open(c) ==
    /\ call[c] = "new"
    /\ call' = [call EXCEPT ![c] = "open"]
    /\ UNCHANGED ledger

\* An answer without a record: a refused call, or an audit that failed.
Reject(c) ==
    /\ call[c] \in {"new", "open"}
    /\ call' = [call EXCEPT ![c] = "error"]
    /\ UNCHANGED ledger

\* An answer with a record.  Only a record of content gives content.
Settle(c, i) ==
    /\ call[c] = "open"
    /\ ledger[i] = Unrecorded
    /\ ledger'[i] \in Records
    /\ ledger' = [ledger EXCEPT ![i] = ledger'[i]]
    /\ \/ call' = [call EXCEPT ![c] = "error"]
       \/ ledger'[i] \in Contents /\ call' = [call EXCEPT ![c] = "ok"]

Stop ==
    /\ call' = [c \in Calls |-> IF call[c] = "open" THEN "lost" ELSE call[c]]
    /\ UNCHANGED ledger

Next ==
    \/ \E c \in Calls : Open(c) \/ Reject(c)
    \/ \E c \in Calls, i \in Ids : Settle(c, i)
    \/ Stop

Answered == \A c \in Calls : call[c] = "open" ~> call[c] \notin {"new", "open"}

Spec == Init /\ [][Next]_vars
=============================================================================
