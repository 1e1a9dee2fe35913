------------------------ MODULE ConfigurationProofs ------------------------
(***************************************************************************)
(* However commands overlap, fail and are cut off by restarts, no          *)
(* connector refers to a credential that is not there and no credential is *)
(* left behind unnoticed, the fallback order stays usable, and the health  *)
(* a connector shows is on record: for any sets of calls, connectors,      *)
(* commands and providers.                                                 *)
(***************************************************************************)
EXTENDS Configuration, SequenceTheorems, FiniteSetTheorems, WellFoundedInduction, TLAPS

-----------------------------------------------------------------------------
(* The inductive invariant. *)

DataType ==
    /\ rows \in [Ids -> ConnectorRows \cup {None}]
    /\ found \in [Calls -> [outcome : Outcomes \cup {"healthy", "unavailable"},
                            checked : Nat]]
    /\ clock \in Nat

CallType ==
    /\ pc = [c \in Calls |-> pc[c]]
    /\ cmd = [c \in Calls |-> cmd[c]]
    /\ reply = [c \in Calls |-> reply[c]]

\* The command a call in a phase serves.
Adding == {"set", "insert", "undo"}
Removing == {"read", "delete", "delete_row", "forget"}
OnConnector == {"enable", "load", "attempt", "probe", "update", "log", "trim"}

Serves(phase, q) ==
    /\ phase \in Adding => /\ q.op = "add" /\ q.credential \in BOOLEAN
                           /\ q.kind \in {"fixture", "remote"}
                           /\ phase \in {"set", "undo"} => q.credential
    /\ phase \in Removing => q.op = "remove"
    /\ q.op = "remove" => q.id \in Ids /\ phase \in Removing \cup {"done"}
    /\ phase \in OnConnector => q.id \in Ids

ServesInv ==
    \A c \in Calls : /\ pc[c] # "idle" => Serves(pc[c], cmd[c])
                     /\ reply[c] = "ok" => pc[c] = "done"

\* A call whose connector is not decided yet, if it adds one.
Unborn == {c \in Calls : pc[c] \in {"idle"} \cup Adding}

HasSecret(i) == Held(i) \in secrets

\* Before its row is written a connector has a secret from set to insert.
UnbornInv ==
    \A c \in Unborn :
        /\ rows[c] = None
        /\ pc[c] \in {"idle", "set"} => ~HasSecret(c)
        /\ pc[c] = "insert" => (HasSecret(c) <=> cmd[c].credential)

\* A row without a credential has none.
RowInv ==
    \A i \in Ids : rows[i] # None => (HasSecret(i) <=> rows[i].credential)

\* A removal under way concerns a connector that will not come back.
RemovalInv ==
    \A c \in Calls :
        pc[c] \in {"delete", "delete_row", "forget"} =>
            /\ cmd[c].id \notin Unborn
            /\ pc[c] = "delete_row" => ~HasSecret(cmd[c].id)
            /\ pc[c] = "forget" => rows[cmd[c].id] = None

OwnedInv ==
    \A i \in Ids :
        HasSecret(i) => rows[i] # None \/ Unfinished(i) \/ Held(i) \in undone

RemovedInv ==
    \A c \in Calls :
        reply[c] = "ok" /\ cmd[c].op = "remove" =>
            /\ cmd[c].id \notin Unborn
            /\ rows[cmd[c].id] = None /\ ~HasSecret(cmd[c].id)

CredentialInv ==
    /\ DataType /\ CallType /\ ServesInv /\ UnbornInv /\ RowInv
    /\ RemovalInv /\ OwnedInv /\ RemovedInv

-----------------------------------------------------------------------------
(* The steps that concern no credential and no row's existence. *)

\* Such a step moves a call along, or ends it.
Proceeds(c) ==
    \E phase : /\ phase \notin {"idle", "delete", "delete_row", "forget"} \cup Adding
               /\ Goto(c, phase) /\ Serves(phase, cmd[c])

Ends(c) == \E code : Answer(c, code) /\ (code = "ok" => cmd[c].op # "remove")

Quiet(c) ==
    /\ pc[c] \notin {"idle", "done", "forget"} \cup Adding
    /\ Proceeds(c) \/ Ends(c)
    /\ DataType'
    /\ \A i \in Ids : HasSecret(i)' <=> HasSecret(i)
    /\ \A i \in Ids : /\ rows'[i] = None <=> rows[i] = None
                      /\ rows[i] # None => rows'[i].credential = rows[i].credential
    /\ undone \subseteq undone'

\* References of connectors and of providers differ.
LEMMA References ==
    /\ \A i, j : Held(i) = Held(j) <=> i = j
    /\ \A i, p : Held(i) # Slot(p)
BY DEF Held, Slot, Reference

\* A quiet step keeps what is known of credentials.
LEMMA QuietKeeps ==
    ASSUME CredentialInv, NEW c \in Calls, Quiet(c)
    PROVE  CredentialInv'
<1> USE DEF CredentialInv
<1>1. PICK phase :
          /\ phase \notin {"idle", "delete", "delete_row", "forget"} \cup Adding
          /\ pc' = [pc EXCEPT ![c] = phase] /\ cmd' = cmd
          /\ Serves(phase, cmd[c])
          /\ reply' = reply \/ (phase = "done" /\ Ends(c))
  <2>1. CASE Proceeds(c)
    <3>1. PICK phase :
              /\ phase \notin {"idle", "delete", "delete_row", "forget"} \cup Adding
              /\ Goto(c, phase) /\ Serves(phase, cmd[c])
      BY <2>1 DEF Proceeds
    <3>2. pc' = [pc EXCEPT ![c] = phase] /\ cmd' = cmd /\ reply' = reply
      BY <3>1 DEF Goto
    <3> QED BY <3>1, <3>2
  <2>2. CASE Ends(c)
    <3>1. Serves("done", cmd[c])
      BY DEF Serves, ServesInv, Quiet, Adding, Removing, OnConnector
    <3>2. pc' = [pc EXCEPT ![c] = "done"] /\ cmd' = cmd
      BY <2>2 DEF Ends, Answer
    <3>3. "done" \notin {"idle", "delete", "delete_row", "forget"} \cup Adding
      BY DEF Adding
    <3> HIDE DEF CredentialInv
    <3> QED BY <2>2, <3>1, <3>2, <3>3, Zenon
  <2> QED BY <2>1, <2>2 DEF Quiet
<1>2. /\ pc[c] \notin {"idle", "done", "forget"} \cup Adding
      /\ \A d \in Calls : d # c => pc'[d] = pc[d] /\ reply'[d] = reply[d]
      /\ pc'[c] = phase
      /\ reply'[c] = "ok" => phase = "done" /\ cmd[c].op # "remove"
      /\ reply' = [d \in Calls |-> reply'[d]]
  BY <1>1 DEF Quiet, CallType, ServesInv, Ends, Answer
<1>3. CallType'
  BY <1>1, <1>2 DEF CallType
<1>4. ServesInv'
  BY <1>1, <1>2 DEF ServesInv, CallType
<1>5. Unborn' = Unborn
  BY <1>1, <1>2 DEF Unborn, Adding
<1>6. /\ \A i \in Ids : HasSecret(i)' <=> HasSecret(i)
      /\ \A i \in Ids : /\ rows'[i] = None <=> rows[i] = None
                        /\ rows[i] # None => rows'[i].credential = rows[i].credential
      /\ undone \subseteq undone'
  BY DEF Quiet
<1>7. UnbornInv'
  <2>1. \A d \in Unborn : d # c /\ d \in Ids
    BY <1>2 DEF Unborn, Adding, Ids
  <2> QED BY <1>1, <1>2, <1>5, <1>6, <2>1 DEF UnbornInv
<1>8. RowInv'
  BY <1>6 DEF RowInv
<1>9. ASSUME NEW d \in Calls, pc'[d] \in {"delete", "delete_row", "forget"}
      PROVE  d # c /\ cmd[d].id \in Ids
  <2>1. d # c
    BY <1>1, <1>2, <1>9
  <2>2. Serves(pc[d], cmd[d])
    BY <1>2, <1>9, <2>1 DEF ServesInv
  <2> QED BY <1>2, <1>9, <2>1, <2>2 DEF Serves, Removing
<1>10. RemovalInv'
  BY <1>1, <1>2, <1>5, <1>6, <1>9 DEF RemovalInv
<1>11. OwnedInv'
  <2>1. \A i : Unfinished(i) => Unfinished(i)'
    BY <1>1, <1>2 DEF Unfinished, Adding
  <2> QED BY <1>6, <2>1 DEF OwnedInv
<1>12. RemovedInv'
  <2>1. ASSUME NEW d \in Calls, reply'[d] = "ok", cmd[d].op = "remove"
        PROVE  d # c /\ cmd[d].id \in Ids /\ reply[d] = "ok"
    <3>1. d # c /\ reply[d] = "ok"
      BY <1>2, <2>1
    <3>2. pc[d] = "done"
      BY <3>1 DEF ServesInv
    <3>3. Serves("done", cmd[d])
      BY <3>2 DEF ServesInv
    <3> QED BY <2>1, <3>1, <3>3 DEF Serves
  <2> QED BY <1>1, <1>5, <1>6, <2>1 DEF RemovedInv
<1>13. DataType'
  BY DEF Quiet
<1> QED BY <1>3, <1>4, <1>7, <1>8, <1>10, <1>11, <1>12, <1>13

\* What a step of a call that neither adds nor removes has to show.
Moves(c) ==
    \/ \E phase : /\ phase \notin {"idle"} \cup Adding \cup Removing
                  /\ phase \in OnConnector => pc[c] \in OnConnector
                  /\ Goto(c, phase)
    \/ \E code : Answer(c, code)

SecretsStay == \A i \in Ids : HasSecret(i)' <=> HasSecret(i)

RowsStay ==
    \A i \in Ids : /\ rows'[i] = None <=> rows[i] = None
                   /\ rows[i] # None => rows'[i].credential = rows[i].credential

\* Such a move is quiet where secrets and rows stay.
LEMMA MoveIsQuiet ==
    ASSUME CredentialInv, NEW c \in Calls,
           pc[c] \notin {"idle", "done"} \cup Adding \cup Removing,
           Moves(c), DataType', SecretsStay, RowsStay, undone \subseteq undone'
    PROVE  Quiet(c)
<1>1. Serves(pc[c], cmd[c])
  BY DEF CredentialInv, ServesInv
<1>2. cmd[c].op # "remove" /\ (pc[c] \in OnConnector => cmd[c].id \in Ids)
  BY <1>1 DEF Serves
<1>3. CASE \E code : Answer(c, code)
  <2>1. Ends(c)
    BY <1>2, <1>3 DEF Ends
  <2> QED BY <2>1 DEF Quiet, SecretsStay, RowsStay, Removing, Adding
<1>4. CASE \E phase : /\ phase \notin {"idle"} \cup Adding \cup Removing
                      /\ phase \in OnConnector => pc[c] \in OnConnector
                      /\ Goto(c, phase)
  <2>1. PICK phase : /\ phase \notin {"idle"} \cup Adding \cup Removing
                     /\ phase \in OnConnector => pc[c] \in OnConnector
                     /\ Goto(c, phase)
    BY <1>4
  <2>2. Serves(phase, cmd[c])
    BY <1>2, <2>1 DEF Serves
  <2>3. Proceeds(c)
    BY <2>1, <2>2 DEF Proceeds, Removing
  <2> QED BY <2>3 DEF Quiet, SecretsStay, RowsStay, Removing, Adding
<1> QED BY <1>3, <1>4 DEF Moves

\* Which of Goto and Answer are such moves.
LEMMA MovesBy ==
    ASSUME NEW c
    PROVE  /\ \A code : Answer(c, code) => Moves(c)
           /\ \A phase \in {"get", "read_secret", "ask", "probing"} :
                 Goto(c, phase) => Moves(c)
           /\ pc[c] \in OnConnector =>
                 \A phase \in {"attempt", "probe", "update", "log", "trim"} :
                    Goto(c, phase) => Moves(c)
<1>1. /\ \A phase \in {"get", "read_secret", "ask", "probing"} :
            /\ phase \notin {"idle"} \cup Adding \cup Removing
            /\ phase \notin OnConnector
      /\ \A phase \in {"attempt", "probe", "update", "log", "trim"} :
            phase \notin {"idle"} \cup Adding \cup Removing
  BY DEF Adding, Removing, OnConnector
<1>2. ASSUME NEW phase, phase \notin {"idle"} \cup Adding \cup Removing,
             phase \in OnConnector => pc[c] \in OnConnector, Goto(c, phase)
      PROVE  Moves(c)
  BY <1>2, Zenon DEF Moves
<1>3. ASSUME NEW code, Answer(c, code) PROVE Moves(c)
  BY <1>3, Zenon DEF Moves
<1> QED BY <1>1, <1>2, <1>3

\* The steps that read the database, the keychain or a remote system, and
\* those that write what no credential hangs on, move their call.
LEMMA StepsMove ==
    ASSUME NEW c \in Calls
    PROVE  /\ Get(c) => Moves(c)
           /\ ReadFails(c) => Moves(c)
           /\ Ask(c) => Moves(c)
           /\ TestLoad(c) => Moves(c)
           /\ TestTrim(c) => Moves(c)
           /\ TestInsert(c) => Moves(c)
           /\ TestUpdate(c) => Moves(c)
           /\ TestProbe(c) => Moves(c)
           /\ TestAttempt(c) /\ CallType => Moves(c)
           /\ SetEnabled(c) => Moves(c)
           /\ ReadConnector(c) => Moves(c)
           /\ ReadSecret(c) => Moves(c)
           /\ Configure(c) => Moves(c)
           /\ SetProviderOrder(c) => Moves(c)
           /\ ProbeLoad(c) => Moves(c)
           /\ ProbeReply(c) => Moves(c)
           /\ RemoveProvider(c) => Moves(c)
<1>1. /\ \A code : Answer(c, code) => Moves(c)
      /\ \A phase \in {"get", "read_secret", "ask", "probing"} : Goto(c, phase) => Moves(c)
      /\ pc[c] \in OnConnector =>
            \A phase \in {"attempt", "probe", "update", "log", "trim"} :
                Goto(c, phase) => Moves(c)
  BY MovesBy
<1>2. \A code : AnswerRead(c, code) => Moves(c)
  BY <1>1 DEF AnswerRead
<1>3. ASSUME pc[c] \in {"load", "attempt", "probe", "update", "log"}
      PROVE  pc[c] \in OnConnector
  BY <1>3 DEF OnConnector
<1>4. Get(c) => Moves(c)
  BY <1>1 DEF Get
<1>5. ReadFails(c) => Moves(c)
  BY <1>2 DEF ReadFails
<1>6. Ask(c) => Moves(c)
  BY <1>2 DEF Ask
<1>7. TestLoad(c) => Moves(c)
  BY <1>1, <1>3 DEF TestLoad, At
<1>8. TestTrim(c) => Moves(c)
  BY <1>1 DEF TestTrim
<1>9. TestInsert(c) => Moves(c)
  BY <1>1, <1>3 DEF TestInsert, At
<1>10. TestUpdate(c) => Moves(c)
  BY <1>1, <1>3 DEF TestUpdate, At
<1>11. TestProbe(c) => Moves(c)
  BY <1>1, <1>3 DEF TestProbe, Finding, At
<1>12. TestAttempt(c) /\ CallType => Moves(c)
  <2> SUFFICES ASSUME TestAttempt(c), CallType PROVE Moves(c)
    OBVIOUS
  <2>1. pc[c] = "attempt" /\ pc[c] \in OnConnector
    BY <1>3 DEF TestAttempt, At
  <2>2. CASE UNCHANGED calls
    <3>1. Goto(c, "attempt")
      BY <2>1, <2>2 DEF calls, Goto, CallType
    <3> QED BY <1>1, <2>1, <3>1
  <2>3. CASE \E o : Finding(c, o)
    <3>1. Goto(c, "update")
      BY <2>3 DEF Finding
    <3> QED BY <1>1, <2>1, <3>1
  <2> QED BY <2>2, <2>3 DEF TestAttempt
<1>13. SetEnabled(c) => Moves(c)
  BY <1>1 DEF SetEnabled
<1>14. ReadConnector(c) => Moves(c)
  BY <1>1, <1>2 DEF ReadConnector
<1>15. ReadSecret(c) => Moves(c)
  BY <1>1, <1>2 DEF ReadSecret
<1>16. Configure(c) => Moves(c)
  BY <1>1 DEF Configure
<1>17. SetProviderOrder(c) => Moves(c)
  BY <1>1 DEF SetProviderOrder
<1>18. ProbeLoad(c) => Moves(c)
  BY <1>1 DEF ProbeLoad
<1>19. ProbeReply(c) => Moves(c)
  BY <1>1 DEF ProbeReply
<1>20. RemoveProvider(c) => Moves(c)
  BY <1>1 DEF RemoveProvider, Forget
<1> QED BY <1>4, <1>5, <1>6, <1>7, <1>8, <1>9, <1>10, <1>11, <1>12, <1>13, <1>14,
           <1>15, <1>16, <1>17, <1>18, <1>19, <1>20

\* Enabling or disabling a row leaves it a row, with its credential.
LEMMA EnabledRow ==
    ASSUME NEW row \in ConnectorRows, NEW on \in BOOLEAN
    PROVE  /\ [row EXCEPT !.enabled = on] \in ConnectorRows
           /\ [row EXCEPT !.enabled = on].credential = row.credential
BY DEF ConnectorRows

\* So does recording a test's finding.
LEMMA TestedRow ==
    ASSUME NEW row \in ConnectorRows,
           NEW finding \in [outcome : Outcomes \cup {"healthy", "unavailable"}, checked : Nat]
    PROVE  /\ [row EXCEPT !.health = finding.outcome, !.checked = finding.checked]
                 \in ConnectorRows
           /\ [row EXCEPT !.health = finding.outcome, !.checked = finding.checked].credential
                 = row.credential
BY DEF ConnectorRows

\* One row is written, and stays a row with its credential.
LEMMA RowWritten ==
    ASSUME DataType, NEW i \in Ids, rows[i] # None, NEW row \in ConnectorRows,
           row.credential = rows[i].credential, rows' = [rows EXCEPT ![i] = row]
    PROVE  rows' \in [Ids -> ConnectorRows \cup {None}] /\ RowsStay
BY NamesAssumption DEF DataType, RowsStay

\* The steps of tests, of reads and of providers are quiet.
LEMMA CallsAreQuiet ==
    ASSUME CredentialInv, NEW c \in Calls
    PROVE  /\ Get(c) => Quiet(c)
           /\ SetEnabled(c) => Quiet(c)
           /\ TestLoad(c) => Quiet(c)
           /\ TestAttempt(c) => Quiet(c)
           /\ TestProbe(c) => Quiet(c)
           /\ TestUpdate(c) => Quiet(c)
           /\ TestInsert(c) => Quiet(c)
           /\ TestTrim(c) => Quiet(c)
           /\ ReadConnector(c) => Quiet(c)
           /\ ReadSecret(c) => Quiet(c)
           /\ Ask(c) => Quiet(c)
           /\ ReadFails(c) => Quiet(c)
           /\ ProviderStep(c) /\ UNCHANGED connectorVars => Quiet(c)
<1> USE DEF CredentialInv
<1>1. DataType /\ CallType
  OBVIOUS
<1>2. ASSUME pc[c] \in {"get", "enable", "load", "attempt", "probe", "update", "log", "trim",
                        "read_connector", "read_secret", "ask", "configure", "order",
                        "probe_provider", "probing", "remove_provider"},
             Moves(c), DataType', SecretsStay, RowsStay, undone \subseteq undone'
      PROVE  Quiet(c)
  <2>1. pc[c] \notin {"idle", "done"} \cup Adding \cup Removing
    BY <1>2 DEF Adding, Removing
  <2> QED BY <1>2, <2>1, MoveIsQuiet
<1>3. ASSUME UNCHANGED <<rows, found, clock, secrets, undone>>
      PROVE  DataType' /\ SecretsStay /\ RowsStay /\ undone \subseteq undone'
  BY <1>1, <1>3 DEF DataType, SecretsStay, RowsStay, HasSecret
<1>4. ASSUME UNCHANGED rows PROVE RowsStay
  BY <1>4 DEF RowsStay
<1>5. ASSUME UNCHANGED secrets PROVE SecretsStay
  BY <1>5 DEF SecretsStay, HasSecret
<1>6. Get(c) => Quiet(c)
  BY <1>2, <1>3, StepsMove DEF Get, At, connectorVars
<1>7. TestLoad(c) => Quiet(c)
  BY <1>2, <1>3, StepsMove DEF TestLoad, At, connectorVars
<1>8. TestInsert(c) => Quiet(c)
  BY <1>2, <1>3, StepsMove DEF TestInsert, At
<1>9. TestTrim(c) => Quiet(c)
  BY <1>2, <1>3, StepsMove DEF TestTrim, At
<1>10. ReadConnector(c) => Quiet(c)
  BY <1>2, <1>3, StepsMove DEF ReadConnector, At, connectorVars
<1>11. ReadSecret(c) => Quiet(c)
  BY <1>2, <1>3, StepsMove DEF ReadSecret, At, connectorVars
<1>12. Ask(c) => Quiet(c)
  BY <1>2, <1>3, StepsMove DEF Ask, At, connectorVars
<1>13. ReadFails(c) => Quiet(c)
  BY <1>2, <1>3, StepsMove DEF ReadFails, At, connectorVars
<1>14. ASSUME NEW o \in Outcomes \cup {"healthy", "unavailable"}, Finding(c, o), UNCHANGED rows
       PROVE  DataType'
  BY <1>1, <1>14 DEF DataType, Finding
<1>15. TestAttempt(c) => Quiet(c)
  <2> SUFFICES ASSUME TestAttempt(c) PROVE Quiet(c)
    OBVIOUS
  <2>1. UNCHANGED <<rows, secrets, undone>> /\ pc[c] = "attempt"
    BY DEF TestAttempt, At
  <2>2. DataType'
    <3>1. CASE UNCHANGED <<clock, found>>
      BY <1>1, <2>1, <3>1 DEF DataType
    <3>2. CASE ~UNCHANGED <<clock, found>>
      <4>1. \E o \in Outcomes \cup {"unavailable"} : Finding(c, o)
        BY <3>2 DEF TestAttempt
      <4> QED BY <1>14, <2>1, <4>1
    <3> QED BY <3>1, <3>2
  <2>3. Moves(c)
    BY <1>1, StepsMove
  <2> QED BY <1>2, <1>4, <1>5, <2>1, <2>2, <2>3
<1>16. TestProbe(c) => Quiet(c)
  <2> SUFFICES ASSUME TestProbe(c) PROVE Quiet(c)
    OBVIOUS
  <2>1. UNCHANGED <<rows, secrets, undone>> /\ pc[c] = "probe"
    BY DEF TestProbe, At
  <2>2. DataType'
    BY <1>14, <2>1 DEF TestProbe
  <2>3. Moves(c)
    BY StepsMove
  <2> QED BY <1>2, <1>4, <1>5, <2>1, <2>2, <2>3
<1>17. ASSUME pc[c] \in {"enable", "update"} PROVE cmd[c].id \in Ids
  BY <1>17 DEF ServesInv, Serves, OnConnector
<1>18. TestUpdate(c) => Quiet(c)
  <2> SUFFICES ASSUME TestUpdate(c) PROVE Quiet(c)
    OBVIOUS
  <2> DEFINE i == cmd[c].id
  <2>1. UNCHANGED <<found, clock, secrets, undone>> /\ pc[c] = "update"
    BY DEF TestUpdate, At
  <2>2. rows' \in [Ids -> ConnectorRows \cup {None}] /\ RowsStay
    <3>1. CASE rows[i] = None
      BY <1>1, <3>1 DEF TestUpdate, RowsStay, DataType
    <3>2. CASE rows[i] # None
      <4>1. i \in Ids /\ rows[i] \in ConnectorRows
        BY <1>1, <1>17, <2>1, <3>2 DEF DataType
      <4> DEFINE row == [rows[i] EXCEPT !.health = found[c].outcome,
                                        !.checked = found[c].checked]
      <4>2. row \in ConnectorRows /\ row.credential = rows[i].credential
        BY <1>1, <4>1, TestedRow DEF DataType
      <4>3. rows' = [rows EXCEPT ![i] = row]
        BY <3>2 DEF TestUpdate
      <4> HIDE DEF row, i
      <4> QED BY <1>1, <3>2, <4>1, <4>2, <4>3, RowWritten
    <3> QED BY <3>1, <3>2
  <2>3. DataType'
    BY <1>1, <2>1, <2>2 DEF DataType
  <2>4. Moves(c)
    BY StepsMove
  <2> QED BY <1>2, <1>5, <2>1, <2>2, <2>3, <2>4
<1>19. SetEnabled(c) => Quiet(c)
  <2> SUFFICES ASSUME SetEnabled(c) PROVE Quiet(c)
    OBVIOUS
  <2> DEFINE i == cmd[c].id
  <2>1. UNCHANGED <<found, clock, secrets, undone>> /\ pc[c] = "enable"
    BY DEF SetEnabled, At
  <2>2. rows' \in [Ids -> ConnectorRows \cup {None}] /\ RowsStay
    <3>1. CASE rows[i] = None
      BY <1>1, <3>1 DEF SetEnabled, RowsStay, DataType
    <3>2. CASE rows[i] # None
      <4>1. i \in Ids /\ rows[i] \in ConnectorRows
        BY <1>1, <1>17, <2>1, <3>2 DEF DataType
      <4> DEFINE on == cmd[c].op = "enable"
                 row == [rows[i] EXCEPT !.enabled = on]
      <4>3. rows' = [rows EXCEPT ![i] = row]
        BY <3>2 DEF SetEnabled
      <4>4. on \in BOOLEAN
        OBVIOUS
      <4> HIDE DEF on
      <4>2. row \in ConnectorRows /\ row.credential = rows[i].credential
        BY <4>1, <4>4, EnabledRow, Zenon
      <4> HIDE DEF row, i
      <4> QED BY <1>1, <3>2, <4>1, <4>2, <4>3, RowWritten
    <3> QED BY <3>1, <3>2
  <2>3. DataType'
    BY <1>1, <2>1, <2>2 DEF DataType
  <2>4. Moves(c)
    BY StepsMove
  <2> QED BY <1>2, <1>5, <2>1, <2>2, <2>3, <2>4
<1>20. ProviderStep(c) /\ UNCHANGED connectorVars => Quiet(c)
  <2> SUFFICES ASSUME ProviderStep(c), UNCHANGED connectorVars PROVE Quiet(c)
    OBVIOUS
  <2>1. UNCHANGED <<rows, found, clock>>
    BY DEF connectorVars
  <2>2. DataType' /\ RowsStay
    BY <1>1, <2>1 DEF DataType, RowsStay
  <2>3. Moves(c)
    BY StepsMove DEF ProviderStep
  <2>4. pc[c] \in {"configure", "order", "probe_provider", "probing", "remove_provider"}
    BY DEF ProviderStep, Configure, SetProviderOrder, ProbeLoad, ProbeReply, RemoveProvider, At
  <2>5. undone \subseteq undone'
    BY DEF ProviderStep, Configure, SetProviderOrder, ProbeLoad, ProbeReply, RemoveProvider,
           Forget
  <2>6. \/ secrets' = secrets
        \/ \E p : secrets' = secrets \cup {Slot(p)} \/ secrets' = secrets \ {Slot(p)}
    BY DEF ProviderStep, Configure, SetProviderOrder, ProbeLoad, ProbeReply, RemoveProvider,
           Forget
  <2>7. SecretsStay
    BY <2>6, References DEF SecretsStay, HasSecret
  <2> QED BY <1>2, <2>2, <2>3, <2>4, <2>5, <2>7
<1> QED BY <1>6, <1>7, <1>8, <1>9, <1>10, <1>11, <1>12, <1>13, <1>15, <1>16, <1>18, <1>19,
           <1>20

-----------------------------------------------------------------------------
(* Starting a command. *)

\* A call that is admitted begins where its command begins; a call that is
\* refused has done nothing.
LEMMA AdmitKeeps ==
    ASSUME CredentialInv, NEW c \in Calls, NEW q, NEW permitted, NEW phase,
           Admit(c, q, permitted, phase), UNCHANGED <<rows, found, clock>>,
           phase \notin {"idle", "undo", "delete", "delete_row", "forget"},
           Serves(phase, q), q.op = "remove" => q.id \in Ids,
           phase = "insert" => ~q.credential
    PROVE  CredentialInv'
<1> USE DEF CredentialInv
<1>0. pc[c] = "idle" /\ reply[c] # "ok"
  BY DEF Admit, At, ServesInv
<1>1. PICK next :
          /\ next \notin {"idle", "undo", "delete", "delete_row", "forget"}
          /\ Serves(next, q)
          /\ next = "insert" => ~q.credential
          /\ pc' = [pc EXCEPT ![c] = next]
  <2>1. Serves("done", q)
    BY DEF Serves, Adding, Removing, OnConnector
  <2>2. pc' = [pc EXCEPT ![c] = "done"] \/ pc' = [pc EXCEPT ![c] = phase]
    BY DEF Admit
  <2> HIDE DEF CredentialInv
  <2> QED BY <2>1, <2>2
<1>2. /\ pc'[c] = next /\ cmd'[c] = q
      /\ \A d \in Calls : d # c => pc'[d] = pc[d] /\ cmd'[d] = cmd[d] /\ reply'[d] = reply[d]
      /\ reply'[c] # "ok" /\ reply' = [d \in Calls |-> reply'[d]]
      /\ UNCHANGED <<secrets, undone, rows, found, clock>>
  BY <1>0, <1>1 DEF Admit, CallType
<1>3. DataType' /\ CallType'
  <2>1. cmd' = [cmd EXCEPT ![c] = q]
    BY DEF Admit
  <2> QED BY <1>1, <1>2, <2>1 DEF DataType, CallType
<1>4. ServesInv'
  BY <1>1, <1>2 DEF ServesInv
<1>5. Unborn' \subseteq Unborn
  BY <1>0, <1>1, <1>2 DEF Unborn, Adding
<1>6. c \in Unborn /\ rows[c] = None /\ ~HasSecret(c) /\ c \in Ids
  BY <1>0 DEF UnbornInv, Unborn, Ids
<1>7. UnbornInv'
  <2> SUFFICES ASSUME NEW d \in Unborn'
               PROVE  /\ rows'[d] = None
                      /\ pc'[d] \in {"idle", "set"} => ~HasSecret(d)'
                      /\ pc'[d] = "insert" => (HasSecret(d)' <=> cmd'[d].credential)
    BY DEF UnbornInv
  <2>1. d \in Calls /\ d \in Unborn
    BY <1>5 DEF Unborn
  <2>2. HasSecret(d)' <=> HasSecret(d)
    BY <1>2 DEF HasSecret
  <2>3. CASE d = c
    <3>1. rows'[c] = None /\ ~HasSecret(c)'
      BY <1>2, <1>6, <2>2, <2>3
    <3>2. pc'[c] = "insert" => ~cmd'[c].credential
      BY <1>1, <1>2, Zenon
    <3> QED BY <2>3, <3>1, <3>2, Zenon
  <2>4. CASE d # c
    <3>1. pc'[d] = pc[d] /\ cmd'[d] = cmd[d] /\ rows'[d] = rows[d]
      BY <1>2, <2>1, <2>4
    <3>2. /\ rows[d] = None
          /\ pc[d] \in {"idle", "set"} => ~HasSecret(d)
          /\ pc[d] = "insert" => (HasSecret(d) <=> cmd[d].credential)
      BY <2>1 DEF UnbornInv
    <3> QED BY <2>2, <3>1, <3>2, Zenon
  <2> QED BY <2>3, <2>4
<1>8. RowInv'
  BY <1>2 DEF RowInv, HasSecret
<1>9. RemovalInv'
  BY <1>1, <1>2, <1>5 DEF RemovalInv, HasSecret
<1>10. OwnedInv'
  <2>1. \A i : Unfinished(i) => Unfinished(i)'
    BY <1>0, <1>2 DEF Unfinished
  <2> QED BY <1>2, <2>1 DEF OwnedInv, HasSecret
<1>11. RemovedInv'
  BY <1>2, <1>5 DEF RemovedInv, HasSecret
<1> QED BY <1>3, <1>4, <1>7, <1>8, <1>9, <1>10, <1>11

\* Every command starts that way.
LEMMA StartKeeps ==
    ASSUME CredentialInv, NEW c \in Calls,
           \/ \E q \in ConnectorCommands[c] : StartConnector(c, q)
           \/ \E q \in ReadCommands[c] : StartRead(c, q)
           \/ \E q \in ProviderCommands[c] : StartProvider(c, q) /\ UNCHANGED connectorVars
    PROVE  CredentialInv'
<1>1. ASSUME NEW q \in ConnectorCommands[c], StartConnector(c, q) PROVE CredentialInv'
  <2> DEFINE phase == CASE q.op = "add" -> IF q.credential THEN "set" ELSE "insert"
                        [] q.op = "remove" -> "read"
                        [] q.op = "test" -> "load"
                        [] OTHER -> "enable"
             permitted == /\ Permits("Ui")
                          /\ q.op = "test" => Permits("ExternalIntegration")
  <2>1. Admit(c, q, permitted, phase) /\ UNCHANGED <<rows, found, clock>>
    BY <1>1 DEF StartConnector, connectorVars
  <2>2. \/ q.op = "add" /\ q.credential \in BOOLEAN /\ q.kind \in {"fixture", "remote"}
        \/ q.op \in {"remove", "test", "enable", "disable"} /\ q.id \in Ids
    BY CommandsAssumption
  <2>3. /\ phase \notin {"idle", "undo", "delete", "delete_row", "forget"}
        /\ Serves(phase, q)
        /\ q.op = "remove" => q.id \in Ids
        /\ phase = "insert" => ~q.credential
    <3>1. CASE q.op = "add" /\ q.credential /\ q.kind \in {"fixture", "remote"}
      <4>1. phase = "set"
        BY <3>1
      <4> HIDE DEF phase
      <4> QED BY <2>2, <3>1, <4>1 DEF Serves, Adding, Removing, OnConnector
    <3>2. CASE q.op = "add" /\ ~q.credential /\ q.kind \in {"fixture", "remote"}
      <4>1. phase = "insert"
        BY <3>2
      <4> HIDE DEF phase
      <4> QED BY <2>2, <3>2, <4>1 DEF Serves, Adding, Removing, OnConnector
    <3>3. CASE q.op = "remove" /\ q.id \in Ids
      <4>1. phase = "read"
        BY <3>3
      <4> HIDE DEF phase
      <4> QED BY <3>3, <4>1 DEF Serves, Adding, Removing, OnConnector
    <3>4. CASE q.op \in {"test", "enable", "disable"} /\ q.id \in Ids
      <4>1. phase \in {"load", "enable"}
        BY <3>4
      <4> HIDE DEF phase
      <4> QED BY <3>4, <4>1 DEF Serves, Adding, Removing, OnConnector
    <3> HIDE DEF phase
    <3> QED BY <2>2, <3>1, <3>2, <3>3, <3>4
  <2> HIDE DEF phase, permitted
  <2> QED BY <2>1, <2>3, AdmitKeeps
<1>2. ASSUME NEW q \in ReadCommands[c], StartRead(c, q) PROVE CredentialInv'
  <2>1. q.op = "read"
    BY CommandsAssumption
  <2>2. UNCHANGED <<rows, found, clock>>
    BY <1>2 DEF StartRead, connectorVars
  <2>3. Serves("read_connector", q)
    BY <2>1 DEF Serves, Adding, Removing, OnConnector
  <2>4. PICK permitted : Admit(c, q, permitted, "read_connector")
    BY <1>2, Zenon DEF StartRead
  <2> QED BY <2>1, <2>2, <2>3, <2>4, AdmitKeeps
<1>3. ASSUME NEW q \in ProviderCommands[c], StartProvider(c, q), UNCHANGED connectorVars
      PROVE  CredentialInv'
  <2>1. q.op \in {"configure", "order", "probe_provider", "remove_provider"}
    BY CommandsAssumption
  <2>2. UNCHANGED <<rows, found, clock>>
    BY <1>3 DEF connectorVars
  <2>3. Serves(q.op, q)
    BY <2>1 DEF Serves, Adding, Removing, OnConnector
  <2>4. Admit(c, q, TRUE, q.op)
    BY <1>3 DEF StartProvider
  <2> QED BY <2>1, <2>2, <2>3, <2>4, AdmitKeeps
<1> QED BY <1>1, <1>2, <1>3

-----------------------------------------------------------------------------
(* Adding and removing. *)

\* What a step of one call keeps of the calls themselves.
LEMMA CallStep ==
    ASSUME CallType, ServesInv, NEW c \in Calls, pc[c] # "idle", pc[c] # "done",
           NEW next, next # "idle", Serves(next, cmd[c]),
           pc' = [pc EXCEPT ![c] = next], cmd' = cmd,
           reply' = reply \/ (next = "done" /\ \E code : reply' = [reply EXCEPT ![c] = code])
    PROVE  /\ CallType' /\ ServesInv'
           /\ pc'[c] = next
           /\ \A d \in Calls : d # c => pc'[d] = pc[d] /\ reply'[d] = reply[d]
           /\ next # "done" => reply' = reply
           /\ reply[c] # "ok"
<1>1. reply[c] # "ok" /\ next # "done" => reply' = reply
  BY DEF ServesInv
<1>2. /\ pc'[c] = next
      /\ \A d \in Calls : d # c => pc'[d] = pc[d] /\ reply'[d] = reply[d]
      /\ reply' = [d \in Calls |-> reply'[d]]
  BY DEF CallType
<1>3. CallType'
  BY <1>2 DEF CallType
<1>4. ServesInv'
  BY <1>1, <1>2 DEF ServesInv
<1> QED BY <1>1, <1>2, <1>3, <1>4 DEF ServesInv

\* A step that adds: the connector is the call's own, and nobody else's
\* removal concerns it yet.
LEMMA AddingKeeps ==
    ASSUME CredentialInv, NEW c \in Calls, pc[c] \in Adding,
           NEW next \in {"insert", "undo", "get", "done"},
           CallType', ServesInv', DataType', cmd' = cmd,
           pc'[c] = next, reply'[c] # "ok",
           \A d \in Calls : d # c => pc'[d] = pc[d] /\ reply'[d] = reply[d],
           \A i \in Ids : i # c => (HasSecret(i)' <=> HasSecret(i)) /\ rows'[i] = rows[i],
           undone \subseteq undone',
           next \in {"insert", "undo"} => rows'[c] = None,
           next = "insert" => (HasSecret(c)' <=> cmd[c].credential),
           rows'[c] # None => (HasSecret(c)' <=> rows'[c].credential),
           HasSecret(c)' => \/ rows'[c] # None
                            \/ next \in {"insert", "undo"}
                            \/ Held(c) \in undone'
    PROVE  CredentialInv'
<1> USE DEF CredentialInv
<1>1. c \in Unborn /\ c \in Ids /\ Unborn' \subseteq Unborn
  BY DEF Unborn, Adding, Ids
<1>2. \A d \in Unborn : d \in Ids /\ d \in Calls
  BY DEF Unborn, Ids
<1>3. ASSUME NEW d \in Calls, pc'[d] \in {"delete", "delete_row", "forget"} \/ reply'[d] = "ok",
             pc'[d] = "done" => cmd[d].op = "remove"
      PROVE  d # c /\ cmd[d].id \in Ids
  <2>1. d # c
    BY <1>3
  <2>2. pc[d] # "idle" /\ Serves(pc[d], cmd[d])
    BY <1>3, <2>1 DEF ServesInv
  <2> QED BY <1>3, <2>1, <2>2 DEF Serves, Removing, ServesInv
<1>4. UnbornInv'
  <2>1. ASSUME NEW d \in Unborn', d # c
        PROVE  /\ rows'[d] = None
               /\ pc'[d] \in {"idle", "set"} => ~HasSecret(d)'
               /\ pc'[d] = "insert" => (HasSecret(d)' <=> cmd[d].credential)
    BY <1>1, <1>2, <2>1 DEF UnbornInv
  <2>2. c \in Unborn' => /\ rows'[c] = None
                         /\ pc'[c] \in {"idle", "set"} => ~HasSecret(c)'
                         /\ pc'[c] = "insert" => (HasSecret(c)' <=> cmd[c].credential)
    BY DEF Unborn, Adding
  <2> QED BY <2>1, <2>2 DEF UnbornInv
<1>5. RowInv'
  BY DEF RowInv
<1>6. RemovalInv'
  BY <1>1, <1>3 DEF RemovalInv
<1>7. OwnedInv'
  <2>1. \A i \in Ids : i # c /\ Unfinished(i) => Unfinished(i)'
    BY DEF Unfinished, Adding
  <2>2. next \in {"insert", "undo"} => Unfinished(c)'
    BY DEF Unfinished
  <2>3. ASSUME NEW i \in Ids, i # c, HasSecret(i)'
        PROVE  rows'[i] # None \/ Unfinished(i)' \/ Held(i) \in undone'
    BY <2>1, <2>3 DEF OwnedInv
  <2> QED BY <2>2, <2>3 DEF OwnedInv
<1>8. RemovedInv'
  BY <1>1, <1>3 DEF RemovedInv, ServesInv
<1> QED BY <1>4, <1>5, <1>6, <1>7, <1>8

\* A step that removes: the connector was added, and is added but once.
LEMMA RemovingKeeps ==
    ASSUME CredentialInv, NEW c \in Calls, pc[c] \in Removing,
           NEW id, id = cmd[c].id, id \in Ids, id \notin Unborn,
           NEW next \in {"delete", "delete_row", "forget", "done"},
           CallType', ServesInv', DataType', cmd' = cmd, pc'[c] = next,
           \A d \in Calls : d # c => pc'[d] = pc[d] /\ reply'[d] = reply[d],
           \A i \in Ids : i # id => (HasSecret(i)' <=> HasSecret(i)) /\ rows'[i] = rows[i],
           undone \subseteq undone',
           HasSecret(id)' => HasSecret(id),
           rows'[id] # None => rows'[id] = rows[id] /\ (HasSecret(id)' <=> HasSecret(id)),
           next = "delete_row" => ~HasSecret(id)',
           next = "forget" => rows'[id] = None,
           HasSecret(id)' => rows'[id] # None \/ next = "forget" \/ Held(id) \in undone',
           reply'[c] = "ok" => rows'[id] = None /\ ~HasSecret(id)'
    PROVE  CredentialInv'
<1> USE DEF CredentialInv
<1>1. Unborn' = Unborn
  BY DEF Unborn, Adding, Removing
<1>2. \A d \in Unborn : d \in Ids /\ d # id
  BY DEF Unborn, Ids
<1>3. ASSUME NEW d \in Calls, d # c,
             \/ pc'[d] \in {"delete", "delete_row", "forget"}
             \/ reply'[d] = "ok" /\ cmd[d].op = "remove"
      PROVE  cmd[d].id \in Ids
  <2>1. pc[d] # "idle" /\ Serves(pc[d], cmd[d])
    BY <1>3 DEF ServesInv
  <2> QED BY <1>3, <2>1 DEF Serves, Removing
<1>4. UnbornInv'
  <2>1. c \notin Unborn
    BY DEF Unborn, Adding, Removing
  <2>2. ASSUME NEW d \in Unborn
        PROVE  /\ pc'[d] = pc[d] /\ rows'[d] = rows[d]
               /\ HasSecret(d)' <=> HasSecret(d)
    BY <1>2, <2>1, <2>2 DEF Unborn
  <2> QED BY <1>1, <2>2 DEF UnbornInv
<1>5. RowInv'
  BY DEF RowInv
<1>6. RemovalInv'
  <2>1. ASSUME NEW d \in Calls, d # c, pc'[d] \in {"delete", "delete_row", "forget"}
        PROVE  /\ cmd[d].id \notin Unborn
               /\ pc'[d] = "delete_row" => ~HasSecret(cmd[d].id)'
               /\ pc'[d] = "forget" => rows'[cmd[d].id] = None
    <3>1. CASE cmd[d].id = id
      BY <2>1, <3>1 DEF RemovalInv
    <3>2. CASE cmd[d].id # id
      <4>1. cmd[d].id \in Ids
        BY <1>3, <2>1
      <4> QED BY <2>1, <3>2, <4>1 DEF RemovalInv
    <3> QED BY <3>1, <3>2
  <2> QED BY <1>1, <2>1 DEF RemovalInv
<1>7. OwnedInv'
  <2>1. \A i \in Ids : i # id /\ Unfinished(i) => Unfinished(i)'
    BY DEF Unfinished, Removing
  <2>2. next = "forget" => Unfinished(id)'
    BY DEF Unfinished
  <2>3. ASSUME NEW i \in Ids, i # id, HasSecret(i)'
        PROVE  rows'[i] # None \/ Unfinished(i)' \/ Held(i) \in undone'
    BY <2>1, <2>3 DEF OwnedInv
  <2> QED BY <2>2, <2>3 DEF OwnedInv
<1>8. RemovedInv'
  <2>1. ASSUME NEW d \in Calls, d # c, reply'[d] = "ok", cmd[d].op = "remove"
        PROVE  /\ cmd[d].id \notin Unborn
               /\ rows'[cmd[d].id] = None /\ ~HasSecret(cmd[d].id)'
    <3>1. reply[d] = "ok"
      BY <2>1
    <3>2. CASE cmd[d].id = id
      BY <2>1, <3>1, <3>2 DEF RemovedInv
    <3>3. CASE cmd[d].id # id
      <4>1. cmd[d].id \in Ids
        BY <1>3, <2>1
      <4> QED BY <2>1, <3>1, <3>3, <4>1 DEF RemovedInv
    <3> QED BY <3>2, <3>3
  <2> QED BY <1>1, <2>1 DEF RemovedInv
<1> QED BY <1>4, <1>5, <1>6, <1>7, <1>8

\* What Goto and Answer make of the calls, for any phase they may be in.
LEMMA GotoStep ==
    ASSUME CredentialInv, NEW c \in Calls, pc[c] \notin {"idle", "done"},
           NEW next, next \notin {"idle", "done"}, Serves(next, cmd[c]), Goto(c, next)
    PROVE  /\ CallType' /\ ServesInv' /\ cmd' = cmd /\ pc'[c] = next /\ reply'[c] # "ok"
           /\ \A d \in Calls : d # c => pc'[d] = pc[d] /\ reply'[d] = reply[d]
<1>1. pc' = [pc EXCEPT ![c] = next] /\ cmd' = cmd /\ reply' = reply
  BY DEF Goto
<1> QED BY <1>1, CallStep DEF CredentialInv, ServesInv

\* An answer ends its call, and is the only one that says so.
LEMMA AnswerStep ==
    ASSUME CredentialInv, NEW c \in Calls, pc[c] \notin {"idle", "done"},
           NEW code, Answer(c, code)
    PROVE  /\ CallType' /\ ServesInv' /\ cmd' = cmd /\ pc'[c] = "done" /\ reply'[c] = code
           /\ \A d \in Calls : d # c => pc'[d] = pc[d] /\ reply'[d] = reply[d]
<1>1. pc' = [pc EXCEPT ![c] = "done"] /\ reply' = [reply EXCEPT ![c] = code] /\ cmd' = cmd
  BY DEF Answer
<1>2. Serves("done", cmd[c])
  BY DEF CredentialInv, ServesInv, Serves, Adding, Removing, OnConnector
<1>3. reply'[c] = code
  BY <1>1 DEF CredentialInv, CallType
<1>4. \E k : reply' = [reply EXCEPT ![c] = k]
  BY <1>1, Zenon
<1> QED BY <1>1, <1>2, <1>3, <1>4, CallStep DEF CredentialInv

\* The steps of add.
LEMMA AddKeeps ==
    ASSUME CredentialInv, NEW c \in Calls,
           AddInvalid(c) \/ AddSet(c) \/ AddInsert(c) \/ AddUndo(c)
    PROVE  CredentialInv'
<1>1. /\ pc[c] \in Adding /\ pc[c] \notin {"idle", "done"} /\ c \in Ids
      /\ c \in Unborn
  BY DEF AddInvalid, AddSet, AddInsert, AddUndo, At, Adding, Ids, Unborn
<1>2. /\ Serves(pc[c], cmd[c]) /\ cmd[c].op = "add" /\ cmd[c].credential \in BOOLEAN
      /\ cmd[c].kind \in {"fixture", "remote"}
      /\ pc[c] \in {"set", "undo"} => cmd[c].credential
  <2>1. Serves(pc[c], cmd[c])
    BY <1>1 DEF CredentialInv, ServesInv
  <2> QED BY <1>1, <2>1 DEF Serves, Adding
<1>3. /\ rows[c] = None
      /\ pc[c] = "set" => ~HasSecret(c)
      /\ pc[c] = "insert" => (HasSecret(c) <=> cmd[c].credential)
  BY <1>1 DEF CredentialInv, UnbornInv
<1>4. /\ Serves("insert", cmd[c]) /\ Serves("get", cmd[c])
      /\ cmd[c].credential => Serves("undo", cmd[c])
  BY <1>2 DEF Serves, Adding, Removing, OnConnector
<1>5. DataType
  BY DEF CredentialInv
<1>6. CASE AddInvalid(c)
  <2>1. Answer(c, "invalid") /\ UNCHANGED <<secrets, undone, rows, found, clock>>
    BY <1>6 DEF AddInvalid, connectorVars
  <2>2. ~HasSecret(c)
    BY <1>3, <1>6 DEF AddInvalid, At
  <2>3. DataType' /\ \A i : HasSecret(i)' <=> HasSecret(i)
    BY <1>5, <2>1 DEF DataType, HasSecret
  <2> QED BY <1>1, <1>3, <2>1, <2>2, <2>3, AnswerStep, AddingKeeps
<1>7. CASE AddSet(c)
  <2>1. UNCHANGED <<undone, rows, found, clock>> /\ DataType'
    BY <1>5, <1>7 DEF AddSet, connectorVars, DataType
  <2>2. CASE Answer(c, "credential_failed") /\ UNCHANGED secrets
    <3>1. ~HasSecret(c) /\ \A i : HasSecret(i)' <=> HasSecret(i)
      BY <1>3, <1>7, <2>2 DEF AddSet, At, HasSecret
    <3> QED BY <1>1, <1>3, <2>1, <2>2, <3>1, AnswerStep, AddingKeeps
  <2>3. CASE Goto(c, "insert") /\ secrets' = secrets \cup {Held(c)}
    <3>1. HasSecret(c)' /\ \A i : i # c => (HasSecret(i)' <=> HasSecret(i))
      BY <2>3, References DEF HasSecret
    <3>2. cmd[c].credential
      BY <1>2, <1>7 DEF AddSet, At
    <3>3. /\ CallType' /\ ServesInv' /\ cmd' = cmd /\ pc'[c] = "insert" /\ reply'[c] # "ok"
          /\ \A d \in Calls : d # c => pc'[d] = pc[d] /\ reply'[d] = reply[d]
      BY <1>1, <1>4, <2>3, GotoStep
    <3>4. HasSecret(c)' <=> cmd[c].credential
      BY <3>1, <3>2, Zenon
    <3> QED BY <1>1, <1>3, <2>1, <3>1, <3>3, <3>4, AddingKeeps
  <2> QED BY <1>7, <2>2, <2>3 DEF AddSet
<1>8. CASE AddInsert(c)
  <2>1. /\ UNCHANGED <<secrets, undone, found, clock>> /\ pc[c] = "insert"
        /\ \A i : HasSecret(i)' <=> HasSecret(i)
        /\ HasSecret(c) <=> cmd[c].credential
    BY <1>3, <1>8 DEF AddInsert, At, HasSecret
  <2>2. CASE Goto(c, "get") /\ rows' = [rows EXCEPT ![c] = Row(cmd[c].credential, cmd[c].kind)]
    <3> DEFINE credential == cmd[c].credential
               row == Row(credential, cmd[c].kind)
    <3>0. credential \in BOOLEAN
      BY <1>2
    <3> HIDE DEF credential
    <3>1. row \in ConnectorRows /\ row.credential = credential
      BY <1>2, <3>0 DEF Row, ConnectorRows
    <3>2. rows'[c] = row /\ \A i \in Ids : i # c => rows'[i] = rows[i]
      BY <1>1, <1>5, <2>2 DEF DataType, credential
    <3> HIDE DEF row
    <3>3. DataType' /\ rows'[c] # None
      BY <1>1, <1>5, <2>1, <2>2, <3>1, <3>2, NamesAssumption DEF DataType, row, credential
    <3>4. HasSecret(c)' <=> rows'[c].credential
      <4>1. HasSecret(c)' <=> credential
        BY <2>1, Zenon DEF credential
      <4> QED BY <3>1, <3>2, <4>1, Zenon
    <3>5. /\ CallType' /\ ServesInv' /\ cmd' = cmd /\ pc'[c] = "get" /\ reply'[c] # "ok"
          /\ \A d \in Calls : d # c => pc'[d] = pc[d] /\ reply'[d] = reply[d]
      BY <1>1, <1>4, <2>2, GotoStep
    <3> QED BY <1>1, <2>1, <3>2, <3>3, <3>4, <3>5, AddingKeeps
  <2>3. CASE cmd[c].credential /\ Goto(c, "undo") /\ UNCHANGED rows
    <3>1. DataType'
      BY <1>5, <2>1, <2>3 DEF DataType
    <3>2. /\ CallType' /\ ServesInv' /\ cmd' = cmd /\ pc'[c] = "undo" /\ reply'[c] # "ok"
          /\ \A d \in Calls : d # c => pc'[d] = pc[d] /\ reply'[d] = reply[d]
      BY <1>1, <1>4, <2>3, GotoStep
    <3> QED BY <1>1, <1>3, <2>1, <2>3, <3>1, <3>2, AddingKeeps
  <2>4. CASE ~cmd[c].credential /\ Answer(c, "database_failed") /\ UNCHANGED rows
    <3>1. DataType' /\ ~HasSecret(c)
      BY <1>5, <2>1, <2>4 DEF DataType
    <3> QED BY <1>1, <1>3, <2>1, <2>4, <3>1, AnswerStep, AddingKeeps
  <2> QED BY <1>8, <2>2, <2>3, <2>4 DEF AddInsert
<1>9. CASE AddUndo(c)
  <2>1. Answer(c, "database_failed") /\ UNCHANGED <<rows, found, clock>> /\ DataType'
    BY <1>5, <1>9 DEF AddUndo, connectorVars, DataType
  <2>2. /\ \A i : i # c => (HasSecret(i)' <=> HasSecret(i))
        /\ undone \subseteq undone'
        /\ HasSecret(c)' => Held(c) \in undone'
    BY <1>9, References DEF AddUndo, HasSecret
  <2> QED BY <1>1, <1>3, <2>1, <2>2, AnswerStep, AddingKeeps
<1> QED BY <1>6, <1>7, <1>8, <1>9

\* The steps of remove.
LEMMA RemoveKeeps ==
    ASSUME CredentialInv, NEW c \in Calls,
           RemoveRead(c) \/ RemoveDelete(c) \/ RemoveForget(c)
    PROVE  CredentialInv'
<1> DEFINE id == cmd[c].id
<1>1. pc[c] \in Removing /\ pc[c] \notin {"idle", "done"}
  BY DEF RemoveRead, RemoveDelete, RemoveForget, At, Removing
<1>2. Serves(pc[c], cmd[c]) /\ cmd[c].op = "remove" /\ id \in Ids
  <2>1. Serves(pc[c], cmd[c])
    BY <1>1 DEF CredentialInv, ServesInv
  <2> QED BY <1>1, <2>1 DEF Serves
<1>3. Serves("delete", cmd[c]) /\ Serves("delete_row", cmd[c]) /\ Serves("forget", cmd[c])
  BY <1>2 DEF Serves, Adding, Removing, OnConnector
<1>4. DataType /\ RowInv /\ OwnedInv /\ UnbornInv
  BY DEF CredentialInv
<1>5. /\ pc[c] \in {"delete", "delete_row", "forget"} => id \notin Unborn
      /\ pc[c] = "delete_row" => ~HasSecret(id)
      /\ pc[c] = "forget" => rows[id] = None
  BY DEF CredentialInv, RemovalInv
<1>6. CASE RemoveRead(c)
  <2>1. /\ UNCHANGED <<secrets, undone, rows, found, clock>> /\ pc[c] = "read"
        /\ \A i : HasSecret(i)' <=> HasSecret(i)
    BY <1>6 DEF RemoveRead, At, connectorVars, HasSecret
  <2>2. DataType'
    BY <1>4, <2>1 DEF DataType
  <2>3. CASE rows[id] = None
    <3>1. Answer(c, "not_found")
      BY <1>6, <2>3 DEF RemoveRead
    <3>2. Ends(c)
      BY <3>1 DEF Ends
    <3>3. Quiet(c)
      BY <2>1, <2>2, <3>2 DEF Quiet, Adding
    <3> QED BY <3>3, QuietKeeps
  <2>4. CASE rows[id] # None
    <3>1. id \notin Unborn
      BY <1>4, <2>4 DEF UnbornInv
    <3>2. PICK next \in {"delete", "delete_row"} :
              /\ Goto(c, next)
              /\ next = "delete_row" => ~rows[id].credential
      <4>1. Goto(c, IF rows[id].credential THEN "delete" ELSE "delete_row")
        BY <1>6, <2>4 DEF RemoveRead
      <4>2. CASE rows[id].credential
        BY <4>1, <4>2
      <4>3. CASE ~rows[id].credential
        BY <4>1, <4>3
      <4> QED BY <4>2, <4>3
    <3>3. next = "delete_row" => ~HasSecret(id)
      <4>1. HasSecret(id) <=> rows[id].credential
        BY <1>2, <1>4, <2>4 DEF RowInv
      <4> QED BY <3>2, <4>1, Zenon
    <3>4. /\ CallType' /\ ServesInv' /\ cmd' = cmd /\ pc'[c] = next /\ reply'[c] # "ok"
          /\ \A d \in Calls : d # c => pc'[d] = pc[d] /\ reply'[d] = reply[d]
      BY <1>1, <1>3, <3>2, GotoStep
    <3> HIDE DEF id
    <3> QED BY <1>1, <1>2, <2>1, <2>2, <2>4, <3>1, <3>3, <3>4, RemovingKeeps DEF id
  <2> QED BY <2>3, <2>4
<1>7. CASE RemoveDelete(c)
  <2>1. /\ UNCHANGED <<secrets, undone, found, clock>>
        /\ \A i : HasSecret(i)' <=> HasSecret(i)
        /\ rows' = [rows EXCEPT ![id] = None] /\ pc[c] \in {"delete", "delete_row"}
    BY <1>7 DEF RemoveDelete, HasSecret
  <2>2. DataType' /\ rows'[id] = None /\ \A i \in Ids : i # id => rows'[i] = rows[i]
    BY <1>2, <1>4, <2>1 DEF DataType
  <2>3. id \notin Unborn
    BY <1>5, <2>1
  <2>4. CASE Goto(c, "forget")
    <3>1. /\ CallType' /\ ServesInv' /\ cmd' = cmd /\ pc'[c] = "forget" /\ reply'[c] # "ok"
          /\ \A d \in Calls : d # c => pc'[d] = pc[d] /\ reply'[d] = reply[d]
      BY <1>1, <1>3, <2>4, GotoStep
    <3> QED BY <1>1, <1>2, <2>1, <2>2, <2>3, <3>1, RemovingKeeps
  <2>5. CASE pc[c] = "delete_row" /\ Answer(c, "ok")
    <3>1. ~HasSecret(id)
      BY <1>5, <2>5
    <3> QED BY <1>1, <1>2, <2>1, <2>2, <2>3, <2>5, <3>1, AnswerStep, RemovingKeeps
  <2> QED BY <1>7, <2>4, <2>5 DEF RemoveDelete, At
<1>8. CASE RemoveForget(c)
  <2>1. /\ UNCHANGED <<rows, found, clock>> /\ pc[c] = "forget"
        /\ \/ Answer(c, "ok") /\ secrets' = secrets \ {Held(id)} /\ undone' = undone
           \/ Answer(c, "credential_failed") /\ secrets' = secrets
              /\ undone' = undone \cup {Held(id)}
    BY <1>8 DEF RemoveForget, Forget, At, connectorVars
  <2>2. DataType' /\ rows[id] = None /\ id \notin Unborn
    BY <1>4, <1>5, <2>1 DEF DataType
  <2>3. CASE Answer(c, "ok") /\ secrets' = secrets \ {Held(id)} /\ undone' = undone
    <3>1. ~HasSecret(id)' /\ \A i : i # id => (HasSecret(i)' <=> HasSecret(i))
      BY <2>3, References DEF HasSecret, Answer
    <3> QED BY <1>1, <1>2, <2>1, <2>2, <2>3, <3>1, AnswerStep, RemovingKeeps
  <2>4. CASE Answer(c, "credential_failed") /\ secrets' = secrets
             /\ undone' = undone \cup {Held(id)}
    <3>1. \A i : HasSecret(i)' <=> HasSecret(i)
      BY <2>4 DEF HasSecret
    <3> QED BY <1>1, <1>2, <2>1, <2>2, <2>4, <3>1, AnswerStep, RemovingKeeps
  <2> QED BY <2>1, <2>3, <2>4
<1> QED BY <1>6, <1>7, <1>8

\* A statement that fails ends its call.
LEMMA FailsIsQuiet ==
    ASSUME CredentialInv, NEW c \in Calls, ConnectorFails(c)
    PROVE  Quiet(c)
<1>1. /\ UNCHANGED <<secrets, rows, found, clock>> /\ Answer(c, "database_failed")
      /\ undone \subseteq undone'
      /\ pc[c] \in {"get", "enable", "read", "delete", "delete_row", "load",
                    "update", "log", "trim"}
  BY DEF ConnectorFails, Broken, connectorVars
<1>2. Ends(c)
  BY <1>1 DEF Ends
<1>3. pc[c] \notin {"idle", "done", "forget"} \cup Adding
  BY <1>1 DEF Adding
<1>4. DataType' /\ \A i \in Ids : HasSecret(i)' <=> HasSecret(i)
  BY <1>1 DEF CredentialInv, DataType, HasSecret
<1> QED BY <1>1, <1>2, <1>3, <1>4 DEF Quiet

-----------------------------------------------------------------------------
(* A restart: every call under way is over, and what it leaves is noted.   *)

\* No row and no secret changes; what was unfinished is undone.
LEMMA RestartKeeps ==
    ASSUME CredentialInv, Restart
    PROVE  CredentialInv'
<1> USE DEF CredentialInv
<1> DEFINE lost == {c \in Calls : pc[c] \notin {"idle", "done"}}
<1>1. /\ pc' = [c \in Calls |-> IF c \in lost THEN "done" ELSE pc[c]]
      /\ reply' = [c \in Calls |-> IF c \in lost THEN "lost" ELSE reply[c]]
      /\ undone' = undone \cup UNION {Cut(c) : c \in lost}
      /\ UNCHANGED <<secrets, cmd, rows, found, clock>>
  BY DEF Restart, connectorVars
<1>2. DataType' /\ CallType' /\ \A i : HasSecret(i)' <=> HasSecret(i)
  BY <1>1 DEF DataType, CallType, HasSecret
<1>3. ServesInv'
  <2>1. \A c \in Calls : pc[c] # "idle" => Serves("done", cmd[c])
    BY DEF ServesInv, Serves, Adding, Removing, OnConnector
  <2> QED BY <1>1, <2>1 DEF ServesInv
<1>4. Unborn' = {c \in Calls : pc[c] = "idle"} /\ Unborn' \subseteq Unborn
  BY <1>1 DEF Unborn, Adding
<1>5. \A c \in Calls : pc'[c] \in {"idle", "done"}
  BY <1>1
<1>6. UnbornInv'
  BY <1>1, <1>2, <1>4 DEF UnbornInv
<1>7. RowInv' /\ RemovalInv'
  BY <1>1, <1>2, <1>5 DEF RowInv, RemovalInv
<1>8. RemovedInv'
  BY <1>1, <1>2, <1>4 DEF RemovedInv
<1>9. OwnedInv'
  <2> SUFFICES ASSUME NEW i \in Ids, HasSecret(i), rows[i] = None, Held(i) \notin undone
               PROVE  Held(i) \in undone'
    BY <1>1, <1>2 DEF OwnedInv
  <2>1. PICK c \in Calls : \/ c = i /\ pc[c] \in {"insert", "undo"}
                           \/ pc[c] = "forget" /\ cmd[c].id = i
    BY DEF OwnedInv, Unfinished
  <2>2. c \in lost
    BY <2>1
  <2>3. Held(i) \in Cut(c)
    BY <2>1 DEF Cut
  <2> QED BY <1>1, <2>2, <2>3
<1> QED BY <1>2, <1>3, <1>6, <1>7, <1>8, <1>9

-----------------------------------------------------------------------------
(* The invariant, and what follows from it. *)

\* Stored connectors have their credentials, and no call has begun.
LEMMA InitCredentialInv == Init => CredentialInv
<1> SUFFICES ASSUME Init PROVE CredentialInv
  OBVIOUS
<1>1. PICK owners \in SUBSET Stored, kind \in {"fixture", "remote"} :
          /\ rows = [i \in Ids |-> IF i \in Stored THEN Row(i \in owners, kind) ELSE None]
          /\ secrets = {Reference("connector", i) : i \in owners}
  BY DEF Init, ConnectorsInit
<1>2. /\ pc = [c \in Calls |-> "idle"] /\ cmd = [c \in Calls |-> None]
      /\ reply = [c \in Calls |-> None] /\ clock = 0
      /\ found = [c \in Calls |-> NoFinding]
  BY DEF Init, KeychainInit, ConnectorsInit
<1>3. \A i \in Stored : Row(i \in owners, kind) \in ConnectorRows
  <2>1. \A on \in BOOLEAN : Row(on, kind) \in ConnectorRows
    BY DEF Row, ConnectorRows
  <2>2. \A i : (i \in owners) \in BOOLEAN
    OBVIOUS
  <2> QED BY <2>1, <2>2, Zenon
<1>4. DataType
  BY <1>1, <1>2, <1>3 DEF DataType, NoFinding, Ids
<1>5. CallType /\ ServesInv
  BY <1>2, NamesAssumption DEF CallType, ServesInv
<1>6. \A i \in Ids : HasSecret(i) <=> i \in owners
  BY <1>1, References DEF HasSecret, Held
<1>7. UnbornInv
  <2>1. \A c \in Calls : rows[c] = None /\ ~HasSecret(c) /\ pc[c] = "idle"
    BY <1>1, <1>2, <1>6, NamesAssumption DEF Ids
  <2> QED BY <2>1 DEF UnbornInv, Unborn
<1>8. RowInv
  <2> SUFFICES ASSUME NEW i \in Ids, rows[i] # None
               PROVE  HasSecret(i) <=> rows[i].credential
    BY DEF RowInv
  <2>1. rows[i] = Row(i \in owners, kind)
    BY <1>1
  <2>2. \A on : Row(on, kind).credential = on
    BY DEF Row
  <2>3. rows[i].credential = (i \in owners)
    BY <2>1, <2>2, Zenon
  <2>4. HasSecret(i) <=> i \in owners
    BY <1>6
  <2> QED BY <2>3, <2>4, Zenon
<1>9. OwnedInv
  <2>1. \A i \in owners : i \in Ids /\ rows[i] # None
    BY <1>1, <1>3, NamesAssumption DEF Ids
  <2> QED BY <1>6, <2>1 DEF OwnedInv
<1>10. RemovalInv /\ RemovedInv
  BY <1>2, NamesAssumption DEF RemovalInv, RemovedInv
<1> QED BY <1>4, <1>5, <1>7, <1>8, <1>9, <1>10 DEF CredentialInv

\* Every step keeps the invariant.
LEMMA NextCredentialInv == CredentialInv /\ [Next]_vars => CredentialInv'
<1> SUFFICES ASSUME CredentialInv, [Next]_vars PROVE CredentialInv'
  OBVIOUS
<1>1. ASSUME NEW c \in Calls,
             \/ \E q \in ConnectorCommands[c] : StartConnector(c, q)
             \/ \E q \in ReadCommands[c] : StartRead(c, q)
             \/ \E q \in ProviderCommands[c] : StartProvider(c, q) /\ UNCHANGED connectorVars
      PROVE  CredentialInv'
  BY <1>1, StartKeeps
<1>2. ASSUME NEW c \in Calls, Step(c) PROVE CredentialInv'
  <2>1. CASE AddInvalid(c) \/ AddSet(c) \/ AddInsert(c) \/ AddUndo(c)
    BY <2>1, AddKeeps
  <2>2. CASE RemoveRead(c) \/ RemoveDelete(c) \/ RemoveForget(c)
    BY <2>2, RemoveKeeps
  <2>3. CASE ConnectorFails(c)
    BY <2>3, FailsIsQuiet, QuietKeeps
  <2>4. CASE \/ Get(c) \/ SetEnabled(c) \/ TestLoad(c) \/ TestAttempt(c) \/ TestProbe(c)
             \/ TestUpdate(c) \/ TestInsert(c) \/ TestTrim(c)
             \/ ReadConnector(c) \/ ReadSecret(c) \/ Ask(c) \/ ReadFails(c)
             \/ ProviderStep(c) /\ UNCHANGED connectorVars
    <3>1. Quiet(c)
      BY <2>4, CallsAreQuiet
    <3> QED BY <3>1, QuietKeeps
  <2> QED BY <1>2, <2>1, <2>2, <2>3, <2>4 DEF Step, ConnectorStep
<1>3. CASE Restart
  BY <1>3, RestartKeeps
<1>4. CASE UNCHANGED vars
  <2>1. UNCHANGED <<secrets, pc, cmd, reply, undone, rows, found, clock>>
    BY <1>4 DEF vars, calls, connectorVars
  <2>2. /\ \A i : HasSecret(i)' <=> HasSecret(i)
        /\ \A i : Unfinished(i)' <=> Unfinished(i)
        /\ Unborn' = Unborn
    BY <2>1 DEF HasSecret, Unfinished, Unborn
  <2>3. DataType' /\ CallType' /\ ServesInv'
    BY <2>1 DEF CredentialInv, DataType, CallType, ServesInv
  <2>4. UnbornInv' /\ RowInv' /\ RemovalInv' /\ OwnedInv' /\ RemovedInv'
    BY <2>1, <2>2 DEF CredentialInv, UnbornInv, RowInv, RemovalInv, OwnedInv, RemovedInv
  <2> QED BY <2>3, <2>4 DEF CredentialInv
<1> QED BY <1>1, <1>2, <1>3, <1>4 DEF Next

\* So it always holds.
LEMMA CredentialInvHolds == Spec => []CredentialInv
<1> QED BY InitCredentialInv, NextCredentialInv, PTL DEF Spec

\* However the commands of add, remove, enable, disable, test and the readers
\* overlap, whichever statement or keychain call fails, and whenever the
\* application is restarted, no connector refers to a credential that is not
\* in the keychain (connectors.rs: add and remove).
THEOREM CredentialsAreKept == Spec => []CredentialKept
<1>1. CredentialInv => CredentialKept
  BY DEF CredentialInv, RowInv, CredentialKept, HasSecret
<1> QED BY <1>1, CredentialInvHolds, PTL

\* Through the same failures and restarts, a credential without a connector
\* is one a command is about to give a row or to delete, or one whose deletion
\* failed or was cut off, and an acknowledged removal has left nothing.
THEOREM CredentialsAreOwned == Spec => []CredentialsOwned
<1>1. CredentialInv => CredentialsOwned
  BY DEF CredentialInv, OwnedInv, RemovedInv, CredentialsOwned, HasSecret
<1> QED BY <1>1, CredentialInvHolds, PTL

-----------------------------------------------------------------------------
(* The fallback order.                                                     *)

\* The order is a sequence of providers, and what build_registry needs.
ListInv ==
    /\ providers = [p \in ProviderIds |-> providers[p]]
    /\ order \in Seq(ProviderIds)
    /\ OrderUsable

\* What a caller asks for is a sequence.
Ordering(c) == pc[c] = "order" => cmd[c].ids \in Seq(ToSet(cmd[c].ids))

OrderingInv == CallType /\ \A c \in Calls : Ordering(c)

\* A removed provider leaves the others, each once.
LEMMA DroppedOrder ==
    ASSUME NEW S, NEW ids \in Seq(S), IsInjective(ids), NEW p
    PROVE  /\ Dropped(ids, p) \in Seq(S)
           /\ ToSet(Dropped(ids, p)) \subseteq ToSet(ids) \ {p}
           /\ IsInjective(Dropped(ids, p))
<1>1. CASE p \notin ToSet(ids)
  BY <1>1 DEF Dropped
<1>2. CASE p \in ToSet(ids)
  <2>1. PICK k \in DOMAIN ids : /\ ids[k] = p
                                /\ Dropped(ids, p) = RemoveAt(ids, k)
    <3>1. \E i \in DOMAIN ids : ids[i] = p
      BY <1>2 DEF ToSet
    <3> QED BY <1>2, <3>1 DEF Dropped
  <2> DEFINE n == Len(ids)
             kept(j) == IF j < k THEN j ELSE j + 1
             one == SubSeq(ids, 1, k - 1)
             two == SubSeq(ids, k + 1, n)
             rest == RemoveAt(ids, k)
  <2>2. n \in Nat /\ DOMAIN ids = 1 .. n /\ k \in 1 .. n
    OBVIOUS
  <2>3. rest = one \o two
    BY DEF RemoveAt
  <2>4. /\ one \in Seq(S) /\ Len(one) = k - 1
        /\ \A j \in 1 .. k - 1 : one[j] = ids[j]
    BY <2>2
  <2>5. /\ two \in Seq(S) /\ Len(two) = n - k
        /\ \A j \in 1 .. n - k : two[j] = ids[k + j]
    BY <2>2
  <2> HIDE DEF one, two, rest, n
  <2>6. rest \in Seq(S) /\ Len(rest) = n - 1
    <3>1. rest \in Seq(S) /\ Len(rest) = Len(one) + Len(two)
      BY <2>3, <2>4, <2>5
    <3> QED BY <2>2, <2>4, <2>5, <3>1
  <2>7. ASSUME NEW j \in 1 .. n - 1
        PROVE  rest[j] = ids[kept(j)]
    <3>1. CASE j < k
      BY <2>2, <2>3, <2>4, <2>5, <3>1
    <3>2. CASE ~(j < k)
      <4>1. rest[j] = two[j - (k - 1)] /\ j - (k - 1) \in 1 .. n - k
        <5>1. \A i \in 1 .. Len(one) + Len(two) :
                 rest[i] = IF i <= Len(one) THEN one[i] ELSE two[i - Len(one)]
          BY <2>3, <2>4, <2>5, ConcatProperties
        <5>2. /\ j \in 1 .. (k - 1) + (n - k) /\ ~(j <= k - 1)
              /\ j - (k - 1) \in 1 .. n - k
          BY <2>2, <3>2
        <5> QED BY <2>4, <2>5, <5>1, <5>2
      <4>2. two[j - (k - 1)] = ids[k + (j - (k - 1))] /\ k + (j - (k - 1)) = j + 1
        BY <2>2, <2>5, <4>1
      <4> QED BY <3>2, <4>1, <4>2
    <3> QED BY <3>1, <3>2
  <2>8. ASSUME NEW j \in 1 .. n - 1
        PROVE  /\ kept(j) \in DOMAIN ids /\ kept(j) # k
               /\ \A i \in 1 .. n - 1 : kept(i) = kept(j) => i = j
    BY <2>2
  <2>9. DOMAIN rest = 1 .. n - 1
    BY <2>2, <2>6
  <2> HIDE DEF kept
  <2>10. \A i, j \in DOMAIN ids : ids[i] = ids[j] => i = j
    BY DEF IsInjective
  <2>11. ToSet(rest) \subseteq ToSet(ids) \ {p}
    BY <2>1, <2>7, <2>8, <2>9, <2>10 DEF ToSet
  <2>12. IsInjective(rest)
    BY <2>7, <2>8, <2>9, <2>10 DEF IsInjective
  <2> QED BY <2>1, <2>6, <2>11, <2>12 DEF rest
<1> QED BY <1>1, <1>2

\* A call under way goes on, or is answered, and none becomes an order.
Continues(c) ==
    \/ UNCHANGED calls
    \/ \E code : Answer(c, code)
    \/ \E phase : phase # "order" /\ Goto(c, phase)

LEMMA ContinuesKeeps ==
    ASSUME OrderingInv, NEW c \in Calls, Continues(c)
    PROVE  OrderingInv'
<1>1. CASE UNCHANGED calls
  BY <1>1 DEF OrderingInv, CallType, Ordering, calls
<1>2. CASE \E code : Answer(c, code)
  BY <1>2 DEF OrderingInv, CallType, Ordering, Answer
<1>3. CASE \E phase : phase # "order" /\ Goto(c, phase)
  BY <1>3 DEF OrderingInv, CallType, Ordering, Goto
<1> QED BY <1>1, <1>2, <1>3 DEF Continues

\* Every step of an admitted call does one or the other.
LEMMA StepContinues ==
    ASSUME NEW c \in Calls, ConnectorStep(c) \/ ProviderStep(c)
    PROVE  Continues(c)
<1>1. /\ \A code : Answer(c, code) => Continues(c)
      /\ \A phase : phase # "order" /\ Goto(c, phase) => Continues(c)
      /\ UNCHANGED calls => Continues(c)
  BY DEF Continues
<1>2. \A code : AnswerRead(c, code) => Continues(c)
  BY <1>1 DEF AnswerRead
<1>3. \A o : Finding(c, o) => Continues(c)
  BY <1>1 DEF Finding
<1>4. \A r, code : Forget(c, r, code) => Continues(c)
  BY <1>1 DEF Forget
<1>5. CASE AddInvalid(c) \/ AddSet(c) \/ AddInsert(c) \/ AddUndo(c)
  BY <1>1, <1>5 DEF AddInvalid, AddSet, AddInsert, AddUndo
<1>6. CASE Get(c) \/ SetEnabled(c) \/ RemoveRead(c) \/ RemoveDelete(c) \/ RemoveForget(c)
  <2>1. Get(c) => Continues(c)
    BY <1>1 DEF Get
  <2>2. SetEnabled(c) => Continues(c)
    BY <1>1 DEF SetEnabled
  <2>3. RemoveRead(c) => Continues(c)
    BY <1>1 DEF RemoveRead
  <2>4. RemoveDelete(c) => Continues(c)
    BY <1>1 DEF RemoveDelete
  <2>5. RemoveForget(c) => Continues(c)
    BY <1>4 DEF RemoveForget
  <2> QED BY <1>6, <2>1, <2>2, <2>3, <2>4, <2>5
<1>7. CASE TestLoad(c) \/ TestAttempt(c) \/ TestProbe(c) \/ TestUpdate(c)
             \/ TestInsert(c) \/ TestTrim(c)
  <2>1. TestLoad(c) => Continues(c)
    BY <1>1 DEF TestLoad
  <2>2. TestAttempt(c) => Continues(c)
    BY <1>1, <1>3 DEF TestAttempt
  <2>3. TestProbe(c) => Continues(c)
    BY <1>3 DEF TestProbe
  <2>4. TestUpdate(c) => Continues(c)
    BY <1>1 DEF TestUpdate
  <2>5. TestInsert(c) => Continues(c)
    BY <1>1 DEF TestInsert
  <2>6. TestTrim(c) => Continues(c)
    BY <1>1 DEF TestTrim
  <2> QED BY <1>7, <2>1, <2>2, <2>3, <2>4, <2>5, <2>6
<1>8. CASE ConnectorFails(c)
  BY <1>1, <1>8 DEF ConnectorFails, Broken
<1>9. CASE ReadConnector(c) \/ ReadSecret(c) \/ Ask(c) \/ ReadFails(c)
  <2>1. ReadConnector(c) => Continues(c)
    BY <1>1, <1>2 DEF ReadConnector
  <2>2. ReadSecret(c) => Continues(c)
    BY <1>1, <1>2 DEF ReadSecret
  <2>3. Ask(c) \/ ReadFails(c) => Continues(c)
    BY <1>2 DEF Ask, ReadFails
  <2> QED BY <1>9, <2>1, <2>2, <2>3
<1>10. CASE ProviderStep(c)
  <2>1. Configure(c) => Continues(c)
    BY <1>1 DEF Configure
  <2>2. SetProviderOrder(c) => Continues(c)
    BY <1>1 DEF SetProviderOrder
  <2>3. ProbeLoad(c) => Continues(c)
    BY <1>1 DEF ProbeLoad
  <2>4. ProbeReply(c) => Continues(c)
    BY <1>1 DEF ProbeReply
  <2>5. RemoveProvider(c) => Continues(c)
    BY <1>1, <1>4 DEF RemoveProvider
  <2> QED BY <1>10, <2>1, <2>2, <2>3, <2>4, <2>5 DEF ProviderStep
<1> QED BY <1>5, <1>6, <1>7, <1>8, <1>9, <1>10 DEF ConnectorStep

\* An order is begun only by a command that is one.
LEMMA StartOrdering ==
    ASSUME OrderingInv, NEW c \in Calls,
           \/ \E q \in ConnectorCommands[c] : StartConnector(c, q)
           \/ \E q \in ReadCommands[c] : StartRead(c, q)
           \/ \E q \in ProviderCommands[c] : StartProvider(c, q)
    PROVE  OrderingInv'
<1>1. ASSUME NEW q, NEW permitted, NEW phase, Admit(c, q, permitted, phase),
             phase = "order" => q.ids \in Seq(ToSet(q.ids))
      PROVE  OrderingInv'
  <2>1. /\ cmd' = [cmd EXCEPT ![c] = q]
        /\ pc' = [pc EXCEPT ![c] = "done"] \/ pc' = [pc EXCEPT ![c] = phase]
        /\ \/ reply' = reply
           \/ reply' = [reply EXCEPT ![c] = "permission_denied"]
           \/ reply' = [reply EXCEPT ![c] = "policy_denied"]
    BY <1>1 DEF Admit
  <2>2. CallType'
    BY <2>1 DEF OrderingInv, CallType
  <2>3. ASSUME NEW d \in Calls PROVE Ordering(d)'
    <3>1. d # c => pc'[d] = pc[d] /\ cmd'[d] = cmd[d]
      BY <2>1 DEF OrderingInv, CallType
    <3>2. cmd'[c] = q /\ pc'[c] \in {"done", phase}
      BY <2>1 DEF OrderingInv, CallType
    <3> QED BY <1>1, <3>1, <3>2 DEF OrderingInv, Ordering
  <2> QED BY <2>2, <2>3 DEF OrderingInv
<1>2. ASSUME NEW q \in ConnectorCommands[c], StartConnector(c, q) PROVE OrderingInv'
  <2>1. PICK permitted, phase : phase # "order" /\ Admit(c, q, permitted, phase)
    <3> DEFINE permits == Permits("Ui") /\ (q.op = "test" => Permits("ExternalIntegration"))
               begins == CASE q.op = "add" -> IF q.credential THEN "set" ELSE "insert"
                           [] q.op = "remove" -> "read"
                           [] q.op = "test" -> "load"
                           [] OTHER -> "enable"
    <3>1. Admit(c, q, permits, begins)
      BY <1>2 DEF StartConnector
    <3>2. begins # "order"
      OBVIOUS
    <3> HIDE DEF permits, begins
    <3> QED BY <3>1, <3>2
  <2> QED BY <1>1, <2>1
<1>3. ASSUME NEW q \in ReadCommands[c], StartRead(c, q) PROVE OrderingInv'
  <2>1. PICK permitted : Admit(c, q, permitted, "read_connector")
    BY <1>3 DEF StartRead
  <2> QED BY <1>1, <2>1
<1>4. ASSUME NEW q \in ProviderCommands[c], StartProvider(c, q) PROVE OrderingInv'
  <2>1. Admit(c, q, TRUE, q.op)
    BY <1>4 DEF StartProvider
  <2>2. q.op = "order" => q.ids \in Seq(ToSet(q.ids))
    BY CommandsAssumption
  <2> QED BY <1>1, <2>1, <2>2
<1> QED BY <1>2, <1>3, <1>4

\* A provider that stays configured stays in the order, and no other is.
LEMMA ListKept ==
    ASSUME ListInv, order' = order, NEW p, NEW h, h # None,
           providers' = [providers EXCEPT ![p] = h] \/ providers' = providers
    PROVE  ListInv'
<1>1. /\ providers' = [i \in ProviderIds |-> providers'[i]]
      /\ \A i \in ProviderIds : providers'[i] \in {providers[i], h}
  BY DEF ListInv
<1>2. Configured \subseteq Configured'
  BY <1>1 DEF Configured
<1> QED BY <1>1, <1>2 DEF ListInv, OrderUsable

\* The commands of the providers keep the list.
LEMMA ProvidersKept ==
    ASSUME ListInv, OrderingInv, NEW c \in Calls, ProviderStep(c)
    PROVE  ListInv'
<1>1. Configured \subseteq ProviderIds
  BY DEF Configured
<1>2. CASE Configure(c)
  <2>1. /\ order' = order
        /\ providers' = [providers EXCEPT ![cmd[c].id] = "unknown"] \/ providers' = providers
    BY <1>2 DEF Configure
  <2> QED BY <2>1, ListKept, HealthsAssumption
<1>3. CASE SetProviderOrder(c)
  <2> DEFINE ids == cmd[c].ids
  <2>1. providers' = providers /\ Configured' = Configured
    BY <1>3 DEF SetProviderOrder, Configured
  <2>2. CASE ToSet(ids) \subseteq Configured /\ IsInjective(ids)
    <3>1. order' = ids
      BY <1>3, <2>2 DEF SetProviderOrder
    <3>2. ids \in Seq(ToSet(ids))
      BY <1>3 DEF OrderingInv, Ordering, SetProviderOrder, At
    <3> HIDE DEF ids
    <3>3. ids \in Seq(ProviderIds)
      BY <1>1, <2>2, <3>2
    <3> QED BY <2>1, <2>2, <3>1, <3>3 DEF ListInv, OrderUsable
  <2>3. CASE ~(ToSet(ids) \subseteq Configured /\ IsInjective(ids))
    <3>1. order' = order
      BY <1>3, <2>3 DEF SetProviderOrder
    <3> QED BY <2>1, <3>1 DEF ListInv, OrderUsable
  <2> QED BY <2>2, <2>3
<1>4. CASE ProbeLoad(c)
  <2>1. order' = order /\ providers' = providers
    BY <1>4 DEF ProbeLoad, providerVars
  <2> QED BY <2>1 DEF ListInv, OrderUsable, Configured
<1>5. CASE ProbeReply(c)
  <2>1. PICK h \in Healths :
          /\ order' = order
          /\ providers' = [providers EXCEPT ![cmd[c].id] = h] \/ providers' = providers
    BY <1>5 DEF ProbeReply
  <2> QED BY <2>1, ListKept, HealthsAssumption
<1>6. CASE RemoveProvider(c)
  <2> DEFINE p == cmd[c].id
  <2>1. \/ order' = order /\ providers' = providers
        \/ order' = Dropped(order, p) /\ providers' = [providers EXCEPT ![p] = None]
    BY <1>6 DEF RemoveProvider, providerVars
  <2> HIDE DEF p
  <2>2. CASE order' = order /\ providers' = providers
    BY <2>2 DEF ListInv, OrderUsable, Configured
  <2>3. CASE order' = Dropped(order, p) /\ providers' = [providers EXCEPT ![p] = None]
    <3>1. /\ order' \in Seq(ProviderIds)
          /\ ToSet(order') \subseteq ToSet(order) \ {p}
          /\ IsInjective(order')
      BY <2>3, DroppedOrder DEF ListInv, OrderUsable
    <3>2. /\ providers' = [i \in ProviderIds |-> providers'[i]]
          /\ Configured' = Configured \ {p}
      BY <2>3 DEF ListInv, Configured
    <3> QED BY <3>1, <3>2 DEF ListInv, OrderUsable
  <2> QED BY <2>1, <2>2, <2>3
<1> QED BY <1>2, <1>3, <1>4, <1>5, <1>6 DEF ProviderStep

LEMMA OrderStep ==
    ASSUME ListInv, OrderingInv, [Next]_vars
    PROVE  ListInv' /\ OrderingInv'
<1>1. ASSUME UNCHANGED providerVars PROVE ListInv'
  BY <1>1 DEF ListInv, OrderUsable, Configured, providerVars
<1>2. ASSUME NEW c \in Calls,
             \/ \E q \in ConnectorCommands[c] : StartConnector(c, q) /\ UNCHANGED providerVars
             \/ \E q \in ReadCommands[c] : StartRead(c, q) /\ UNCHANGED providerVars
             \/ \E q \in ProviderCommands[c] : StartProvider(c, q)
      PROVE  ListInv' /\ OrderingInv'
  <2>1. UNCHANGED providerVars
    BY <1>2 DEF StartProvider
  <2>2. OrderingInv'
    BY <1>2, StartOrdering
  <2> QED BY <1>1, <2>1, <2>2
<1>3. ASSUME NEW c \in Calls, Step(c) PROVE ListInv' /\ OrderingInv'
  <2>1. OrderingInv'
    BY <1>3, StepContinues, ContinuesKeeps DEF Step
  <2>2. ListInv'
    BY <1>1, <1>3, ProvidersKept DEF Step
  <2> QED BY <2>1, <2>2
<1>4. CASE Restart
  <2>1. providers' = NoProviders /\ order' = <<>>
    BY <1>4 DEF Restart
  <2>2. ListInv'
    BY <2>1 DEF ListInv, OrderUsable, NoProviders, ToSet, IsInjective
  <2>3. /\ cmd' = cmd
        /\ \A c \in Calls : pc'[c] \in {pc[c], "done"}
        /\ pc' = [c \in Calls |-> pc'[c]] /\ reply' = [c \in Calls |-> reply'[c]]
    BY <1>4 DEF Restart
  <2>4. OrderingInv'
    BY <2>3 DEF OrderingInv, CallType, Ordering
  <2> QED BY <2>2, <2>4
<1>5. CASE UNCHANGED vars
  BY <1>1, <1>5 DEF vars, calls, OrderingInv, CallType, Ordering
<1> QED BY <1>2, <1>3, <1>4, <1>5 DEF Next

\* Whatever providers are configured, probed, ordered, removed or forgotten
\* by a restart, the fallback order names configured ones, each once, so that
\* build_registry does not refuse every request for it.
THEOREM OrdersAreUsable == Spec => []OrderUsable
<1>1. Init => ListInv /\ OrderingInv
  <2> SUFFICES ASSUME Init PROVE ListInv /\ OrderingInv
    OBVIOUS
  <2>1. /\ providers = NoProviders /\ order = <<>>
        /\ pc = [c \in Calls |-> "idle"] /\ cmd = [c \in Calls |-> None]
        /\ reply = [c \in Calls |-> None]
    BY DEF Init, ProvidersInit, KeychainInit
  <2>2. ListInv
    BY <2>1 DEF ListInv, OrderUsable, NoProviders, ToSet, IsInjective
  <2>3. OrderingInv
    BY <2>1 DEF OrderingInv, CallType, Ordering
  <2> QED BY <2>2, <2>3
<1>2. ListInv /\ OrderingInv /\ [Next]_vars => ListInv' /\ OrderingInv'
  BY OrderStep
<1>3. ListInv => OrderUsable
  BY DEF ListInv
<1> QED BY <1>1, <1>2, <1>3, PTL DEF Spec

-----------------------------------------------------------------------------
(* The log of a connector's tests, and the health its row shows.           *)

Less == {x \in Nat \X Nat : x[1] < x[2]}

\* A set of numbers has a least one.
LEMMA LeastNumber ==
    ASSUME NEW S, S \subseteq Nat, S # {}
    PROVE  \E n \in S : \A m \in S : n <= m
<1>1. Less = OpToRel(<, Nat)
  BY DEF Less, OpToRel
<1>2. IsWellFoundedOn(Less, Nat)
  BY <1>1, NatLessThanWellFounded
<1>3. PICK n \in S : \A m \in S : <<m, n>> \notin Less
  BY <1>2, WFMin
<1>4. ASSUME NEW m \in S PROVE n <= m
  <2>1. <<m, n>> \in Less <=> m < n
    BY DEF Less
  <2> QED BY <1>3, <2>1
<1> QED BY <1>4

\* Entries are finitely many, and were stamped up to now.
Stamped(log, now) == IsFiniteSet(log) /\ \A e \in log : e.checked \in 1 .. now

\* Some of the entries, none of the others newer than any of them.
Top(log, n) ==
    {kept \in SUBSET log :
        Cardinality(kept) = n /\ \A e \in kept : \A f \in log \ kept : e.checked >= f.checked}

\* Of the entries that are left one is newest.
LEMMA NewestOfRest ==
    ASSUME NEW now \in Nat, NEW log, Stamped(log, now), NEW rest \in SUBSET log, rest # {}
    PROVE  \E x \in rest : \A f \in rest : x.checked >= f.checked
<1> DEFINE ages == {now - f.checked : f \in rest}
<1>1. \A f \in rest : f.checked \in 1 .. now
  BY DEF Stamped
<1>2. ages \subseteq Nat /\ ages # {}
  BY <1>1
<1>3. PICK n \in ages : \A m \in ages : n <= m
  BY <1>2, LeastNumber
<1>4. PICK x \in rest : n = now - x.checked
  BY <1>3
<1>5. ASSUME NEW f \in rest PROVE x.checked >= f.checked
  <2>1. now - f.checked \in ages
    OBVIOUS
  <2>2. now - x.checked <= now - f.checked
    BY <1>3, <1>4, <2>1
  <2> QED BY <1>1, <2>2
<1> QED BY <1>5

\* A log has as many newest entries as one asks for.
LEMMA NewestExist ==
    ASSUME NEW now \in Nat, NEW log, Stamped(log, now), NEW n \in 0 .. Cardinality(log)
    PROVE  Top(log, n) # {}
<1> DEFINE missing == {m \in 0 .. Cardinality(log) : Top(log, m) = {}}
<1>1. Cardinality(log) \in Nat
  BY FS_CardinalityType DEF Stamped
<1> SUFFICES ASSUME missing # {} PROVE FALSE
  BY <1>1
<1>2. PICK m \in missing : \A k \in missing : m <= k
  <2>1. missing \subseteq Nat
    BY <1>1
  <2> HIDE DEF missing
  <2> QED BY <2>1, LeastNumber
<1>3. m # 0
  <2>1. {} \in Top(log, 0)
    BY FS_EmptySet DEF Top
  <2> QED BY <2>1
<1>4. m - 1 \in 0 .. Cardinality(log) /\ m - 1 \notin missing
  BY <1>1, <1>2, <1>3
<1>5. PICK kept : kept \in Top(log, m - 1)
  BY <1>4
<1>6. /\ kept \in SUBSET log /\ Cardinality(kept) = m - 1
      /\ \A e \in kept : \A f \in log \ kept : e.checked >= f.checked
  BY <1>5 DEF Top
<1>7. PICK x \in log \ kept : \A f \in log \ kept : x.checked >= f.checked
  <2>1. log \ kept \in SUBSET log
    OBVIOUS
  <2>2. kept # log
    BY <1>1, <1>2, <1>6
  <2>3. log \ kept # {}
    BY <1>6, <2>2
  <2> QED BY <2>1, <2>3, NewestOfRest
<1>8. Cardinality(kept \cup {x}) = m
  <2>1. IsFiniteSet(kept)
    BY <1>6, FS_Subset DEF Stamped
  <2>2. Cardinality(kept \cup {x}) = Cardinality(kept) + 1
    BY <1>7, <2>1, FS_AddElement
  <2> QED BY <1>1, <1>2, <1>6, <2>2
<1>9. kept \cup {x} \in Top(log, m)
  <2>1. kept \cup {x} \in SUBSET log
    BY <1>6, <1>7
  <2>2. \A e \in kept \cup {x} : \A f \in log \ (kept \cup {x}) : e.checked >= f.checked
    BY <1>6, <1>7
  <2> QED BY <1>8, <2>1, <2>2 DEF Top
<1> QED BY <1>2, <1>9

\* What the trim keeps: the limit or all there is, and the newest of it.
LEMMA NewestIsTop ==
    ASSUME NEW now \in Nat, NEW log, Stamped(log, now)
    PROVE  /\ Newest(log) \in SUBSET log
           /\ Cardinality(Newest(log)) = Extent(log)
           /\ \A e \in Newest(log) : \A f \in log \ Newest(log) : e.checked >= f.checked
<1>1. Extent(log) \in 0 .. Cardinality(log)
  BY FS_CardinalityType, LimitAssumption DEF Stamped, Extent
<1>2. PICK kept : kept \in Top(log, Extent(log))
  BY <1>1, NewestExist
<1>3. \E k \in SUBSET log : /\ Cardinality(k) = Extent(log)
                            /\ \A e \in k : \A f \in log \ k : e.checked >= f.checked
  BY <1>2 DEF Top
<1> QED BY <1>3 DEF Newest

Newer(log, stamp) == {e \in log : e.checked > stamp}

\* An entry the trim drops has as many newer ones above it as the log holds,
\* and that many newer entries stay that many.
LEMMA TrimKeeps ==
    ASSUME NEW now \in Nat, NEW log, Stamped(log, now), NEW stamp \in Nat,
           \A e, f \in log : e.checked = f.checked => e = f,
           \/ \E f \in log \ Newest(log) : f.checked = stamp
           \/ Cardinality(Newer(log, stamp)) >= LogLimit
    PROVE  Cardinality(Newer(Newest(log), stamp)) >= LogLimit
<1> DEFINE kept == Newest(log)
<1>1. /\ kept \in SUBSET log
      /\ Cardinality(kept) = Extent(log)
      /\ \A e \in kept : \A f \in log \ kept : e.checked >= f.checked
  BY NewestIsTop
<1>2. Cardinality(log) \in Nat /\ LogLimit \in Nat /\ IsFiniteSet(log) /\ IsFiniteSet(kept)
  BY <1>1, FS_CardinalityType, FS_Subset, LimitAssumption DEF Stamped
<1>3. \A e \in log : e.checked \in Nat
  BY DEF Stamped
<1> HIDE DEF kept
<1>4. CASE \E f \in log \ kept : f.checked = stamp
  <2>1. PICK f \in log \ kept : f.checked = stamp
    BY <1>4
  <2>2. kept # log
    BY <2>1
  <2>3. Cardinality(kept) # Cardinality(log)
    BY <1>1, <1>2, <2>2, FS_Subset
  <2>4. Cardinality(kept) = LogLimit
    BY <1>1, <2>3 DEF Extent
  <2>5. ASSUME NEW e \in kept PROVE e.checked > stamp
    <3>1. e.checked >= f.checked /\ e # f /\ e \in log /\ f \in log
      BY <1>1, <2>1
    <3>2. e.checked # f.checked
      BY <3>1
    <3> QED BY <1>3, <2>1, <3>1, <3>2
  <2>6. Newer(kept, stamp) = kept
    BY <2>5 DEF Newer
  <2> QED BY <1>2, <2>4, <2>6 DEF kept
<1>5. CASE Cardinality(Newer(log, stamp)) >= LogLimit
  <2>1. Newer(log, stamp) \in SUBSET log
    BY DEF Newer
  <2>2. /\ Cardinality(Newer(log, stamp)) <= Cardinality(log)
        /\ IsFiniteSet(Newer(log, stamp)) /\ Cardinality(Newer(log, stamp)) \in Nat
    BY <1>2, <2>1, FS_Subset, FS_CardinalityType
  <2>3. Cardinality(kept) = LogLimit
    BY <1>1, <1>2, <1>5, <2>2 DEF Extent
  <2>4. ASSUME NEW e \in kept, ~(e.checked > stamp) PROVE FALSE
    <3>1. ASSUME NEW f \in Newer(log, stamp) PROVE f \in kept
      <4>1. f \in log /\ f.checked > stamp /\ e \in log
        BY <1>1, <3>1 DEF Newer
      <4>2. ~(e.checked >= f.checked)
        BY <1>3, <2>4, <4>1
      <4> QED BY <1>1, <4>1, <4>2
    <3>2. Newer(log, stamp) \in SUBSET kept /\ Newer(log, stamp) # kept
      BY <2>4, <3>1 DEF Newer
    <3>3. Cardinality(Newer(log, stamp)) <= Cardinality(kept)
      BY <1>2, <3>2, FS_Subset
    <3>4. Cardinality(Newer(log, stamp)) = Cardinality(kept)
      BY <1>2, <1>5, <2>2, <2>3, <3>3
    <3> QED BY <1>2, <3>2, <3>4, FS_Subset
  <2>5. Newer(kept, stamp) = kept
    BY <2>4 DEF Newer
  <2> QED BY <1>2, <2>3, <2>5 DEF kept
<1> QED BY <1>4, <1>5 DEF kept

-----------------------------------------------------------------------------

\* A call whose test has its finding, and has yet to write the entry.
Pending(c) == pc[c] \in {"update", "log"}

LogInv ==
    /\ logs = [i \in Ids |-> logs[i]]
    /\ \A i \in Ids : Stamped(logs[i], clock)
    /\ \A i \in Ids : \A e, f \in logs[i] : e.checked = f.checked => e = f

\* Stamps are of the past, and no two tests have the same.
StampInv ==
    /\ \A c \in Calls : Pending(c) => found[c].checked \in 1 .. clock
    /\ \A c, d \in Calls :
          Pending(c) /\ Pending(d) /\ found[c].checked = found[d].checked => c = d
    /\ \A c \in Calls : Pending(c) =>
          \A i \in Ids : \A e \in logs[i] : e.checked # found[c].checked

Shown(i) == rows[i] # None /\ rows[i].checked # 0

Logged(i) ==
    \E e \in logs[i] : e.outcome = rows[i].health /\ e.checked = rows[i].checked

\* The test that wrote the health has yet to write its entry.
Logging(c, i) ==
    /\ pc[c] = "log" /\ cmd[c].id = i
    /\ found[c].outcome = rows[i].health /\ found[c].checked = rows[i].checked

RecordInv ==
    \A i \in Ids :
        Shown(i) =>
            \/ Logged(i)
            \/ \E c \in Calls : Logging(c, i)
            \/ <<"log", i, rows[i].checked>> \in undone
            \/ Cardinality(Newer(logs[i], rows[i].checked)) >= LogLimit

HealthInv == CredentialInv /\ LogInv /\ StampInv /\ RecordInv

-----------------------------------------------------------------------------
(* The steps that touch no finding and add to no log.                      *)

\* What rows show they showed before.
RowsShow ==
    \A i \in Ids :
        Shown(i)' => Shown(i) /\ rows'[i].health = rows[i].health
                              /\ rows'[i].checked = rows[i].checked

\* A log goes only with its row.
LogsStay ==
    /\ logs' = [i \in Ids |-> logs'[i]]
    /\ \A i \in Ids : logs'[i] = logs[i] \/ (logs'[i] = {} /\ ~Shown(i)')

\* A test about to write its entry stays there, or that it did not is noted,
\* or the row is gone.
EntriesNoted ==
    \A c \in Calls : pc[c] = "log" =>
        \/ pc'[c] = "log" /\ cmd'[c] = cmd[c]
        \/ Entry(c) \in undone'
        \/ \A i \in Ids : i = cmd[c].id => ~Shown(i)'

NoneBegins == \A c \in Calls : Pending(c)' => Pending(c)

LEMMA LogsKept ==
    ASSUME HealthInv, CredentialInv', UNCHANGED <<found, clock>>,
           RowsShow, LogsStay, EntriesNoted, NoneBegins, undone \subseteq undone'
    PROVE  HealthInv'
<1>1. LogInv /\ StampInv /\ RecordInv
  BY DEF HealthInv
<1>2. \A i \in Ids : logs'[i] \subseteq logs[i]
  BY DEF LogsStay
<1>3. LogInv'
  <2>1. ASSUME NEW i \in Ids PROVE Stamped(logs[i], clock)'
    <3>1. Stamped(logs[i], clock)
      BY <1>1 DEF LogInv
    <3>2. IsFiniteSet(logs'[i])
      BY <1>2, <3>1, FS_Subset DEF Stamped
    <3> QED BY <1>2, <3>1, <3>2 DEF Stamped
  <2> QED BY <1>1, <1>2, <2>1 DEF LogInv, LogsStay
<1>4. StampInv'
  BY <1>1, <1>2 DEF StampInv, NoneBegins
<1>5. RecordInv'
  <2> SUFFICES ASSUME NEW i \in Ids, Shown(i)'
               PROVE  \/ Logged(i)'
                      \/ \E c \in Calls : Logging(c, i)'
                      \/ <<"log", i, rows'[i].checked>> \in undone'
                      \/ Cardinality(Newer(logs'[i], rows'[i].checked)) >= LogLimit
    BY DEF RecordInv
  <2>1. /\ Shown(i) /\ rows'[i].health = rows[i].health
        /\ rows'[i].checked = rows[i].checked /\ logs'[i] = logs[i]
    BY DEF RowsShow, LogsStay
  <2>2. CASE Logged(i)
    BY <2>1, <2>2 DEF Logged
  <2>3. CASE \E c \in Calls : Logging(c, i)
    <3>1. PICK c \in Calls : Logging(c, i)
      BY <2>3
    <3>2. (pc'[c] = "log" /\ cmd'[c] = cmd[c]) \/ Entry(c) \in undone'
      BY <3>1 DEF EntriesNoted, Logging
    <3>3. CASE pc'[c] = "log" /\ cmd'[c] = cmd[c]
      BY <2>1, <3>1, <3>3 DEF Logging
    <3>4. CASE Entry(c) \in undone'
      <4>1. Entry(c) = <<"log", i, rows[i].checked>>
        BY <3>1 DEF Logging, Entry
      <4> QED BY <2>1, <3>4, <4>1
    <3> QED BY <3>2, <3>3, <3>4
  <2>4. CASE <<"log", i, rows[i].checked>> \in undone
    BY <2>1, <2>4
  <2>5. CASE Cardinality(Newer(logs[i], rows[i].checked)) >= LogLimit
    BY <2>1, <2>5
  <2> QED BY <1>1, <2>1, <2>2, <2>3, <2>4, <2>5 DEF RecordInv
<1> QED BY <1>3, <1>4, <1>5 DEF HealthInv

\* A call that goes elsewhere than to the two statements of its test.
Elsewhere(c) ==
    /\ pc'[c] \notin {"update", "log"}
    /\ \A d \in Calls : d # c => pc'[d] = pc[d] /\ cmd'[d] = cmd[d]

LEMMA GoesElsewhere ==
    ASSUME CallType, NEW c \in Calls
    PROVE  /\ \A code : Answer(c, code) => Elsewhere(c)
           /\ \A phase : phase \notin {"update", "log"} /\ Goto(c, phase) => Elsewhere(c)
           /\ \A code : AnswerRead(c, code) => Elsewhere(c)
           /\ \A r, code : Forget(c, r, code) => Elsewhere(c)
           /\ ~Pending(c) /\ UNCHANGED calls => Elsewhere(c)
<1>1. ASSUME NEW code, Answer(c, code) PROVE Elsewhere(c)
  BY <1>1 DEF CallType, Answer, Elsewhere
<1>2. ASSUME NEW phase, phase \notin {"update", "log"}, Goto(c, phase) PROVE Elsewhere(c)
  BY <1>2 DEF CallType, Goto, Elsewhere
<1>3. ~Pending(c) /\ UNCHANGED calls => Elsewhere(c)
  BY DEF Pending, calls, Elsewhere
<1> QED BY <1>1, <1>2, <1>3 DEF AnswerRead, Forget

\* Where such a call was not about to write its entry, it leaves none out.
LEMMA ElsewhereNotes ==
    ASSUME NEW c \in Calls, Elsewhere(c),
           \/ pc[c] # "log"
           \/ Entry(c) \in undone'
           \/ \A i \in Ids : i = cmd[c].id => ~Shown(i)'
    PROVE  EntriesNoted /\ NoneBegins
<1>1. EntriesNoted
  BY DEF Elsewhere, EntriesNoted
<1>2. NoneBegins
  BY DEF Elsewhere, NoneBegins, Pending
<1> QED BY <1>1, <1>2

\* The statements that leave rows and logs alone, and are no part of a test's
\* finding.
LEMMA StepsElsewhere ==
    ASSUME CallType, NEW c \in Calls
    PROVE  /\ AddInvalid(c) \/ AddSet(c) \/ AddInsert(c) \/ AddUndo(c) => Elsewhere(c)
           /\ Get(c) => Elsewhere(c)
           /\ SetEnabled(c) => Elsewhere(c)
           /\ RemoveRead(c) => Elsewhere(c)
           /\ RemoveDelete(c) => Elsewhere(c)
           /\ RemoveForget(c) => Elsewhere(c)
           /\ TestLoad(c) => Elsewhere(c)
           /\ TestInsert(c) => Elsewhere(c)
           /\ TestTrim(c) => Elsewhere(c)
           /\ ConnectorFails(c) => Elsewhere(c)
           /\ ReadConnector(c) => Elsewhere(c)
           /\ ReadSecret(c) => Elsewhere(c)
           /\ Ask(c) \/ ReadFails(c) => Elsewhere(c)
           /\ ProviderStep(c) => Elsewhere(c)
<1>1. /\ \A code : Answer(c, code) => Elsewhere(c)
      /\ \A phase : phase \notin {"update", "log"} /\ Goto(c, phase) => Elsewhere(c)
      /\ \A code : AnswerRead(c, code) => Elsewhere(c)
      /\ \A r, code : Forget(c, r, code) => Elsewhere(c)
  BY GoesElsewhere
<1>2. AddInvalid(c) \/ AddSet(c) \/ AddInsert(c) \/ AddUndo(c) => Elsewhere(c)
  BY <1>1 DEF AddInvalid, AddSet, AddInsert, AddUndo
<1>3. Get(c) => Elsewhere(c)
  BY <1>1 DEF Get
<1>4. SetEnabled(c) => Elsewhere(c)
  BY <1>1 DEF SetEnabled
<1>5. RemoveRead(c) => Elsewhere(c)
  BY <1>1 DEF RemoveRead
<1>6. RemoveDelete(c) => Elsewhere(c)
  BY <1>1 DEF RemoveDelete
<1>7. RemoveForget(c) => Elsewhere(c)
  BY <1>1 DEF RemoveForget
<1>8. TestLoad(c) => Elsewhere(c)
  BY <1>1 DEF TestLoad
<1>9. TestInsert(c) => Elsewhere(c)
  BY <1>1 DEF TestInsert
<1>10. TestTrim(c) => Elsewhere(c)
  BY <1>1 DEF TestTrim
<1>11. ConnectorFails(c) => Elsewhere(c)
  BY <1>1 DEF ConnectorFails, Broken
<1>12. ReadConnector(c) => Elsewhere(c)
  BY <1>1 DEF ReadConnector
<1>13. ReadSecret(c) => Elsewhere(c)
  BY <1>1 DEF ReadSecret
<1>14. Ask(c) \/ ReadFails(c) => Elsewhere(c)
  BY <1>1 DEF Ask, ReadFails
<1>15. ProviderStep(c) => Elsewhere(c)
  <2>1. Configure(c) => Elsewhere(c)
    BY <1>1 DEF Configure
  <2>2. SetProviderOrder(c) => Elsewhere(c)
    BY <1>1 DEF SetProviderOrder
  <2>3. ProbeLoad(c) => Elsewhere(c)
    BY <1>1 DEF ProbeLoad
  <2>4. ProbeReply(c) => Elsewhere(c)
    BY <1>1 DEF ProbeReply
  <2>5. RemoveProvider(c) => Elsewhere(c)
    BY <1>1 DEF RemoveProvider
  <2> QED BY <2>1, <2>2, <2>3, <2>4, <2>5 DEF ProviderStep
<1> QED BY <1>2, <1>3, <1>4, <1>5, <1>6, <1>7, <1>8, <1>9, <1>10, <1>11, <1>12, <1>13,
           <1>14, <1>15

\* Rows and logs that do not change show nothing new.
LEMMA NothingWritten ==
    ASSUME HealthInv, UNCHANGED <<rows, logs>>
    PROVE  RowsShow /\ LogsStay
BY DEF HealthInv, LogInv, RowsShow, LogsStay, Shown

\* Beginning a command.
LEMMA StartKeepsHealth ==
    ASSUME HealthInv, CredentialInv', NEW c \in Calls,
           \/ \E q \in ConnectorCommands[c] : StartConnector(c, q)
           \/ \E q \in ReadCommands[c] : StartRead(c, q)
           \/ \E q \in ProviderCommands[c] : StartProvider(c, q) /\ UNCHANGED connectorVars
    PROVE  HealthInv'
<1>1. UNCHANGED <<rows, logs, found, clock>>
  BY DEF StartConnector, StartRead, connectorVars
<1>2. ASSUME NEW q, NEW permitted, NEW phase, Admit(c, q, permitted, phase),
             phase \notin {"update", "log"}
      PROVE  HealthInv'
  <2>1. /\ pc[c] = "idle" /\ undone' = undone
        /\ pc' = [pc EXCEPT ![c] = "done"] \/ pc' = [pc EXCEPT ![c] = phase]
        /\ cmd' = [cmd EXCEPT ![c] = q]
    BY <1>2 DEF Admit, At
  <2>2. Elsewhere(c)
    BY <1>2, <2>1 DEF HealthInv, CredentialInv, CallType, Elsewhere
  <2> QED BY <1>1, <2>1, <2>2, NothingWritten, ElsewhereNotes, LogsKept
<1>3. ASSUME NEW q \in ConnectorCommands[c], StartConnector(c, q) PROVE HealthInv'
  <2> DEFINE permits == Permits("Ui") /\ (q.op = "test" => Permits("ExternalIntegration"))
             begins == CASE q.op = "add" -> IF q.credential THEN "set" ELSE "insert"
                         [] q.op = "remove" -> "read"
                         [] q.op = "test" -> "load"
                         [] OTHER -> "enable"
  <2>1. Admit(c, q, permits, begins)
    BY <1>3 DEF StartConnector
  <2>2. begins \notin {"update", "log"}
    OBVIOUS
  <2> HIDE DEF permits, begins
  <2> QED BY <1>2, <2>1, <2>2
<1>4. ASSUME NEW q \in ReadCommands[c], StartRead(c, q) PROVE HealthInv'
  <2>1. PICK permitted : Admit(c, q, permitted, "read_connector")
    BY <1>4 DEF StartRead
  <2> QED BY <1>2, <2>1
<1>5. ASSUME NEW q \in ProviderCommands[c], StartProvider(c, q) PROVE HealthInv'
  <2>1. Admit(c, q, TRUE, q.op)
    BY <1>5 DEF StartProvider
  <2>2. q.op \notin {"update", "log"}
    BY CommandsAssumption
  <2> QED BY <1>2, <2>1, <2>2
<1> QED BY <1>3, <1>4, <1>5

\* The commands of add and remove, the reads, and what fails.
LEMMA OthersKeepHealth ==
    ASSUME HealthInv, CredentialInv', NEW c \in Calls,
           \/ AddInvalid(c) \/ AddSet(c) \/ AddInsert(c) \/ AddUndo(c)
           \/ Get(c) \/ SetEnabled(c)
           \/ RemoveRead(c) \/ RemoveDelete(c) \/ RemoveForget(c)
           \/ TestLoad(c) \/ ConnectorFails(c)
           \/ ReadConnector(c) \/ ReadSecret(c) \/ Ask(c) \/ ReadFails(c)
           \/ ProviderStep(c) /\ UNCHANGED connectorVars
    PROVE  HealthInv'
<1>1. CredentialInv /\ CallType /\ DataType /\ LogInv
  BY DEF HealthInv, CredentialInv
<1>2. Elsewhere(c)
  BY <1>1, StepsElsewhere
<1>3. ASSUME UNCHANGED <<rows, logs, found, clock>>, undone \subseteq undone',
             pc[c] # "log" \/ Entry(c) \in undone'
      PROVE  HealthInv'
  BY <1>2, <1>3, NothingWritten, ElsewhereNotes, LogsKept
<1>4. CASE AddInvalid(c) \/ AddSet(c) \/ AddUndo(c)
  BY <1>3, <1>4 DEF AddInvalid, AddSet, AddUndo, At, connectorVars
<1>5. CASE AddInsert(c)
  <2>1. UNCHANGED <<undone, logs, found, clock>> /\ pc[c] = "insert"
    BY <1>5 DEF AddInsert, At
  <2>2. LogsStay
    BY <1>1, <2>1 DEF LogInv, LogsStay
  <2>3. RowsShow
    <3>1. CASE rows' = rows
      BY <3>1 DEF RowsShow, Shown
    <3>2. CASE rows' = [rows EXCEPT ![c] = Row(cmd[c].credential, cmd[c].kind)]
      <4>1. \A i \in Ids : i # c => rows'[i] = rows[i]
        BY <1>1, <3>2 DEF DataType
      <4>2. c \in Ids => ~Shown(c)'
        BY <1>1, <3>2 DEF DataType, Shown, Row
      <4> QED BY <4>1, <4>2 DEF RowsShow, Shown
    <3> QED BY <1>5, <3>1, <3>2 DEF AddInsert
  <2> QED BY <1>2, <2>1, <2>2, <2>3, ElsewhereNotes, LogsKept
<1>6. CASE Get(c) \/ RemoveRead(c) \/ TestLoad(c)
  BY <1>3, <1>6 DEF Get, RemoveRead, TestLoad, At, connectorVars
<1>7. CASE SetEnabled(c)
  <2>1. UNCHANGED <<undone, logs, found, clock>> /\ pc[c] = "enable"
    BY <1>7 DEF SetEnabled, At
  <2>2. LogsStay
    BY <1>1, <2>1 DEF LogInv, LogsStay
  <2>3. RowsShow
    <3>1. CASE rows' = rows
      BY <3>1 DEF RowsShow, Shown
    <3>2. CASE rows[cmd[c].id] # None
               /\ rows' = [rows EXCEPT ![cmd[c].id].enabled = cmd[c].op = "enable"]
      <4>0. PICK j : j = cmd[c].id
        OBVIOUS
      <4>1. \A i \in Ids : i # j => rows'[i] = rows[i]
        BY <1>1, <3>2, <4>0 DEF DataType
      <4>2. ASSUME j \in Ids
            PROVE  rows[j] # None /\ rows'[j].health = rows[j].health
                   /\ rows'[j].checked = rows[j].checked
        BY <1>1, <3>2, <4>0, <4>2 DEF DataType, ConnectorRows
      <4> QED BY <4>1, <4>2 DEF RowsShow, Shown
    <3> QED BY <1>7, <3>1, <3>2 DEF SetEnabled
  <2> QED BY <1>2, <2>1, <2>2, <2>3, ElsewhereNotes, LogsKept
<1>8. CASE RemoveDelete(c)
  <2>0. PICK j : j = cmd[c].id
    OBVIOUS
  <2>1. /\ UNCHANGED <<undone, found, clock>> /\ pc[c] # "log"
        /\ rows' = [rows EXCEPT ![j] = None] /\ logs' = [logs EXCEPT ![j] = {}]
    BY <1>8, <2>0 DEF RemoveDelete
  <2>2. /\ \A i \in Ids : i # j => rows'[i] = rows[i] /\ logs'[i] = logs[i]
        /\ j \in Ids => ~Shown(j)' /\ logs'[j] = {}
        /\ logs' = [i \in Ids |-> logs'[i]]
    BY <1>1, <2>1 DEF DataType, LogInv, Shown
  <2>3. LogsStay /\ RowsShow
    BY <2>2 DEF LogsStay, RowsShow, Shown
  <2> QED BY <1>2, <2>1, <2>3, ElsewhereNotes, LogsKept
<1>9. CASE RemoveForget(c)
  BY <1>3, <1>9 DEF RemoveForget, Forget, At, connectorVars
<1>10. CASE ConnectorFails(c)
  <2>1. UNCHANGED <<rows, logs, found, clock>>
    BY <1>10 DEF ConnectorFails, Broken, connectorVars
  <2>2. undone \subseteq undone' /\ (pc[c] = "log" => Entry(c) \in undone')
    BY <1>10 DEF ConnectorFails, At
  <2> QED BY <1>3, <2>1, <2>2
<1>11. CASE ReadConnector(c) \/ ReadSecret(c) \/ Ask(c) \/ ReadFails(c)
  BY <1>3, <1>11 DEF ReadConnector, ReadSecret, Ask, ReadFails, At, connectorVars
<1>12. CASE ProviderStep(c) /\ UNCHANGED connectorVars
  <2>1. pc[c] # "log" /\ undone \subseteq undone'
    BY <1>12 DEF ProviderStep, Configure, SetProviderOrder, ProbeLoad, ProbeReply,
                 RemoveProvider, Forget, At
  <2> QED BY <1>3, <1>12, <2>1 DEF connectorVars
<1> QED BY <1>4, <1>5, <1>6, <1>7, <1>8, <1>9, <1>10, <1>11, <1>12

-----------------------------------------------------------------------------
(* The steps of a test.                                                    *)

\* A finding is stamped later than every other.
LEMMA FindingKeeps ==
    ASSUME HealthInv, CredentialInv', NEW c \in Calls, NEW o, Finding(c, o), ~Pending(c),
           UNCHANGED <<rows, logs, undone>>
    PROVE  HealthInv'
<1>1. /\ CallType /\ DataType /\ LogInv /\ StampInv /\ RecordInv
      /\ clock \in Nat /\ clock + 1 \in Nat
  BY DEF HealthInv, CredentialInv, DataType
<1>2. /\ clock' = clock + 1 /\ cmd' = cmd /\ pc'[c] = "update"
      /\ found'[c].checked = clock + 1
      /\ \A d \in Calls : d # c => pc'[d] = pc[d] /\ found'[d] = found[d]
  BY <1>1 DEF Finding, Goto, CallType, DataType
<1>3. \A n \in 1 .. clock : n \in 1 .. clock' /\ n # clock'
  BY <1>1, <1>2
<1>4. LogInv'
  BY <1>1, <1>3 DEF LogInv, Stamped
<1>5. ASSUME NEW d \in Calls, d # c, Pending(d)'
      PROVE  Pending(d) /\ found'[d] = found[d] /\ found[d].checked \in 1 .. clock
  BY <1>1, <1>2, <1>5 DEF Pending, StampInv
<1>6. StampInv'
  <2>1. \A d \in Calls : Pending(d)' => found'[d].checked \in 1 .. clock'
    BY <1>1, <1>2, <1>3, <1>5
  <2>2. ASSUME NEW d \in Calls, NEW e \in Calls, Pending(d)', Pending(e)',
               found'[d].checked = found'[e].checked
        PROVE  d = e
    <3>1. CASE d # c /\ e # c
      BY <1>1, <1>5, <2>2, <3>1 DEF StampInv
    <3>2. CASE d = c /\ e # c
      BY <1>2, <1>3, <1>5, <2>2, <3>2
    <3>3. CASE d # c /\ e = c
      BY <1>2, <1>3, <1>5, <2>2, <3>3
    <3> QED BY <3>1, <3>2, <3>3
  <2>3. ASSUME NEW d \in Calls, Pending(d)', NEW i \in Ids, NEW e \in logs[i]
        PROVE  e.checked # found'[d].checked
    <3>1. CASE d # c
      BY <1>1, <1>5, <2>3, <3>1 DEF StampInv
    <3>2. CASE d = c
      <4>1. e.checked \in 1 .. clock
        BY <1>1 DEF LogInv, Stamped
      <4> QED BY <1>2, <1>3, <3>2, <4>1
    <3> QED BY <3>1, <3>2
  <2> QED BY <2>1, <2>2, <2>3 DEF StampInv
<1>7. RecordInv'
  <2>1. \A i \in Ids : (Shown(i)' <=> Shown(i)) /\ (Logged(i)' <=> Logged(i))
    BY DEF Shown, Logged
  <2>2. ASSUME NEW d \in Calls, NEW i \in Ids, Logging(d, i)
        PROVE  Logging(d, i)'
    <3>1. d # c
      BY <2>2 DEF Logging, Pending
    <3> QED BY <1>2, <2>2, <3>1 DEF Logging
  <2> QED BY <1>1, <2>1, <2>2 DEF RecordInv
<1> QED BY <1>4, <1>6, <1>7 DEF HealthInv

\* An attempt, or a probe, has a finding, or is made again.
LEMMA AttemptKeeps ==
    ASSUME HealthInv, CredentialInv', NEW c \in Calls, TestAttempt(c) \/ TestProbe(c)
    PROVE  HealthInv'
<1>1. UNCHANGED <<rows, logs, undone>> /\ pc[c] \in {"attempt", "probe"} /\ ~Pending(c)
  BY DEF TestAttempt, TestProbe, At, Pending
<1>2. CASE \E o : Finding(c, o)
  BY <1>1, <1>2, FindingKeeps
<1>3. CASE UNCHANGED <<calls, clock, found>>
  <2>1. Elsewhere(c)
    BY <1>1, <1>3, GoesElsewhere DEF HealthInv, CredentialInv
  <2> QED BY <1>1, <1>3, <2>1, NothingWritten, ElsewhereNotes, LogsKept
<1> QED BY <1>2, <1>3 DEF TestAttempt, TestProbe

\* A test that writes a health is about to write its entry.
LEMMA UpdateKeeps ==
    ASSUME HealthInv, CredentialInv', NEW c \in Calls, TestUpdate(c)
    PROVE  HealthInv'
<1>1. /\ CallType /\ DataType /\ LogInv /\ StampInv /\ RecordInv
      /\ UNCHANGED <<undone, logs, found, clock, cmd>> /\ pc[c] = "update"
  BY DEF HealthInv, CredentialInv, TestUpdate, At, Goto
<1>2. pc'[c] = "log" /\ \A d \in Calls : d # c => pc'[d] = pc[d]
  BY <1>1 DEF TestUpdate, Goto, CallType
<1>3. LogInv'
  BY <1>1 DEF LogInv
<1>4. \A d \in Calls : Pending(d)' <=> Pending(d)
  BY <1>1, <1>2 DEF Pending
<1>5. StampInv'
  BY <1>1, <1>4 DEF StampInv
<1>6. \A d \in Calls, i \in Ids : Logging(d, i) => d # c
  BY <1>1 DEF Logging
<1>7. PICK j : j = cmd[c].id
  OBVIOUS
<1>8. RecordInv'
  <2> SUFFICES ASSUME NEW i \in Ids, Shown(i)'
               PROVE  \/ Logged(i)'
                      \/ \E d \in Calls : Logging(d, i)'
                      \/ <<"log", i, rows'[i].checked>> \in undone'
                      \/ Cardinality(Newer(logs'[i], rows'[i].checked)) >= LogLimit
    BY DEF RecordInv
  <2>1. CASE rows'[i] = rows[i]
    <3>1. (Shown(i)' <=> Shown(i)) /\ (Logged(i)' <=> Logged(i))
      BY <1>1, <2>1 DEF Shown, Logged
    <3>2. \A d \in Calls : Logging(d, i) => Logging(d, i)'
      BY <1>1, <1>2, <1>6, <2>1 DEF Logging
    <3> QED BY <1>1, <2>1, <3>1, <3>2 DEF RecordInv
  <2>2. CASE rows'[i] # rows[i]
    <3>1. /\ rows[j] # None
          /\ rows' = [rows EXCEPT ![j].health = found[c].outcome,
                                  ![j].checked = found[c].checked]
      BY <1>7, <2>2 DEF TestUpdate
    <3>2. i = j
      BY <1>1, <2>2, <3>1 DEF DataType
    <3>3. rows'[i].health = found[c].outcome /\ rows'[i].checked = found[c].checked
      BY <1>1, <3>1, <3>2 DEF DataType, ConnectorRows
    <3>4. Logging(c, i)'
      BY <1>1, <1>2, <1>7, <3>2, <3>3 DEF Logging
    <3> QED BY <3>4
  <2> QED BY <2>1, <2>2
<1> QED BY <1>3, <1>5, <1>8 DEF HealthInv

\* A newer entry makes no entry less new.
LEMMA MoreEntries ==
    ASSUME NEW now, NEW log, Stamped(log, now), NEW e, e.checked \in 1 .. now, NEW stamp
    PROVE  /\ Stamped(log \cup {e}, now)
           /\ Cardinality(Newer(log, stamp)) >= LogLimit =>
                  Cardinality(Newer(log \cup {e}, stamp)) >= LogLimit
<1>1. IsFiniteSet(log) /\ IsFiniteSet(log \cup {e})
  BY FS_AddElement DEF Stamped
<1>2. Stamped(log \cup {e}, now)
  BY <1>1 DEF Stamped
<1>3. /\ Newer(log \cup {e}, stamp) \in SUBSET (log \cup {e})
      /\ Newer(log, stamp) \in SUBSET Newer(log \cup {e}, stamp)
  BY DEF Newer
<1>4. IsFiniteSet(Newer(log \cup {e}, stamp))
  BY <1>1, <1>3, FS_Subset
<1>5. /\ Cardinality(Newer(log, stamp)) <= Cardinality(Newer(log \cup {e}, stamp))
      /\ IsFiniteSet(Newer(log, stamp))
  BY <1>3, <1>4, FS_Subset
<1>6. /\ Cardinality(Newer(log, stamp)) \in Nat
      /\ Cardinality(Newer(log \cup {e}, stamp)) \in Nat
  BY <1>4, <1>5, FS_CardinalityType
<1> QED BY <1>2, <1>5, <1>6, LimitAssumption

\* The entry is written, unless the row is gone.
LEMMA InsertKeeps ==
    ASSUME HealthInv, CredentialInv', NEW c \in Calls, TestInsert(c)
    PROVE  HealthInv'
<1>1. /\ CallType /\ DataType /\ ServesInv /\ LogInv /\ StampInv /\ RecordInv
      /\ UNCHANGED <<undone, rows, found, clock>> /\ pc[c] = "log"
  BY DEF HealthInv, CredentialInv, TestInsert, At
<1>2. Elsewhere(c)
  BY <1>1, StepsElsewhere
<1>3. PICK j : j = cmd[c].id
  OBVIOUS
<1>4. j \in Ids
  BY <1>1, <1>3 DEF ServesInv, Serves, OnConnector
<1>5. CASE rows[j] = None
  <2>1. UNCHANGED logs /\ \A i \in Ids : i = cmd[c].id => ~Shown(i)'
    BY <1>1, <1>3, <1>5 DEF TestInsert, Shown
  <2> QED BY <1>1, <1>2, <2>1, NothingWritten, ElsewhereNotes, LogsKept
<1>6. CASE rows[j] # None
  <2>1. logs' = [logs EXCEPT ![j] = @ \cup {found[c]}]
    BY <1>3, <1>6 DEF TestInsert
  <2>2. /\ logs'[j] = logs[j] \cup {found[c]}
        /\ \A i \in Ids : i # j => logs'[i] = logs[i]
        /\ logs' = [i \in Ids |-> logs'[i]]
    BY <1>1, <1>4, <2>1 DEF LogInv
  <2>3. /\ Pending(c) /\ ~Pending(c)' /\ found[c].checked \in 1 .. clock
        /\ \A d \in Calls : d # c => pc'[d] = pc[d] /\ cmd'[d] = cmd[d]
        /\ \A d \in Calls : Pending(d)' => Pending(d)
    BY <1>1, <1>2 DEF Elsewhere, Pending, StampInv
  <2>4. \A i \in Ids : Stamped(logs[i], clock)
    BY <1>1 DEF LogInv
  <2>5. LogInv'
    <3>1. \A i \in Ids : Stamped(logs'[i], clock)
      BY <2>2, <2>3, <2>4, MoreEntries
    <3>2. \A i \in Ids : \A e, f \in logs'[i] : e.checked = f.checked => e = f
      BY <1>1, <2>2, <2>3 DEF LogInv, StampInv
    <3> QED BY <1>1, <2>2, <3>1, <3>2 DEF LogInv
  <2>6. StampInv'
    <3>1. ASSUME NEW d \in Calls, Pending(d)', NEW i \in Ids, NEW e \in logs'[i]
          PROVE  e.checked # found[d].checked
      <4>1. Pending(d) /\ d # c
        BY <2>3, <3>1
      <4>2. e \in logs[i] \/ e = found[c]
        BY <2>2
      <4> QED BY <1>1, <2>3, <4>1, <4>2 DEF StampInv
    <3> QED BY <1>1, <2>3, <3>1 DEF StampInv
  <2>7. RecordInv'
    <3> SUFFICES ASSUME NEW i \in Ids, Shown(i)
                 PROVE  \/ Logged(i)'
                        \/ \E d \in Calls : Logging(d, i)'
                        \/ <<"log", i, rows[i].checked>> \in undone
                        \/ Cardinality(Newer(logs'[i], rows[i].checked)) >= LogLimit
      BY <1>1 DEF RecordInv, Shown
    <3>1. CASE Logged(i)
      BY <1>1, <2>2, <3>1 DEF Logged
    <3>2. CASE \E d \in Calls : Logging(d, i)
      <4>1. PICK d \in Calls : Logging(d, i)
        BY <3>2
      <4>2. CASE d = c
        BY <1>1, <1>3, <2>2, <4>1, <4>2 DEF Logging, Logged
      <4>3. CASE d # c
        BY <1>1, <2>3, <4>1, <4>3 DEF Logging
      <4> QED BY <4>2, <4>3
    <3>3. CASE Cardinality(Newer(logs[i], rows[i].checked)) >= LogLimit
      <4>1. CASE i # j
        BY <2>2, <3>3, <4>1
      <4>2. CASE i = j
        <5>1. PICK s, e : s = rows[i].checked /\ e = found[c]
          OBVIOUS
        <5>2. Cardinality(Newer(logs[j], s)) >= LogLimit /\ logs'[j] = logs[j] \cup {e}
          BY <2>2, <3>3, <4>2, <5>1
        <5>3. Cardinality(Newer(logs[j] \cup {e}, s)) >= LogLimit
          BY <1>4, <2>3, <2>4, <5>1, <5>2, MoreEntries
        <5> QED BY <4>2, <5>1, <5>2, <5>3
      <4> QED BY <4>1, <4>2
    <3> QED BY <1>1, <3>1, <3>2, <3>3 DEF RecordInv
  <2> QED BY <2>5, <2>6, <2>7 DEF HealthInv
<1> QED BY <1>5, <1>6

\* The trim drops a health's entry only for as many newer ones as fit.
LEMMA TrimKeepsHealth ==
    ASSUME HealthInv, CredentialInv', NEW c \in Calls, TestTrim(c)
    PROVE  HealthInv'
<1>1. /\ CallType /\ DataType /\ ServesInv /\ LogInv /\ StampInv /\ RecordInv
      /\ UNCHANGED <<undone, rows, found, clock>> /\ pc[c] = "trim" /\ clock \in Nat
  BY DEF HealthInv, CredentialInv, TestTrim, At, DataType
<1>2. /\ ~Pending(c)' /\ \A d \in Calls : d # c => pc'[d] = pc[d] /\ cmd'[d] = cmd[d]
      /\ \A d \in Calls : Pending(d)' => Pending(d)
  BY <1>1, StepsElsewhere DEF Elsewhere, Pending
<1>3. PICK j : j = cmd[c].id
  OBVIOUS
<1>4. j \in Ids
  BY <1>1, <1>3 DEF ServesInv, Serves, OnConnector
<1>5. /\ logs'[j] = Newest(logs[j])
      /\ \A i \in Ids : i # j => logs'[i] = logs[i]
      /\ logs' = [i \in Ids |-> logs'[i]]
  <2>1. logs' = [logs EXCEPT ![j] = Newest(@)]
    BY <1>3 DEF TestTrim
  <2> QED BY <1>1, <1>4, <2>1 DEF LogInv
<1>6. /\ Stamped(logs[j], clock)
      /\ \A e, f \in logs[j] : e.checked = f.checked => e = f
  BY <1>1, <1>4 DEF LogInv
<1>7. \A i \in Ids : logs'[i] \subseteq logs[i]
  <2>1. Newest(logs[j]) \in SUBSET logs[j]
    BY <1>1, <1>6, NewestIsTop
  <2> QED BY <1>5, <2>1
<1>8. LogInv'
  <2>1. ASSUME NEW i \in Ids PROVE Stamped(logs'[i], clock)
    <3>1. Stamped(logs[i], clock)
      BY <1>1 DEF LogInv
    <3>2. IsFiniteSet(logs'[i])
      BY <1>7, <3>1, FS_Subset DEF Stamped
    <3> QED BY <1>7, <3>1, <3>2 DEF Stamped
  <2> QED BY <1>1, <1>5, <1>7, <2>1 DEF LogInv
<1>9. StampInv'
  BY <1>1, <1>2, <1>7 DEF StampInv
<1>10. RecordInv'
  <2> SUFFICES ASSUME NEW i \in Ids, Shown(i)
               PROVE  \/ Logged(i)'
                      \/ \E d \in Calls : Logging(d, i)'
                      \/ <<"log", i, rows[i].checked>> \in undone
                      \/ Cardinality(Newer(logs'[i], rows[i].checked)) >= LogLimit
    BY <1>1 DEF RecordInv, Shown
  <2>1. \A d \in Calls : Logging(d, i) => Logging(d, i)'
    BY <1>1, <1>2 DEF Logging
  <2>2. CASE i # j
    <3>1. Logged(i) => Logged(i)'
      BY <1>1, <1>5, <2>2 DEF Logged
    <3> QED BY <1>1, <1>5, <2>1, <2>2, <3>1 DEF RecordInv
  <2>3. CASE i = j
    <3> DEFINE stamp == rows[j].checked
    <3>1. stamp \in Nat
      BY <1>1, <1>4, <2>3 DEF DataType, Shown, ConnectorRows
    <3>2. PICK s : s = stamp
      OBVIOUS
    <3>3. ASSUME \/ \E f \in logs[j] \ Newest(logs[j]) : f.checked = s
                 \/ Cardinality(Newer(logs[j], s)) >= LogLimit
          PROVE  Cardinality(Newer(Newest(logs[j]), s)) >= LogLimit
      BY <1>1, <1>6, <3>1, <3>2, <3>3, TrimKeeps
    <3>4. CASE Logged(i)
      <4>1. PICK f \in logs[j] : f.outcome = rows[j].health /\ f.checked = s
        BY <2>3, <3>2, <3>4 DEF Logged
      <4>2. CASE f \in Newest(logs[j])
        BY <1>1, <1>5, <2>3, <3>2, <4>1, <4>2 DEF Logged
      <4>3. CASE f \notin Newest(logs[j])
        BY <1>5, <2>3, <3>2, <3>3, <4>1, <4>3
      <4> QED BY <4>2, <4>3
    <3>5. CASE Cardinality(Newer(logs[i], rows[i].checked)) >= LogLimit
      BY <1>5, <2>3, <3>2, <3>3, <3>5
    <3> QED BY <1>1, <2>1, <3>4, <3>5 DEF RecordInv
  <2> QED BY <2>2, <2>3
<1> QED BY <1>8, <1>9, <1>10 DEF HealthInv

\* A restart cuts tests off, and what that leaves out is noted.
LEMMA RestartKeepsHealth ==
    ASSUME HealthInv, CredentialInv', Restart
    PROVE  HealthInv'
<1> DEFINE lost == {c \in Calls : pc[c] \notin {"idle", "done"}}
<1>1. /\ pc' = [c \in Calls |-> IF c \in lost THEN "done" ELSE pc[c]]
      /\ undone' = undone \cup UNION {Cut(c) : c \in lost}
      /\ UNCHANGED <<cmd, rows, logs, found, clock>>
  BY DEF Restart, connectorVars
<1>2. \A c \in Calls : pc'[c] \in {"idle", "done"}
  BY <1>1
<1>3. NoneBegins
  BY <1>2 DEF NoneBegins, Pending
<1>4. EntriesNoted
  <2>1. ASSUME NEW c \in Calls, pc[c] = "log" PROVE Entry(c) \in undone'
    <3>1. c \in lost /\ Entry(c) \in Cut(c)
      BY <2>1 DEF Cut
    <3> QED BY <1>1, <3>1
  <2> QED BY <2>1 DEF EntriesNoted
<1>5. undone \subseteq undone' /\ UNCHANGED <<rows, logs, found, clock>>
  BY <1>1
<1> QED BY <1>3, <1>4, <1>5, NothingWritten, LogsKept

\* Nothing is shown before the first test.
LEMMA InitHealthInv == Init => HealthInv
<1> SUFFICES ASSUME Init PROVE HealthInv
  OBVIOUS
<1>1. CredentialInv
  BY InitCredentialInv
<1>2. PICK owners \in SUBSET Stored, kind \in {"fixture", "remote"} :
          rows = [i \in Ids |-> IF i \in Stored THEN Row(i \in owners, kind) ELSE None]
  BY DEF Init, ConnectorsInit
<1>3. logs = [i \in Ids |-> {}] /\ pc = [c \in Calls |-> "idle"]
  BY DEF Init, ConnectorsInit, KeychainInit
<1>4. LogInv
  BY <1>3, FS_EmptySet DEF LogInv, Stamped
<1>5. StampInv
  BY <1>3 DEF StampInv, Pending
<1>6. \A i \in Ids : ~Shown(i)
  BY <1>2 DEF Shown, Row
<1> QED BY <1>1, <1>4, <1>5, <1>6 DEF HealthInv, RecordInv

\* Every step keeps the invariant.
LEMMA NextHealthInv == HealthInv /\ [Next]_vars => HealthInv'
<1> SUFFICES ASSUME HealthInv, [Next]_vars PROVE HealthInv'
  OBVIOUS
<1>1. CredentialInv'
  BY NextCredentialInv DEF HealthInv
<1>2. ASSUME NEW c \in Calls,
             \/ \E q \in ConnectorCommands[c] : StartConnector(c, q)
             \/ \E q \in ReadCommands[c] : StartRead(c, q)
             \/ \E q \in ProviderCommands[c] : StartProvider(c, q) /\ UNCHANGED connectorVars
      PROVE  HealthInv'
  BY <1>1, <1>2, StartKeepsHealth
<1>3. ASSUME NEW c \in Calls, Step(c) PROVE HealthInv'
  <2>1. CASE TestAttempt(c) \/ TestProbe(c)
    BY <1>1, <2>1, AttemptKeeps
  <2>2. CASE TestUpdate(c)
    BY <1>1, <2>2, UpdateKeeps
  <2>3. CASE TestInsert(c)
    BY <1>1, <2>3, InsertKeeps
  <2>4. CASE TestTrim(c)
    BY <1>1, <2>4, TrimKeepsHealth
  <2>5. CASE \/ AddInvalid(c) \/ AddSet(c) \/ AddInsert(c) \/ AddUndo(c)
             \/ Get(c) \/ SetEnabled(c)
             \/ RemoveRead(c) \/ RemoveDelete(c) \/ RemoveForget(c)
             \/ TestLoad(c) \/ ConnectorFails(c)
             \/ ReadConnector(c) \/ ReadSecret(c) \/ Ask(c) \/ ReadFails(c)
             \/ ProviderStep(c) /\ UNCHANGED connectorVars
    BY <1>1, <2>5, OthersKeepHealth
  <2> QED BY <1>3, <2>1, <2>2, <2>3, <2>4, <2>5 DEF Step, ConnectorStep
<1>4. CASE Restart
  BY <1>1, <1>4, RestartKeepsHealth
<1>5. CASE UNCHANGED vars
  <2>1. UNCHANGED <<pc, cmd, undone, rows, logs, found, clock>>
    BY <1>5 DEF vars, calls, connectorVars
  <2>2. EntriesNoted /\ NoneBegins
    BY <2>1 DEF EntriesNoted, NoneBegins, Pending
  <2> QED BY <1>1, <2>1, <2>2, NothingWritten, LogsKept
<1> QED BY <1>2, <1>3, <1>4, <1>5 DEF Next

\* However tests of one connector overlap with each other, with the commands
\* that disable or remove it, with statements that fail and with restarts, the
\* health it shows is in its log, unless the very test that wrote it has yet
\* to write its entry or was kept from that, or newer tests have filled the
\* log (connectors.rs: test_connection).
THEOREM HealthsAreOnRecord == Spec => []HealthOnRecord
<1>1. HealthInv => HealthOnRecord
  <2> SUFFICES ASSUME HealthInv, NEW i \in Ids, Shown(i)
               PROVE  \/ \E entry \in logs[i] :
                            /\ entry.outcome = rows[i].health
                            /\ entry.checked = rows[i].checked
                      \/ \E c \in Calls :
                            pc[c] = "log" /\ Entry(c) = <<"log", i, rows[i].checked>>
                      \/ <<"log", i, rows[i].checked>> \in undone
                      \/ Cardinality({entry \in logs[i] : entry.checked > rows[i].checked})
                            >= LogLimit
    BY DEF HealthOnRecord, Shown
  <2>1. \A c \in Calls : Logging(c, i) =>
            pc[c] = "log" /\ Entry(c) = <<"log", i, rows[i].checked>>
    BY DEF Logging, Entry
  <2>2. \/ Logged(i)
        \/ \E c \in Calls : Logging(c, i)
        \/ <<"log", i, rows[i].checked>> \in undone
        \/ Cardinality(Newer(logs[i], rows[i].checked)) >= LogLimit
    BY DEF HealthInv, RecordInv
  <2> QED BY <2>1, <2>2 DEF Logged, Newer
<1> QED BY <1>1, InitHealthInv, NextHealthInv, PTL DEF Spec
=============================================================================
