----------------------------- MODULE Connectors -----------------------------
(***************************************************************************)
(* The connectors: rows of a database, each with a log of connection       *)
(* tests, and their credentials in the keychain.  The two stores have no   *)
(* transaction in common, and a command runs each of its statements by     *)
(* itself, so that commands, other commands' tests and a stop of the       *)
(* application fall between any two of them.                               *)
(*                                                                         *)
(* A connector is named by the call that added it, or is one of Stored,    *)
(* left by an earlier run of the application.                              *)
(***************************************************************************)
EXTENDS Keychain, SequencesExt

CONSTANTS
    Stored,       \* connectors there when the application starts
    Document,     \* the policy document it booted with
    Outcomes,     \* what a probe may find
    MaxAttempts,  \* CONNECTION_MAX_ATTEMPTS
    LogLimit      \* LOG_HISTORY_LIMIT

VARIABLES
    rows,         \* connector_instances
    logs,         \* connector_test_logs, per connector
    clock,        \* the tests that took a time stamp
    tries,        \* per call: the attempts its test has made
    found         \* per call: its test's finding

connectorVars == <<rows, logs, clock, tries, found>>

Ids == Calls \cup Stored

Row(credential, kind) ==
    [enabled |-> TRUE, credential |-> credential, kind |-> kind,
     health |-> "unavailable", checked |-> 0]

ConnectorRows ==
    [enabled : BOOLEAN, credential : BOOLEAN, kind : {"fixture", "remote"},
     health : Outcomes \cup {"healthy", "unavailable"}, checked : Nat]

\* A call names one connector, and nothing is neither a row nor an answer.
ASSUME NamesAssumption ==
    Calls \cap Stored = {} /\ None \notin ConnectorRows /\ None # "ok"
ASSUME LimitAssumption == LogLimit \in Nat

NoFinding == [outcome |-> "unavailable", checked |-> 0]

ConnectorsInit ==
    /\ \E owners \in SUBSET Stored, kind \in {"fixture", "remote"} :
          /\ rows = [i \in Ids |->
                        IF i \in Stored THEN Row(i \in owners, kind) ELSE None]
          /\ secrets = {Reference("connector", i) : i \in owners}
    /\ logs = [i \in Ids |-> {}]
    /\ clock = 0
    /\ tries = [c \in Calls |-> 0]
    /\ found = [c \in Calls |-> NoFinding]

Held(i) == Reference("connector", i)

Permits(destination) ==
    EvaluateEgress(Document, Verified("Internal", destination)) = "Allowed"

-----------------------------------------------------------------------------

\* connector_command, and the checks of connector_test, which also asks
\* whether the probe may leave.
StartConnector(c, command) ==
    /\ Admit(c, command,
             /\ Permits("Ui")
             /\ command.op = "test" => Permits("ExternalIntegration"),
             CASE command.op = "add" ->
                      IF command.credential THEN "set" ELSE "insert"
               [] command.op = "remove" -> "read"
               [] command.op = "test" -> "load"
               [] OTHER -> "enable")
    /\ UNCHANGED connectorVars

\* A statement the database refuses ends the command.
Broken(c) ==
    /\ Answer(c, "database_failed")
    /\ UNCHANGED <<secrets, connectorVars>>

\* validate_add_request, before anything is written.
AddInvalid(c) ==
    /\ \/ At(c, "set")
       \/ At(c, "insert") /\ ~cmd[c].credential
    /\ Answer(c, "invalid")
    /\ UNCHANGED <<secrets, undone, connectorVars>>

AddSet(c) ==
    /\ At(c, "set")
    /\ \/ /\ secrets' = secrets \cup {Held(c)}
          /\ Goto(c, "insert")
       \/ /\ Answer(c, "credential_failed")
          /\ UNCHANGED secrets
    /\ UNCHANGED <<undone, connectorVars>>

AddInsert(c) ==
    /\ At(c, "insert")
    /\ \/ /\ rows' = [rows EXCEPT ![c] = Row(cmd[c].credential, cmd[c].kind)]
          /\ Goto(c, "get")
       \/ /\ IF cmd[c].credential THEN Goto(c, "undo")
                                  ELSE Answer(c, "database_failed")
          /\ UNCHANGED rows
    /\ UNCHANGED <<secrets, undone, logs, clock, tries, found>>

\* Mutant: the insert's failure is returned at once.
AddUndoNothing(c) ==
    /\ At(c, "undo")
    /\ Answer(c, "database_failed")
    /\ UNCHANGED <<secrets, undone, connectorVars>>

\* The secret is taken back; that this fails is not reported.
AddUndo(c) ==
    /\ At(c, "undo")
    /\ \/ /\ secrets' = secrets \ {Held(c)}
          /\ UNCHANGED undone
       \/ /\ undone' = undone \cup {Held(c)}
          /\ UNCHANGED secrets
    /\ Answer(c, "database_failed")
    /\ UNCHANGED connectorVars

Subject(c) == IF cmd[c].op = "add" THEN c ELSE cmd[c].id

\* get: the answer of add, enable, disable and test.  It needs the keychain
\* to tell whether a referenced credential is there.
Get(c) ==
    LET row == rows[Subject(c)]
    IN  /\ At(c, "get")
        /\ \/ Answer(c, IF row = None THEN "not_found" ELSE "ok")
           \/ row # None /\ row.credential /\ Answer(c, "credential_failed")
        /\ UNCHANGED <<secrets, undone, connectorVars>>

SetEnabled(c) ==
    LET i == cmd[c].id
    IN  /\ At(c, "enable")
        /\ IF rows[i] = None
           THEN Answer(c, "not_found") /\ UNCHANGED rows
           ELSE /\ rows' = [rows EXCEPT ![i].enabled = cmd[c].op = "enable"]
                /\ Goto(c, "get")
        /\ UNCHANGED <<secrets, undone, logs, clock, tries, found>>

\* Mutant: the credential goes before its row.
RemoveReadForgets(c) ==
    LET row == rows[cmd[c].id]
    IN  /\ At(c, "read")
        /\ IF row = None
           THEN Answer(c, "not_found") /\ UNCHANGED secrets
           ELSE /\ Goto(c, IF row.credential THEN "delete" ELSE "delete_row")
                /\ secrets' = secrets \ {Held(cmd[c].id)}
        /\ UNCHANGED <<undone, connectorVars>>

RemoveRead(c) ==
    LET row == rows[cmd[c].id]
    IN  /\ At(c, "read")
        /\ IF row = None
           THEN Answer(c, "not_found")
           ELSE Goto(c, IF row.credential THEN "delete" ELSE "delete_row")
        /\ UNCHANGED <<secrets, undone, connectorVars>>

\* The row goes with its logs, and without asking whether it is still there.
RemoveDelete(c) ==
    /\ pc[c] \in {"delete", "delete_row"}
    /\ rows' = [rows EXCEPT ![cmd[c].id] = None]
    /\ logs' = [logs EXCEPT ![cmd[c].id] = {}]
    /\ IF At(c, "delete") THEN Goto(c, "forget") ELSE Answer(c, "ok")
    /\ UNCHANGED <<secrets, undone, clock, tries, found>>

RemoveForget(c) ==
    /\ At(c, "forget")
    /\ Forget(c, Held(cmd[c].id), "ok")
    /\ UNCHANGED connectorVars

-----------------------------------------------------------------------------
(* test_connection. *)

TestLoad(c) ==
    LET row == rows[cmd[c].id]
    IN  /\ At(c, "load")
        /\ IF row = None THEN Answer(c, "not_found")
           ELSE \/ row.credential /\ Answer(c, "credential_failed")
                \/ IF row.enabled
                   THEN Goto(c, IF row.kind = "fixture" THEN "attempt"
                                                       ELSE "probe")
                   ELSE Answer(c, "disabled")
        /\ UNCHANGED <<secrets, undone, connectorVars>>

Finding(c, outcome) ==
    /\ clock' = clock + 1
    /\ found' = [found EXCEPT ![c] = [outcome |-> outcome,
                                      checked |-> clock + 1]]
    /\ Goto(c, "update")

\* Mutant: after the last attempt the count starts again.
TestAttemptForever(c) ==
    /\ At(c, "attempt")
    /\ \/ (\E o \in Outcomes : Finding(c, o)) /\ UNCHANGED tries
       \/ /\ tries' = [tries EXCEPT ![c] = (@ + 1) % MaxAttempts]
          /\ UNCHANGED <<calls, clock, found>>
    /\ UNCHANGED <<secrets, undone, rows, logs>>

\* A fixture is tried again after a failure, a fixed number of times.
TestAttempt(c) ==
    /\ At(c, "attempt")
    /\ \/ (\E o \in Outcomes : Finding(c, o)) /\ UNCHANGED tries
       \/ IF tries[c] + 1 < MaxAttempts
          THEN /\ tries' = [tries EXCEPT ![c] = @ + 1]
               /\ UNCHANGED <<calls, clock, found>>
          ELSE Finding(c, "unavailable") /\ UNCHANGED tries
    /\ UNCHANGED <<secrets, undone, rows, logs>>

\* The other kinds are asked once.
TestProbe(c) ==
    /\ At(c, "probe")
    /\ \E o \in {"healthy", "unavailable"} : Finding(c, o)
    /\ UNCHANGED <<secrets, undone, rows, logs, tries>>

\* Whatever became of the row meanwhile: disabled, or gone.
TestUpdate(c) ==
    LET i == cmd[c].id
    IN  /\ At(c, "update")
        /\ rows' = IF rows[i] = None THEN rows
                   ELSE [rows EXCEPT ![i].health = found[c].outcome,
                                     ![i].checked = found[c].checked]
        /\ Goto(c, "log")
        /\ UNCHANGED <<secrets, undone, logs, clock, tries, found>>

\* A log entry refers to its row, and the database insists on it.
TestInsert(c) ==
    LET i == cmd[c].id
    IN  /\ At(c, "log")
        /\ IF rows[i] = None
           THEN Answer(c, "database_failed") /\ UNCHANGED logs
           ELSE /\ logs' = [logs EXCEPT ![i] = @ \cup {found[c]}]
                /\ Goto(c, "trim")
        /\ UNCHANGED <<secrets, undone, rows, clock, tries, found>>

\* What the limit leaves of a log.
Extent(log) == IF Cardinality(log) > LogLimit THEN LogLimit ELSE Cardinality(log)

\* Mutant: the oldest entries are kept.
Oldest(log) ==
    CHOOSE kept \in SUBSET log :
        /\ Cardinality(kept) = Extent(log)
        /\ \A e \in kept : \A f \in log \ kept : e.checked <= f.checked

Newest(log) ==
    CHOOSE kept \in SUBSET log :
        /\ Cardinality(kept) = Extent(log)
        /\ \A e \in kept : \A f \in log \ kept : e.checked >= f.checked

TestTrim(c) ==
    /\ At(c, "trim")
    /\ logs' = [logs EXCEPT ![cmd[c].id] = Newest(@)]
    /\ Goto(c, "get")
    /\ UNCHANGED <<secrets, undone, rows, clock, tries, found>>

-----------------------------------------------------------------------------

\* The entry a test has yet to write.
Entry(c) == <<"log", cmd[c].id, found[c].checked>>

\* A read or a write of the database fails before it has done anything.
ConnectorFails(c) ==
    /\ pc[c] \in {"get", "enable", "read", "delete", "delete_row", "load",
                  "update", "log", "trim"}
    /\ Broken(c)
    /\ undone' = IF At(c, "log") THEN undone \cup {Entry(c)} ELSE undone

-----------------------------------------------------------------------------
(* Commands that read through a connector: the inventories of Kubernetes   *)
(* and of the clouds, and the queries of the observability systems.  Each  *)
(* reads the connector, then, if that has one, its credential, and then    *)
(* asks the remote system, while other commands change the connector.      *)

\* Kubernetes asks for the answer only; the clouds for the request too; the
\* observability commands ask for both after they have read the connector.
StartRead(c, command) ==
    /\ Admit(c, command,
             CASE command.family = "kubernetes" -> Permits("Ui")
               [] command.family = "cloud" ->
                      Permits("ExternalIntegration") /\ Permits("Ui")
               [] OTHER -> TRUE,
             "read_connector")
    /\ UNCHANGED connectorVars

Observes(c) == cmd[c].family = "observability"

\* What an observability command answers is decided by policy at the end.
AnswerRead(c, code) ==
    Answer(c, IF Observes(c) /\ ~Permits("Ui") THEN "policy_denied" ELSE code)

\* A connector of another kind does not exist for an observability command;
\* the others look at its kind last.
ReadVerdict(c, row) ==
    LET other == row.kind # cmd[c].kind
    IN  CASE row = None -> "not_found"
          [] row # None /\ Observes(c) /\ other -> "not_found"
          [] row # None /\ ~row.enabled /\ ~(Observes(c) /\ other) -> "disabled"
          [] row # None /\ row.enabled /\ other /\ ~Observes(c) -> "invalid"
          [] row # None /\ row.enabled /\ ~other ->
                 IF Observes(c) /\ ~Permits("ExternalIntegration")
                 THEN "policy_denied" ELSE "ok"

ReadConnector(c) ==
    LET row == rows[cmd[c].id]
        verdict == ReadVerdict(c, row)
    IN  /\ At(c, "read_connector")
        /\ \/ /\ row # None /\ row.credential
              /\ AnswerRead(c, "credential_failed")
           \/ /\ verdict # "ok"
              /\ AnswerRead(c, verdict)
           \/ /\ verdict = "ok"
              /\ Goto(c, IF row.credential /\ Observes(c) THEN "read_secret"
                                                         ELSE "ask")
        /\ UNCHANGED <<secrets, undone, connectorVars>>

\* ObservabilityClient::new.  The connector may have lost its secret since,
\* and is then not asked anonymously.
ReadSecret(c) ==
    /\ At(c, "read_secret")
    /\ \/ AnswerRead(c, "credential_failed")
       \/ IF Held(cmd[c].id) \in secrets THEN Goto(c, "ask")
                                         ELSE AnswerRead(c, "invalid")
    /\ UNCHANGED <<secrets, undone, connectorVars>>

\* The request is checked only now; the answer of the remote system may be
\* late, an error, or something else than expected.
Ask(c) ==
    /\ At(c, "ask")
    /\ IF cmd[c].valid
       THEN \E code \in {"ok", "failed"} : AnswerRead(c, code)
       ELSE AnswerRead(c, "invalid")
    /\ UNCHANGED <<secrets, undone, connectorVars>>

\* The database cannot be read.
ReadFails(c) ==
    /\ At(c, "read_connector")
    /\ AnswerRead(c, "database_failed")
    /\ UNCHANGED <<secrets, undone, connectorVars>>

-----------------------------------------------------------------------------

ConnectorStep(c) ==
    \/ AddInvalid(c) \/ AddSet(c) \/ AddInsert(c) \/ AddUndo(c) \/ Get(c)
    \/ SetEnabled(c)
    \/ RemoveRead(c) \/ RemoveDelete(c) \/ RemoveForget(c)
    \/ TestLoad(c) \/ TestAttempt(c) \/ TestProbe(c)
    \/ TestUpdate(c) \/ TestInsert(c) \/ TestTrim(c)
    \/ ConnectorFails(c)
    \/ ReadConnector(c) \/ ReadSecret(c) \/ Ask(c) \/ ReadFails(c)

-----------------------------------------------------------------------------
(* Properties. *)

\* add writes the credential before the row and remove takes the row before
\* the credential: through failures, stops and overlapping commands, no row
\* refers to a credential that is not there.
CredentialKept ==
    \A i \in Ids : rows[i] # None /\ rows[i].credential => Held(i) \in secrets

Unfinished(i) ==
    \E c \in Calls :
        \/ c = i /\ pc[c] \in {"insert", "undo"}
        \/ pc[c] = "forget" /\ cmd[c].id = i

\* A credential without its row is one a command is about to give a row or
\* to delete, or one whose deletion failed or was cut off: add and remove
\* leave none behind on any other path, and a connector whose removal was
\* acknowledged has left nothing.
CredentialsOwned ==
    /\ \A i \in Ids :
          Held(i) \in secrets =>
              rows[i] # None \/ Unfinished(i) \/ Held(i) \in undone
    /\ \A c \in Calls :
          reply[c] = "ok" /\ cmd[c].op = "remove" =>
              rows[cmd[c].id] = None /\ Held(cmd[c].id) \notin secrets

\* test_connection's two statements: the health a row shows is in its log,
\* unless that very test has yet to write it or failed to, or newer tests have
\* filled the log, however tests of one connector overlap.
HealthOnRecord ==
    \A i \in Ids :
        rows[i] # None /\ rows[i].checked # 0 =>
            \/ \E entry \in logs[i] :
                  /\ entry.outcome = rows[i].health
                  /\ entry.checked = rows[i].checked
            \/ \E c \in Calls : pc[c] = "log" /\ Entry(c) = <<"log", i, rows[i].checked>>
            \/ <<"log", i, rows[i].checked>> \in undone
            \/ Cardinality({entry \in logs[i] : entry.checked > rows[i].checked}) >= LogLimit
=============================================================================
