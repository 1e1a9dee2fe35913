--------------------------- MODULE Configuration ---------------------------
(***************************************************************************)
(* Connectors and AI providers configured side by side: their commands     *)
(* overlap, they keep their credentials in the one keychain, and a restart *)
(* loses the commands in flight and the providers, and keeps the database  *)
(* and the keychain.                                                       *)
(***************************************************************************)
EXTENDS Connectors, Providers

CONSTANTS
    ConnectorCommands,   \* per call the commands it may turn out to be
    ReadCommands,
    ProviderCommands

\* What a command is: add brings a credential or none, the others name a
\* connector; a provider's commands are named for their operation, and an
\* order is a sequence of whatever names.
ASSUME CommandsAssumption ==
    \A c \in Calls :
        /\ \A q \in ConnectorCommands[c] :
              \/ /\ q.op = "add" /\ q.credential \in BOOLEAN
                 /\ q.kind \in {"fixture", "remote"}
              \/ q.op \in {"remove", "test", "enable", "disable"} /\ q.id \in Ids
        /\ \A q \in ReadCommands[c] : q.op = "read" /\ q.id \in Ids
        /\ \A q \in ProviderCommands[c] :
              /\ q.op \in {"configure", "order", "probe_provider", "remove_provider"}
              /\ q.op = "order" => q.ids \in Seq(ToSet(q.ids))

vars == <<secrets, calls, undone, connectorVars, providerVars>>

Init == KeychainInit /\ ConnectorsInit /\ ProvidersInit

\* What a stop leaves undone of a call.
Cut(c) ==
    CASE pc[c] \in {"insert", "undo"} -> {Held(c)}
      [] pc[c] = "forget" -> {Held(cmd[c].id)}
      [] pc[c] = "log" -> {Entry(c)}
      [] OTHER -> {}

Restart ==
    LET lost == {c \in Calls : pc[c] \notin {"idle", "done"}}
    IN  /\ lost # {}
        /\ pc' = [c \in Calls |-> IF c \in lost THEN "done" ELSE pc[c]]
        /\ reply' = [c \in Calls |-> IF c \in lost THEN "lost" ELSE reply[c]]
        /\ undone' = undone \cup UNION {Cut(c) : c \in lost}
        /\ providers' = NoProviders
        /\ order' = <<>>
        /\ UNCHANGED <<secrets, cmd, connectorVars>>

Step(c) ==
    \/ ConnectorStep(c) /\ UNCHANGED providerVars
    \/ ProviderStep(c) /\ UNCHANGED connectorVars

Next ==
    \/ \E c \in Calls : \E q \in ConnectorCommands[c] :
          StartConnector(c, q) /\ UNCHANGED providerVars
    \/ \E c \in Calls : \E q \in ReadCommands[c] :
          StartRead(c, q) /\ UNCHANGED providerVars
    \/ \E c \in Calls : \E q \in ProviderCommands[c] :
          StartProvider(c, q) /\ UNCHANGED connectorVars
    \/ \E c \in Calls : Step(c)
    \/ Restart

\* A command, once admitted, is a thread or a task that keeps running, and
\* its probes have deadlines.
Fairness == \A c \in Calls : WF_vars(Step(c))

Spec == Init /\ [][Next]_vars /\ Fairness

-----------------------------------------------------------------------------

\* Every admitted command is answered, a connection test that has to try
\* again included.
CommandsAnswered ==
    \A c \in Calls : pc[c] \notin {"idle", "done"} ~> pc[c] = "done"
=============================================================================
