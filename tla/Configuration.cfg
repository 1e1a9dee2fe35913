SPECIFICATION Spec
CONSTANTS
    None = None
    Calls = {"c1", "c2", "c3"}
    Stored = {"k"}
    Document <- Baseline
    Outcomes = {"healthy"}
    MaxAttempts = 2
    LogLimit = 1
    ProviderIds = {"p"}
    Healths = {"reachable"}
    ConnectorCommands <- MCConnectorCommands
    ReadCommands <- MCReadCommands
    ProviderCommands <- MCProviderCommands
INVARIANTS
    CredentialKept
    CredentialsOwned
    HealthOnRecord
    OrderUsable
PROPERTY
    CommandsAnswered
CHECK_DEADLOCK FALSE
