CONSTANTS
  IncidentIds = {"i1", "i2", "i9"}
  Foreign = {"i9"}
  RequestIds = {"r0", "r1", "r2", "r3"}
  Principals <- MCPrincipals
  Members <- MCMembers
  Impacts <- MCImpacts
  Severities = {"S2", "S4"}
  DeriveSeverity <- MCDerive
  Bodies = {"a", "b"}
  Requests <- MCRequests
  Callers = {c1, c2}
  Free = Free
  RetryBudget = 3
  MaxClock = 2
SPECIFICATION FairSpec
INVARIANT SnapshotFresh
PROPERTY LogSpec
PROPERTY AcknowledgedIsApplied
PROPERTY ConflictOnlyIfStale
PROPERTY Answered
