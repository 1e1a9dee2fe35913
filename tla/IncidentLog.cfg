CONSTANTS
  IncidentIds = {"i1", "i2"}
  RequestIds <- MCRids
  Principals <- MCPrincipals
  Members <- MCMembers
  Impacts <- MCImpacts
  Severities = {"S2", "S4"}
  DeriveSeverity <- MCDerive
  Bodies = {"n"}
  Requests <- MCRequests
SPECIFICATION LogSpec
CONSTRAINT OneStory
INVARIANT OverrideIsDisagreement
INVARIANT TimelineExplainsRow
INVARIANT ExclusiveRolesHeldOnce
INVARIANT DuplicateTargetStored
CHECK_DEADLOCK FALSE
