CONSTANTS
  Providers = {"hosted", "spare"}
  Declared <- MCDeclared
  Order <- MCOrder
  Local <- MCLocal
  Models <- MCModels
  Document <- Baseline
  Window <- MCWindow
  Scale = 1
  None = None
  Calls = {c1, c2}
  RequestIds = {"r1", "r2"}
  Requests <- MCRequests
  Usages <- MCUsages
  Errors = {"unreachable", "unauthorized", "deadline_exceeded"}
SPECIFICATION Spec
INVARIANT OneRunning
INVARIANT FailoverPermitted
INVARIANT AnsweredIsCounted
PROPERTY AuditKept
PROPERTY CallsAnswered
CHECK_DEADLOCK FALSE
