SPECIFICATION Spec
CONSTANTS
  Inputs <- MCInputs
  Requests <- MCRequests
  WorkspaceTeam = "none"
INVARIANTS
  ShownIsUndisputed
  OwnedWithoutDispute
  SelectionExact
