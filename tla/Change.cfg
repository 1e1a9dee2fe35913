SPECIFICATION Spec
CONSTANTS
  NoInstant = 99
  Candidates <- MCCandidates
  Paths <- MCPaths
  Catalogs <- MCCatalogs
  Requests <- MCRequests
  DefaultRequest <- MCDefault
  Asked <- MCAsked
  MaxCommands = 3
  MaxFaults = 1
INVARIANTS
  AssociationsExact
  SameAnswer
  EvidenceResolves
