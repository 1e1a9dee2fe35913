CONSTANTS
  Incidents = {a, b}
  None = None
  PageLimit = 1
  MaxEvents = 3
  MaxTicket = 5
SPECIFICATION FairViewSpec
INVARIANT InFlightIsCurrent
PROPERTY LastPageIsLast
PROPERTY SelectionLoads
CHECK_DEADLOCK FALSE
