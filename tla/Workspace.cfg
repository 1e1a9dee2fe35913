CONSTANTS
  Incidents = {a, b}
  None = None
  PageLimit = 2
  MaxEvents = 2
  MaxTicket = 3
  MaxRequests = 3
SPECIFICATION FairActionsSpec
INVARIANT ShownIsPrefix
INVARIANT ResultsBelong
PROPERTY ActionEnds
CHECK_DEADLOCK FALSE
