SPECIFICATION Spec
CONSTANTS
  NoTime = NoTime
  NoNative = NoNative
  Malformed = Malformed
  Unsafe = {}
  Relation <- MCRelation
  TargetOrder <- MCTargetOrder
  Earlier <- MCEarlier
  Arrivals <- MCArrivals
  Rules <- MCRules
  Windows <- MCWindows
  Start = 0
  End = 1
  Lateness = 1
  KeyRank <- MCKeyRank
  PathEvidence <- OnePath
  LastTick = 4
INVARIANTS
  CandidatesAreClasses
  LateStaysMarked
  FinalizedChangesOpenly
CHECK_DEADLOCK FALSE
