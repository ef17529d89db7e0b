SPECIFICATION Spec
CONSTANTS
  MaxOffers = 1
  MaxCands = 2
  MaxSessions = 1
INVARIANTS
  NothingStranded
CHECK_DEADLOCK FALSE
