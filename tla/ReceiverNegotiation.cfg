SPECIFICATION FairSpec
CONSTANTS
  MaxOffers = 2
  MaxCands = 2
  MaxSessions = 2
INVARIANTS
  CandidatesInOrder
  OneAnswerPerConnection
  ObserverHeld
  NothingLost
PROPERTIES
  QueuedUntilRemoteApplied
  OfferSettles
CHECK_DEADLOCK FALSE
