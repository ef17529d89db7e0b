SPECIFICATION FairSpec
CONSTANTS
  MaxOffers = 2
  MaxCands = 2
  MaxSessions = 2
  MaxLoads = 2
  MaxQueue = 2
INVARIANTS CandidatesInOrder NothingStranded StatsOnlyWhileConnected SentInItsSession ClosedIsIdle
PROPERTY OfferAnswered
CHECK_DEADLOCK FALSE
