SPECIFICATION FairSpec
CONSTANTS
  MaxConns = 2
  MaxSessions = 2
  MaxFrames = 2
  MaxQueue = 2
  MaxPolls = 2
  CounterRange = 16
INVARIANTS
  TimerFollowsConnection
  DeltaOfConnection
  FiguresOfConnection
  DisconnectedIsIdle
  SentInItsSession
  TrackOfConnection
PROPERTIES
  StatisticsShown
