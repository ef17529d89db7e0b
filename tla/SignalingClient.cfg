SPECIFICATION FairSpec
CONSTANTS
  Kinds <- MCKinds
  Delivered <- MCDelivered
  MaxMsgs = 2
  MaxWrites = 1
  MaxConns = 2
INVARIANTS
  NoCallbackAfterStop
PROPERTIES
  OneReader
  ImplementsMessageStream
CHECK_DEADLOCK FALSE
