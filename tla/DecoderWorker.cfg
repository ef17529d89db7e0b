SPECIFICATION FairSpec
CONSTANTS
  MaxFrames = 4
  MaxConfigs = 2
  NumIn = 2
  NumOut = 2
  Callbacks = {1}
INVARIANTS
  BuffersReturned
  DeliveredInOrder
  LabelNotEarlier
  ReleasedIsQuiet
PROPERTIES
  CallReturns
CHECK_DEADLOCK FALSE
