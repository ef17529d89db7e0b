SPECIFICATION Spec
CONSTANTS
  MaxFrames = 6
  MaxPictures = 4
  IdRange = 3
  SampleEvery = 2
  kMaxEntries = 2
INVARIANTS TypeOK TakenOnce StartOfItsFrame
CHECK_DEADLOCK FALSE
