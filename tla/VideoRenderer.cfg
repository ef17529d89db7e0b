SPECIFICATION FairSpec
CONSTANTS
  MaxFrames = 3
INVARIANTS PlanesMatch NoFrameAfterClear
PROPERTIES NeverBackwards ClearedGoesBlank PendingIsTaken
