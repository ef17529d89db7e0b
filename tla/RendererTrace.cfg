SPECIFICATION Spec
CONSTANTS
  MaxFrames = 3
INVARIANT LoggedIsShown
