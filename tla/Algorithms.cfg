SPECIFICATION Spec
CONSTANTS
  ByteRange = 3
  MaxBytes = 9
  MaxParts = 4
  MaxSide = 4
  MaxCap = 26
INVARIANTS
  AvccHoldsNalUnits
  MessageArrives
  CopyInBounds
