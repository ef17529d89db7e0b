\* Two slots and three frames: one frame can outlive a clearing of the pool
\* while both slots are lent again.
SPECIFICATION Spec
CONSTANTS
  f1 = f1
  f2 = f2
  f3 = f3
  m1 = m1
  m2 = m2
  m3 = m3
  m4 = m4
  m5 = m5
  kPoolSlots = 2
  Sizes <- MCSizes
  Mems <- MCMems
  Frames <- MCFrames
  NoMem = NoMem
  NoSize = NoSize
SYMMETRY Symmetry
INVARIANT NoDanglingFlag
\* Once the decoder and the last frame are gone nothing is left to do.
CHECK_DEADLOCK FALSE
