SPECIFICATION Spec
CONSTANTS
  t1 = t1
  t2 = t2
  Task <- MCTask
  OS_MAX_MEM = 18
  HDR = 2
  CTX = 1
  Traced <- MCTraced
  SLACK = 3
  FrameSize = {1, 3, 6}
SYMMETRY Symmetry
INVARIANTS
  TypeOK
  Tiling
  FreeListExact
  Coalesced
  FramesExact
  ZeroOutsideFrames
PROPERTIES
  GrowsOnlyWhenNothingFits
  OneTaskAtATime
  IsFrameStacks
