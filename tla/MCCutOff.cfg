SPECIFICATION FramesSpec
CONSTANTS
  Sizes = {0, 2}
  MaxFrames = 3
  MaxSize = 2
INVARIANT TruncationIsNoEnd
CHECK_DEADLOCK FALSE
