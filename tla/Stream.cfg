CONSTANTS
  Frames <- TwoSizes
  MaxFrames = 2
  Numbers <- Misread
  Word = 65536
SPECIFICATION Spec
INVARIANT TypeOK
INVARIANT FramesInOrder
INVARIANT NeedBounded
INVARIANT NothingLeftBehind
 
