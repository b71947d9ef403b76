SPECIFICATION FairSpec
CONSTANTS
  BufMax = 14
  ChunkMax = 5
  MaxSent = 4
  MaxSpoilt = 1
  Bodies <- MCBodies
INVARIANTS TypeOK ResyncIsBounded
PROPERTIES ImplementsFrameQueue FramesAreHandled
