CONSTANTS
  Frames <- FramesC
  Payload <- PayloadC
  Foreign <- ForeignC
  MAX_FRAME_BYTES = 3
  MaxSent = 3
SPECIFICATION FairSpec
INVARIANTS NothingHeldBack BufferBounded
PROPERTIES ImplementsChannel EveryFrameArrives
