CONSTANTS
  InBuffer = 1
  OutBuffer <- MCOutBuffer
  QueueDepth = 1
  IdleTicks = 2
  MaxFrames = 2
  MaxMail = 1
  MayWedge = TRUE
SPECIFICATION FairSpec
PROPERTY DrainNotDelayed
