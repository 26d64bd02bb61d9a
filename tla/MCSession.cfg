CONSTANTS
  InBuffer = 1
  OutBuffer <- MCOutBuffer
  QueueDepth = 1
  IdleTicks = 2
  MaxFrames = 3
  MaxMail = 2
  MayWedge = TRUE
SPECIFICATION FairSpec
INVARIANTS TypeOK HandshakeFirst StreamWellFramed SelectPriorities
           CleanExit
PROPERTIES NothingAfterCut ShutdownEnds SilentPeerEnds
