CONSTANTS
  InBuffer = 1
  OutBuffer = 3
  QueueDepth = 1
  IdleTicks = 1
  MaxFrames = 0
  MaxMail = 0
  MayWedge = FALSE
  MaxLines = 4
SPECIFICATION FairConnSpec
PROPERTY SendCompletes
