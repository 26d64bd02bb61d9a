CONSTANTS
  InBuffer = 3
  OutBuffer = 2
  QueueDepth = 1
  IdleTicks = 1
  MaxFrames = 0
  MaxMail = 1
  MayWedge = FALSE
  MaxLines = 1
SPECIFICATION FairConnSpec
INVARIANTS SidesAgree ToldWhy
PROPERTIES PingAnswered ShutdownReachesClient HangUpFreesName
