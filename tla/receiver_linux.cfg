\* shutdown wakes recvfrom.  A sender elsewhere, or another one on this host, uses the
\* receiver too, which is started twice.
SPECIFICATION FairSysSpec
CONSTANTS
  ShutdownWakes = TRUE
  MaxDatagrams = 2
  MaxStrays = 1
  Neighbours = {"neighbour"}
  Remotes = {"remote"}
  MaxSent = 1
  MaxOthers = 1
  MaxUsers = 1
  MaxDoubled = 1
  MaxStarts = 2
INVARIANTS SysTypeOK InUseWhileRunning StopIsPrompt EachCounted CleanExit FeedbackForPackets
PROPERTIES StopReturns SenderReturns LoopImplemented FeedbackStaysHere
CHECK_DEADLOCK FALSE
