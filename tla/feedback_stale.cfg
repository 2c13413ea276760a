\* A sender elsewhere has used the receiver before this one.
SPECIFICATION SysSpec
CONSTANTS
  ShutdownWakes = TRUE
  MaxDatagrams = 1
  Neighbours = {}
  Remotes = {"remote"}
  MaxSent = 1
  MaxOthers = 1
  MaxUsers = 1
  MaxDoubled = 1
  MaxStrays = 1
  MaxStarts = 1
INVARIANT FeedbackToSender
CHECK_DEADLOCK FALSE
