\* The first frames of a stream, nothing lost, doubled or reordered.
SPECIFICATION Spec
CONSTANTS
  Window = 2
  SeqMod = 64
  FirstFrame = 0
  LastFrame = 3
  MaxPackets = 2
  MaxDup = 0
  MaxSession = 0
  InOrder = TRUE
  Lossy = FALSE
  FeedbackInit = {FALSE}
PROPERTY RecentKept
