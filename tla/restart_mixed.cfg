\* The sender is started again; datagrams may be lost but stay in order.
SPECIFICATION Spec
CONSTANTS
  Window = 2
  SeqMod = 64
  FirstFrame = 0
  LastFrame = 2
  MaxPackets = 2
  MaxDup = 0
  MaxSession = 1
  InOrder = TRUE
  Lossy = TRUE
  FeedbackInit = {FALSE}
INVARIANT DecodedIntact
