\* Past the first Window frames, over a network that doubles and reorders, and with
\* feedback that may be set up late.  As packets may overtake each other, one that
\* is lost is one that stays on its way.  Four frames and a window of two: frames
\* expire while packets of theirs are on the way.
SPECIFICATION Spec
CONSTANTS
  Window = 2
  SeqMod = 64
  FirstFrame = 2
  LastFrame = 5
  MaxPackets = 2
  MaxDup = 1
  MaxSession = 0
  InOrder = FALSE
  Lossy = FALSE
  FeedbackInit = {TRUE, FALSE}
INVARIANTS DeliveredDecoded AckedOnce
PROPERTY DeliveryImplemented
