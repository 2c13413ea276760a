\* From the first frame on, with everything that can fail: datagrams, sends,
\* feedback, and a sender that is started a second time while packets of the first
\* one are in flight.  After an index out of range the receiver does nothing more,
\* so the system may stop.
SPECIFICATION Spec
CONSTANTS
  Window = 2
  SeqMod = 64
  FirstFrame = 0
  LastFrame = 1
  MaxPackets = 2
  MaxDup = 0
  MaxSession = 1
  InOrder = FALSE
  Lossy = TRUE
  FeedbackInit = {TRUE, FALSE}
INVARIANTS TypeOK AssemblyCounts SafeUntilRestart
CHECK_DEADLOCK FALSE
