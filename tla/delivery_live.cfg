\* Nothing is lost or reordered.  Payloads of two bytes and a packet counter that
\* wraps at 4: sizes below, at and above a multiple of the payload, the largest that
\* can be counted (6), one whose count wraps to 0 (8) and one that wraps to 1 (9).
SPECIFICATION FairTransferSpec
CONSTANTS
  Window = 2
  SeqMod = 64
  FirstFrame = 0
  LastFrame = 3
  MaxPackets = 3
  MaxDup = 0
  MaxSession = 0
  InOrder = TRUE
  Lossy = FALSE
  FeedbackInit = {FALSE}
  MaxPacketSize = 3
  HeaderSize = 1
  IndexMod = 4
  FrameSizes = {1, 2, 5, 6, 8, 9}
INVARIANTS BytesArrive DecodedInTurn
PROPERTY FramesArrive
