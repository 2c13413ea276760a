\* Every outcome of vvenc_encode.  A failing call leaves the threads stuck
\* (handoff_hang shows it), so this system really may stop.
SPECIFICATION FairSpec
CONSTANTS
  FileLengths <- MCFileLengths
  FrameLimits <- MCFrameLimits
  Outcomes = {"au", "held", "done", "fail"}
  MaxSpurious = 2
INVARIANTS TypeOK WholeFrameEncoded EncodedInOrder NoWakeupLost
PROPERTIES StreamImplemented ReturnsUnlessEncodeFails
CHECK_DEADLOCK FALSE
