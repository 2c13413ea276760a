\* vvenc_encode fails at some frame.
SPECIFICATION FairSpec
CONSTANTS
  FileLengths <- MCFileLengths
  FrameLimits <- MCFrameLimits
  Outcomes = {"au", "fail"}
  MaxSpurious = 2
PROPERTY MainReturns
CHECK_DEADLOCK FALSE
