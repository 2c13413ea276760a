\* vvenc_encode never fails, but may keep a picture back.
SPECIFICATION Spec
CONSTANTS
  FileLengths <- MCFileLengths
  FrameLimits <- MCFrameLimits
  Outcomes = {"au", "held"}
  MaxSpurious = 0
INVARIANT FlushedBeforeStop
