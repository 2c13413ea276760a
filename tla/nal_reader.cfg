\* All files of up to three small NAL units, for some of which the payload must
\* grow, and all files of up to eight bytes.
SPECIFICATION FairTestSpec
CONSTANTS
  Files <- MCFiles
  Bytes <- MCBytes
  PayloadSize = 5
INVARIANTS TestTypeOK UnitsAreNals UnitsFromFile AllGiven
PROPERTIES StepsRunOut TestReturns
CHECK_DEADLOCK FALSE
