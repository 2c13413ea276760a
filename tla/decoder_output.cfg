\* Three openings of the decoder, five pictures each, failures everywhere.
SPECIFICATION Spec
CONSTANTS
  MaxPictures = 5
  MaxOpens = 3
INVARIANTS TypeOK FileWellFormed OwnedWhileInitialized
CHECK_DEADLOCK FALSE
