SPECIFICATION FairSpec
CONSTANTS
  Sizes <- Lengths
  PartSize = 2
  MaxParts = 3
PROPERTIES CauseArrives
CHECK_DEADLOCK FALSE
