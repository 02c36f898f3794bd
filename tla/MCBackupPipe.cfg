SPECIFICATION FairSpec
CONSTANTS
  Sizes <- Lengths
  PartSize = 2
  MaxParts = 3
INVARIANTS NeverTruncated SuccessIsWhole
PROPERTIES JobEnds
CHECK_DEADLOCK FALSE
