SPECIFICATION Spec
CONSTANTS
  i1 = i1  i2 = i2  i3 = i3  a1 = a1  a2 = a2
  Null = Null
  Ids = {i1, i2, i3}
  ArtifactOf <- OneArtifact
  SemverOf <- Semvers
  Tags = {"stable", "latest"}
  ProtectedTag = "stable"
  FileStates = {"none"}
  Filters <- KeepOne
  HalfInt32 = 128
  YearZero = 0
  MaxTime = 0
\* The instance ends when every id is used up and the clock is at its bound.
CHECK_DEADLOCK FALSE
PROPERTIES TaggedNeverTouched
