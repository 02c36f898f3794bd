SPECIFICATION RetentionSpec
CONSTANTS
  i1 = i1  i2 = i2  i3 = i3  a1 = a1  a2 = a2  t1 = t1  t2 = t2
  Null = Null
  Ids = {i1, i2, i3}
  ArtifactOf <- TwoArtifacts
  SemverOf <- Semvers
  Tags = {"stable", "latest"}
  ProtectedTag = "stable"
  FileStates = {"none", "whole", "incomplete"}
  Filters <- SomeFilters
  HalfInt32 = 128
  YearZero = 0
  MaxTime = 4
  Types = {t1, t2}
  Policies <- SomePolicies
  DayTicks = 2
  SecondTicks = 2
SYMMETRY Symmetry
ACTION_CONSTRAINT WithinBounds
INVARIANTS TypeOK KeepLastExact FiltersPartition RetentionTypeOK
PROPERTIES BulkSparesProtected RuleConservative
