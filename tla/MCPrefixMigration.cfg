SPECIFICATION Spec
CONSTANTS
  f1 = f1  f2 = f2  j1 = j1  j2 = j2
  Nil = Nil
  Files = {f1, f2}
  Prefixes = {"a", "b", "c"}
  Pods = {j1, j2}
  LegacyPrefix = "a"
  MaxUpgrades = 3
  MaxAttempts = 2
INVARIANTS TypeOK MarkerHonest Readable CopiesFindSource
SYMMETRY PodSymmetry
CHECK_DEADLOCK FALSE
