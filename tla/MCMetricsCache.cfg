SPECIFICATION FairSpec
CONSTANTS
  c1 = c1  c2 = c2
  Nil = Nil  Error = Error
  Callers = {c1, c2}
  TTL = 1
  MaxTime = 2
  MaxCommits = 2
INVARIANTS TypeOK Coherent MonotonicReads ErrorsAreReal
PROPERTIES AllAnswered
