SPECIFICATION FairSpec
CONSTANTS
  Run = {r1, r2}
  Helper = {h1, h2}
  Foreign = {f1, f2}
  Lookalike = {f1, f2}
  Nobody = nobody
  Absent = absent
INVARIANT SuccessionInvariant
PROPERTY EvictionIsJust
PROPERTY ImplementsSeat
PROPERTY SuccessorIsServed
PROPERTY AnonymousLeaves
CHECK_DEADLOCK FALSE
