SPECIFICATION FairSpec
CONSTANTS
  Run = {r1, r2}
  Helper = {h1, h2}
  Foreign = {f1}
  Lookalike = {f1}
  Nobody = nobody
  Absent = absent
PROPERTY LeftoverWedgesNothing
CHECK_DEADLOCK FALSE
