SPECIFICATION FairSpec
CONSTANTS
  Process = {p1, p2, f1}
  Foreign = {f1}
  Onlooker = {o1}
  Run = {r1}
  Departed = departed
  Nobody = nobody
  Absent = absent
  Unreadable = unreadable
  MayFail <- AllButCleanUp
PROPERTY ReadNamesTheTenant
PROPERTY ReleaseLeavesNothing
PROPERTY AnonymityPasses
PROPERTY ProbeLetsGo
