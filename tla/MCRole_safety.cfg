SPECIFICATION Spec
CONSTANTS
  Process = {p1, p2, f1}
  Foreign = {f1}
  Onlooker = {o1}
  Run = {r1, r2}
  Departed = departed
  Nobody = nobody
  Absent = absent
  Unreadable = unreadable
  MayFail <- AllCalls
SYMMETRY Symmetry
INVARIANT TypeOK
INVARIANT RoleInvariant
INVARIANT TenantIdentified
PROPERTY OnlyTheHolderWrites
PROPERTY ImplementsSeat
