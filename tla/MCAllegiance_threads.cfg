SPECIFICATION Spec
CONSTANTS
  Thread = {t1, t2, t3}
  Run = {r1, r2}
  Compat = {c1, c2}
  Ours = c1
  Unsworn = unsworn
SYMMETRY Symmetry
INVARIANT AllegianceInvariant
PROPERTY LaterCallsAgree
PROPERTY TurnedAwayForGood
PROPERTY ImplementsOath
