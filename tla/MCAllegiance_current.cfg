SPECIFICATION Spec
CONSTANTS
  Thread = {t1, t2}
  Run = {r1, r2}
  Compat = {c1, c2}
  Ours = c1
  Unsworn = unsworn
INVARIANT CurrentMeansTheOwner
