SPECIFICATION Spec
CONSTANTS
  Pid = {self, p1, p2}
  Self = self
  Image = {helper, other}
  None = none
  MaxBorn = 2
  Unconfirmed = "Signal"
  EscalateAfter = 1
  Deadline = 3
  Poll = 1
  Late = 1
SYMMETRY Symmetry
INVARIANT EvictionInvariant
INVARIANT PressInvariant
INVARIANT KillsOnce
INVARIANT BystanderIsHitOnce
PROPERTY SignalsOnlyTheWriter
PROPERTY SelfIsSpared
PROPERTY LeftMeansGone
PROPERTY StubbornWasKilled
PROPERTY StepsComeNearer
CHECK_DEADLOCK FALSE
