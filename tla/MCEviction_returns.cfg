SPECIFICATION FairSpec
CONSTANTS
  Pid = {self, p1}
  Self = self
  Image = {helper, other}
  None = none
  MaxBorn = 2
  Unconfirmed = "Signal"
  EscalateAfter = none
  Deadline = 3
  Poll = 1
  Late = 1
PROPERTY EvictReturns
CHECK_DEADLOCK FALSE
