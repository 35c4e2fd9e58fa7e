SPECIFICATION Spec
CONSTANTS
  Pid = {self, p1}
  Self = self
  Image = {helper, other}
  None = none
  MaxBorn = 2
  Unconfirmed = "Refuse"
  EscalateAfter = 1
  Deadline = 3
  Poll = 1
  Late = 0
INVARIANT NoStartTimeIsInconclusive
CHECK_DEADLOCK FALSE
