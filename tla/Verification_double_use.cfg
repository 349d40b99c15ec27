CONSTANTS
  Requests = {r1, r2, r3}
  Subjects = {s1}
  MaxAttempts = 2
  MaxFaults = 0
SPECIFICATION Spec
INVARIANT SingleUse
SYMMETRY Symmetry
CHECK_DEADLOCK FALSE
