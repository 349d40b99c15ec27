CONSTANTS
  Requests = {r1, r2, r3, r4, r5}
  Subjects = {s1, s2}
  MaxAttempts = 2
  MaxFaults = 1
SPECIFICATION Spec
INVARIANTS IInv UsesBounded
PROPERTIES DeadForGood CodeSpec
SYMMETRY Symmetry
CHECK_DEADLOCK FALSE
