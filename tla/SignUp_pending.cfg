CONSTANTS
  Requests = {r1, r2}
  Owner = Owner
  Addresses = {a1, a2}
  Gone = Gone
  MaxFaults = 1
SPECIFICATION Spec
INVARIANT PendingHasAWayIn
CHECK_DEADLOCK FALSE
