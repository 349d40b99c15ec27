CONSTANTS
  Users = {u1}
  Requests = {r1, r2, r3}
  Instances = {i1}
  None = None
  Gone = Gone
  MaxAttempts = 1
  BatchSize = 1
  MaxFaults = 0
  Ops = {"upload", "delete"}
  Modes = {"sync"}
SPECIFICATION AccountsSpec
INVARIANT NothingForgotten
