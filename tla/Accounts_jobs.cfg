CONSTANTS
  Users = {u1}
  Requests = {r1, r2}
  Instances = {i1}
  None = None
  Gone = Gone
  MaxAttempts = 1
  BatchSize = 1
  MaxFaults = 1
  Ops = {"delete"}
  Modes = {"sync"}
SPECIFICATION AccountsSpec
INVARIANT OneActiveJob
PROPERTY ConflictIsHonest
