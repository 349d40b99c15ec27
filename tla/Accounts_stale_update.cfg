CONSTANTS
  Users = {u1}
  Requests = {r1, r2, r3}
  Instances = {i1}
  None = None
  Gone = Gone
  MaxAttempts = 1
  BatchSize = 1
  MaxFaults = 0
  Ops = {"upload", "update"}
  Modes = {"sync"}
SPECIFICATION AccountsSpec
PROPERTY ProfileUpdateKeepsAvatar
