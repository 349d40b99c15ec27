CONSTANTS
  Users = {u1}
  Requests = {r1, r2}
  Instances = {i1, i2}
  Server = i1
  None = None
  Gone = Gone
  MaxAttempts = 2
  BatchSize = 1
  MaxFaults = 0
SPECIFICATION MCSpec
PROPERTY ExhaustedStays
