CONSTANTS
  Users = {u1}
  Requests = {r1, r2, r3}
  Instances = {i1, i2}
  Server = i1
  None = None
  Gone = Gone
  MaxAttempts = 2
  BatchSize = 1
  MaxFaults = 2
SPECIFICATION MCSpec
INVARIANTS IInv PhotoStored NothingForgotten
PROPERTIES SlotSpec RetriesEnd UnusedObjectsSettle
