CONSTANTS
  Users = {u1}
  Requests = {r1, r2, r3}
  Instances = {i1}
  None = None
  Gone = Gone
  MaxAttempts = 1
  BatchSize = 1
  MaxFaults = 1
  Ops = {"upload", "remove", "delete", "update"}
  Modes = {"sync", "async"}
SPECIFICATION AccountsFairSpec
INVARIANTS JobsAccounted PhotoStoredOrStale DoneMeansErased
PROPERTIES ErasedForGood JobOutcomeFinal JobsResolve
