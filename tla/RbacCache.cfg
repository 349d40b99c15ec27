CONSTANTS
  Instances = {i1, i2}
  Changes = {m1, m2, m3}
  Unset = Unset
  MaxErrors = 2
  MaxCrashes = 1
SPECIFICATION CacheFairSpec
INVARIANTS CacheInv OwnChangesKnown
PROPERTY Converges
CHECK_DEADLOCK FALSE
