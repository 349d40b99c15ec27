CONSTANTS
  Instances = {i1, i2}
  Changes = {m1}
  Unset = Unset
  MaxErrors = 0
  MaxCrashes = 0
SPECIFICATION CacheFairSpec
PROPERTY ReachesAll
CHECK_DEADLOCK FALSE
