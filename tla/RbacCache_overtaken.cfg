CONSTANTS
  Instances = {i1}
  Changes = {m1, m2}
  Unset = Unset
  MaxErrors = 0
  MaxCrashes = 0
SPECIFICATION CacheFairSpec
PROPERTY ReachesAll
CHECK_DEADLOCK FALSE
