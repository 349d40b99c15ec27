CONSTANTS
  Ids = {1, 2, 3}
  Queries <- SearchQueries
  Traits <- SearchedTraits
  None = None
  Limit = 1
  PerMilli = 2
  MaxMilli = 3
  Apart = TRUE
SPECIFICATION Spec
INVARIANT NoRepeats
CHECK_DEADLOCK FALSE
