CONSTANTS
  Ids = {1, 2, 3}
  Queries <- NewestQueries
  Traits <- PlainTraits
  None = None
  Limit = 1
  PerMilli = 2
  MaxMilli = 3
  Apart = FALSE
SPECIFICATION Spec
INVARIANT Complete
CHECK_DEADLOCK FALSE
