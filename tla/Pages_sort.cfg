CONSTANTS
  Ids = {1, 2, 3}
  Queries <- SortedQueries
  Traits <- AddressTraits
  None = None
  Limit = 1
  PerMilli = 1
  MaxMilli = 3
  Apart = TRUE
SPECIFICATION Spec
INVARIANT Complete
CHECK_DEADLOCK FALSE
