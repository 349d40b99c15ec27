CONSTANTS
  Ids = {1, 2, 3, 4}
  Queries <- DefaultQueries
  Traits <- FilteredTraits
  None = None
  Limit = 2
  PerMilli = 2
  MaxMilli = 4
  Apart = TRUE
SPECIFICATION FairSpec
INVARIANTS NoRepeats Complete
CHECK_DEADLOCK FALSE
