CONSTANTS
  Requests = {r1, r2}
  Kinds = {"image"}
  Parts <- FewParts
  MaxParts = 3
  MaxThreads = 1
  SizeLimit = 1
  MaxWidth = 2
  MaxHeight = 2
  MaxQuality = 2
  None = None
  MaxFaults = 1
SPECIFICATION FairSpec
INVARIANT IInv
PROPERTY Answered
CHECK_DEADLOCK FALSE
