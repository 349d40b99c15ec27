CONSTANTS
  Requests = {r1}
  Kinds = {"text", "image"}
  Parts <- AllParts
  MaxParts = 3
  MaxThreads = 1
  SizeLimit = 1
  MaxWidth = 2
  MaxHeight = 2
  MaxQuality = 2
  None = None
  MaxFaults = 0
SPECIFICATION Spec
INVARIANTS PairOffered UnknownTargetIsInvalid ContentSniffed
CHECK_DEADLOCK FALSE
