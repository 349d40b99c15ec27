CONSTANTS
  Requests = {r1}
  Kinds = {"image"}
  Parts <- FewParts
  MaxParts = 3
  MaxThreads = 1
  SizeLimit = 1
  MaxWidth = 2
  MaxHeight = 2
  MaxQuality = 2
  None = None
  MaxFaults = 0
SPECIFICATION StorageMayHang
PROPERTY Answered
CHECK_DEADLOCK FALSE
