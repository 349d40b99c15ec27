CONSTANTS
  Requests = {r1}
  Kinds = {"text", "image"}
  Parts <- AllParts
  MaxParts = 3
  MaxThreads = 1
  SizeLimit = 1
  MaxWidth = 2
  MaxHeight = 2
  MaxQuality = 2
  None = None
  MaxFaults = 2
SPECIFICATION FairSpec
INVARIANTS TypeOK AnswerFollowsBody TruthfulHistory
PROPERTIES HistorySpec Answered
CHECK_DEADLOCK FALSE
