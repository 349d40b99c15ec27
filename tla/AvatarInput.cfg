CONSTANTS
  Files <- AllFiles
  MaxFields = 2
  MaxFileSize = 2
  MaxParts = 5
SPECIFICATION InputSpec
INVARIANT AnswerFits
CHECK_DEADLOCK FALSE
