SPECIFICATION FairSpec
CONSTANTS
  Products <- MCProducts
  Chunks = 2
  MaxRetries = 2
  MaxSessions = 2
PROPERTY CheckIsAnswered
CHECK_DEADLOCK FALSE
