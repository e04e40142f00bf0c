SPECIFICATION FairSpec
CONSTANTS
  Products <- MCProducts
  Chunks = 2
  MaxRetries = 2
  MaxSessions = 2
INVARIANTS TypeOK UploadRunsAlone VersionsMatch
PROPERTIES PanelUpdateEnds ChosenIsBooted
CHECK_DEADLOCK FALSE
