SPECIFICATION FairSpec
CONSTANTS
  Networks = {"home"}
  MaxRetries = 1
  MaxRequests = 3
  MaxCuts = 1
INVARIANTS TypeOK ResetIsFinal ScanRestoresMode
PROPERTY SavesWhatWorked ConnectingEnds
CHECK_DEADLOCK FALSE
