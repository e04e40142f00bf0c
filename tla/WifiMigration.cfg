SPECIFICATION Spec
CONSTANTS
  Networks = {"home", "work"}
  MaxRetries = 1
  MaxRequests = 2
  MaxCuts = 1
INVARIANTS MigrationSurvives
CHECK_DEADLOCK FALSE
