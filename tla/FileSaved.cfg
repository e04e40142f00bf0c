SPECIFICATION Spec
CONSTANTS
  Names = {a, b}
  Sizes = {0, 1, 6}
  OldSize = 6
  ChunkSize = 5
  Word = 16
  MaxRequests = 1
  MaxMishaps = 0
INVARIANT SavedIsStored
CHECK_DEADLOCK FALSE
