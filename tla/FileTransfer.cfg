SPECIFICATION FairSpec
CONSTANTS
  Names = {a, b}
  Sizes = {0, 3}
  OldSize = 6
  ChunkSize = 5
  Word = 16
  MaxRequests = 2
  MaxMishaps = 1
INVARIANTS TypeOK VerifiedIsStored DownloadIsWhole ChangesAreListed RefusedForAReason
PROPERTY RequestEnds
CHECK_DEADLOCK FALSE
