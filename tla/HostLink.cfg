SPECIFICATION FairSpec
CONSTANTS
  Builds = {"auto", "spi", "i2c"}
  WindowMs <- MCWindow
  ExclusiveMs <- MCExclusive
  RetryMs <- MCRetry
  MinMs <- MCMin
  MaxMs <- MCMax
  MaxFaults = 2
  MaxFlips = 3
  MaxBoots = 2
INVARIANTS TypeOK OneLooks OnlyLiveBuses
PROPERTIES ProbeOnTime FindsBoard RecoversAwake
