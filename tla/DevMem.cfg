CONSTANTS
  PageSize = 4
  WordSize = 2
  ByteMod = 2
  AddrMod = 16
  MemSize = 8
  AddrTexts <- MCAddrTexts
  ValueTexts <- MCValueTexts
  MaxStores = 2
SPECIFICATION FairSpec
INVARIANTS AccessWithinMapping ExitHonest WatchFaithful
PROPERTIES WatchStops WatchCatchesUp
