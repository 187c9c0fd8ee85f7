\* Two readers and two writers of one page, two changes of its rows.
CONSTANTS
  r1 = r1
  r2 = r2
  w1 = w1
  w2 = w2
  Readers <- MCReaders
  Writers <- MCWriters
  TTL <- MCTTL
  RequestTime = 1
  MaxVersion = 2
SPECIFICATION FairSpec
INVARIANTS
  CacheInv
  StaleWithinTtl
  StaleOnlyIfUntold
PROPERTY
  EveryPageCatchesUp
