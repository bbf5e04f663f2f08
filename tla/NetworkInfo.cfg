\* Neither address is configured.
CONSTANTS
  a1 = a1  a2 = a2
  replica = replica
  Empty = Empty  None = None
  Calls <- MCCalls
  Caches <- MCCaches
  CacheOf <- MCCacheOf
  Values <- MCValues
  Families <- MCFamilies
  Known = {}
  Life <- MCLife
  CacheFor = 2
  FailureFor = 1
  MaxTime = 2
SPECIFICATION InfoFairSpec
CHECK_DEADLOCK FALSE
INVARIANTS
  NothingStale
  NoInheritedCancel
  AbsenceIsReal
PROPERTY OnlyABodyHoldsUp
