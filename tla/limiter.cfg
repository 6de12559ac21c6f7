SPECIFICATION FairSpec
CONSTANTS
  client = client
  address = address
  c1 = c1
  c2 = c2
  c3 = c3
  Caller <- MCCaller
  Asks <- MCAsks
  Limiter = {l1, l2, l3, l4}
  Key <- MCKey
  ClientKey <- MCClientKey
  Cost <- MCCost
  Capacity <- MCCapacity
  EntryTTL = 2
  MaxTime = 3
  NoKey = NoKey
  NoLimiter = NoLimiter
INVARIANTS TypeOK RateBounded BurstPerDeletion RefusalsEarned
PROPERTIES LoopEnds
CHECK_DEADLOCK FALSE
