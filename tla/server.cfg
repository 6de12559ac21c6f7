SPECIFICATION FairSpec
CONSTANTS
  Starter = {i1, i2}
  WithContext = {i2}
  Stopper = {t1, t2}
  Graceful = {t2}
  NoStart = NoStart
INVARIANTS TypeOK RunningOwned RunsOwned
PROPERTIES RunsEnd CallsReturn
CHECK_DEADLOCK FALSE
