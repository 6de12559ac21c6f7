SPECIFICATION FairSpec
CONSTANTS
  c1 = c1
  c2 = c2
  b1 = b1
  b2 = b2
  b3 = b3
  s1 = s1
  d1 = d1
  t1 = t1
  t2 = t2
  Client = {c1}
  Broadcaster = {b1}
  Raw = {b1}
  Sender = {s1}
  Disconnecter = {d1}
  Stopper = {t1}
  ChanCap = 1
  MayCancel = FALSE
  Id <- MCId
  IdOf <- MCIdOf
  NoClient = NoClient
  NoCaller = NoCaller
INVARIANTS RegisteredOpen DisconnectEffective
PROPERTY SlowClientEvicted
PROPERTY EveryCallReturns
CHECK_DEADLOCK FALSE
