SPECIFICATION FairSpec
CONSTANTS
  c1 = c1
  c2 = c2
  b1 = b1
  b2 = b2
  b3 = b3
  s1 = s1
  d1 = d1
  t1 = t1
  t2 = t2
  Client = {c1}
  Broadcaster = {}
  Raw = {}
  Sender = {}
  Disconnecter = {d1}
  Stopper = {}
  ChanCap = 1
  MayCancel = TRUE
  Id <- MCId
  IdOf <- MCIdOf
  NoClient = NoClient
  NoCaller = NoCaller
PROPERTY DisconnectReturns
CHECK_DEADLOCK FALSE
