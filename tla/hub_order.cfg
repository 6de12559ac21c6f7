SPECIFICATION Spec
CONSTANTS
  c1 = c1
  c2 = c2
  b1 = b1
  b2 = b2
  b3 = b3
  s1 = s1
  d1 = d1
  t1 = t1
  t2 = t2
  Client = {c1, c2}
  Broadcaster = {b1, b2}
  Raw = {b1, b2}
  Sender = {s1}
  Disconnecter = {}
  Stopper = {}
  ChanCap = 2
  MayCancel = TRUE
  Id <- MCId
  IdOf <- MCIdOf
  NoClient = NoClient
  NoCaller = NoCaller
INVARIANT TypeOK
PROPERTY OrderedBroadcasts
SYMMETRY MCSymmetry
CHECK_DEADLOCK FALSE
