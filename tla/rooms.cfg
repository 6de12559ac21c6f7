SPECIFICATION Spec
CONSTANTS
  c1 = c1
  i1 = i1
  i2 = i2
  k1 = k1
  k2 = k2
  j1 = j1
  l1 = l1
  d1 = d1
  e1 = e1
  w1 = w1
  other = other
  Client = {c1}
  RoomId = {i1}
  Name = {i1, other}
  Creator = {k1, k2}
  Joiner = {j1}
  Leaver = {l1}
  Deleter = {d1}
  Emptier = {}
  Sweeper = {w1}
  None = None
SYMMETRY MCSymmetry
INVARIANT TypeOK
INVARIANT LeaveEffective
INVARIANT DeleteEffective
CHECK_DEADLOCK FALSE
