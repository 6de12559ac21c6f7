SPECIFICATION Spec
CONSTANTS
  Client = {c1, c2}
  Caller = {b1, b2}
  ChanCap = 1
  NoClient = NoClient
SYMMETRY RoomBroadcastSymmetry
INVARIANTS TypeOK MissedEvicted
PROPERTIES DeliveredToMembers
CHECK_DEADLOCK FALSE
