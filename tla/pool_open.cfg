SPECIFICATION Spec
CONSTANTS
  r1 = r1
  r2 = r2
  r3 = r3
  r4 = r4
  near = near
  far = far
  Request = {r1, r2, r3, r4}
  IP = {near, far}
  IpOf <- MCIpOf
  MaxConnections = 3
  MaxConnectionsPerIP = 2
  NoRequest = NoRequest
CHECK_DEADLOCK FALSE
INVARIANT ConnectionsLimited
