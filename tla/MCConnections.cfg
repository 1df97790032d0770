SPECIFICATION FairSpec
CONSTANTS
  u1 = u1
  u2 = u2
  a1 = a1
  a2 = a2
  b1 = b1
  None = None
  Clients = {u1, u2}
  Conns = {a1, a2, b1}
  Owner <- MCOwner
  Capacity = 1
  MaxStarts <- MCStarts
  MaxPages = 1
  MaxPushes = 1
  MaxDrops = 1
INVARIANTS
  IInv
  LiveIsRegistered
  OneOwner
PROPERTY Reconnects
CHECK_DEADLOCK FALSE
