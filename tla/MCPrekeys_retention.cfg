SPECIFICATION Spec
CONSTANTS
  Requesters = {r1, r2}
  NoKey = NoKey
  MaxKey = 3
  Batch = 1
  MaxInventory = 2
  LowThreshold = 1
  PerRequester = 1
  PerTarget = 2
  PublicRetention = 1
  PrivateRetention = 3
  Reservation = 1
  QueueRetention = 1
  MaxTime = 4
  MaxDrops = 0
  MaxLows = 1
SYMMETRY Symmetry
CHECK_DEADLOCK FALSE
INVARIANT AdmittedCanBeOpened
