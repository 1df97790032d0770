SPECIFICATION Spec
CONSTANTS
  Requesters = {r1}
  NoKey = NoKey
  MaxKey = 7
  Batch = 2
  MaxInventory = 3
  LowThreshold = 1
  PerRequester = 2
  PerTarget = 1
  PublicRetention = 2
  PrivateRetention = 5
  Reservation = 1
  QueueRetention = 2
  MaxTime = 0
  MaxDrops = 1
  MaxLows = 2
CHECK_DEADLOCK FALSE
INVARIANT DiscardedAreUnpublished
