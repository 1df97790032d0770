SPECIFICATION Spec
CONSTANTS
  Msgs = {m1, m2}
  MaxBatch = 1
  MaxOutbox = 1
  MaxQueue = 1
  MaxAcks = 3
  MaxDrops = 2
SYMMETRY Symmetry
INVARIANTS
  TypeOK
  ReadOnce
  ReceiptNotLost
  AckPossible
PROPERTY DeletedOnlyWhenDropped
CHECK_DEADLOCK FALSE
