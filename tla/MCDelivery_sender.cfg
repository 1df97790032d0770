CONSTANTS
  a = a  b = b  m1 = m1  m2 = m2  a1 = a1  a2 = a2  b1 = b1  b2 = b2
  Users <- MCUsers  From <- OneWayFrom  To <- OneWayTo  Owner <- MCOwner
  Opens <- MCOpens  NoConn = NoConn  AckIds = {1, 2, 3}
  Msgs = {m1}  Conns = {a1, a2, b1}  Expirable = {}
  MaxOutbox = 2  MaxQueue = 2  MaxLedger = 2  MaxItems = 2  MaxProcessed = 2
  MaxScan = 2  MaxPage = 1  MaxRow = 3  MaxDrops <- Drops20  MaxFaults = 1
SPECIFICATION Spec
INVARIANTS
  IInv
  NothingLost
  RejectedNeverDelivered
  RetryRecognised
  ItemCountExact
PROPERTIES
  RequeuedOnlyByDisplaced
SYMMETRY Symmetry
CHECK_DEADLOCK FALSE
