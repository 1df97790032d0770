CONSTANTS
  a = a  b = b  m1 = m1  m2 = m2  a1 = a1  a2 = a2  b1 = b1  b2 = b2
  Users <- MCUsers  From <- OneWayFrom  To <- OneWayTo  Owner <- MCOwner
  Opens <- MCOpens  NoConn = NoConn  AckIds = {1, 2, 3}
  Msgs = {m1, m2}  Conns = {a1, b1, b2}  Expirable = {m2}
  MaxOutbox = 2  MaxQueue = 1  MaxLedger = 1  MaxItems = 1  MaxProcessed = 1
  MaxScan = 2  MaxPage = 1  MaxRow = 2  MaxDrops <- Drops01  MaxFaults = 0
SPECIFICATION Spec
INVARIANTS
  ConsumedRecoverable
  
PROPERTIES
  DeletedOnlyWhenStored KeepsPromise
SYMMETRY Symmetry
CHECK_DEADLOCK FALSE
