SPECIFICATION FairSpec
CONSTANTS
  NoKey = NoKey
  MaxId = 9
  Period = 2
  History = 3
  Reservation = 0
  Retention = 2
  MaxTime = 9
  MaxDrops = 1
  MaxRestores = 1
CHECK_DEADLOCK FALSE
INVARIANTS
  TypeOK
  AcceptedCanBeOpened
  HeldIdsUnique
  PublishedOncePerId
PROPERTIES
  ListedNotDiscarded
  RotationSettles
