SPECIFICATION Spec
CONSTANTS
  None = None
  alice = alice
  bob = bob
  Parties <- MCParties
  MaxSent <- MCMaxSent
  MaxFetches <- MCMaxFetches
  MaxSkip = 1
  MaxCount = 4
CHECK_DEADLOCK FALSE
INVARIANTS
  TypeOK
  KeyUsedOnce
  KeysForgotten
  AnyOrderOpens
