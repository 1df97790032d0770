SPECIFICATION Spec
CONSTANTS
  peer1 = peer1
  peer2 = peer2
  k1 = k1
  k2 = k2
  k3 = k3
  m1 = m1
  m2 = m2
  n1 = n1
  t1 = t1
  Self = Self
  None = None
  Peers = {peer1, peer2}
  Msgs = {m1, m2, n1}
  From <- MCFrom
  KeyOf <- MCKeyOf
  BundleKey <- MCBundle
  Pages <- MCPages
  Texts = {t1}
  HistoryLimit = 1
  MaxBatch = 1
  MaxChat = 2
  MaxFaults = 1
INVARIANTS
  
  ScreenFaithful
 
CHECK_DEADLOCK FALSE
