SPECIFICATION Spec
CONSTANTS
  Capacity = 2
  Laps = 2
  s1 = s1
  s2 = s2
  Senders = {s1, s2}
  NumReceivers = 1
  Keepers = {}
  Limits = {1, 2}
  SeqBound = 1
  SHUTDOWN_OPEN = 9
INVARIANTS
  TypeOK
  IndInv
  WritesAreOrdered
  ReadsAreOrdered
  StateStoresAreOrdered
  StaleDisconnect
PROPERTIES
  ImplementsLog
SYMMETRY Symmetry
