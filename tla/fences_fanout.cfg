SPECIFICATION Spec
CONSTANTS
  Capacity = 1
  Laps = 2
  s1 = s1
  s2 = s2
  Senders = {s1}
  NumReceivers = 2
  Keepers = {}
  Limits = {1}
  SeqBound = 2
  SHUTDOWN_OPEN = 9
INVARIANTS
  IndInv
  WritesAreOrdered
  ReadsAreOrdered
PROPERTIES
  ImplementsLog
SYMMETRY Symmetry
