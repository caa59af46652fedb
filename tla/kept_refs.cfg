SPECIFICATION KeptSpec
CONSTANTS
  Capacity = 1
  Laps = 2
  s1 = s1
  s2 = s2
  Senders = {s1}
  NumReceivers = 1
  Keepers = {0}
  Limits = {1}
  SeqBound = 1
  SHUTDOWN_OPEN = 9
INVARIANTS
  WritesAreOrdered
