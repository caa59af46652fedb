SPECIFICATION Spec
CONSTANTS
  Capacity = 2
  Laps = 2
  s1 = s1
  s2 = s2
  Senders = {s1}
  NumReceivers = 1
  Readers = {0, 1}
  rxOf <- Shared
  Ops = {"send", "reserve", "batch"}
  Limits = {1, 2}
  Faults = {}
  SeqBound = 3
  I64_MAX = 7
  SHUTDOWN_OPEN = SHUTDOWN_OPEN
INVARIANTS
  NoConcurrentAccess
