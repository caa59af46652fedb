SPECIFICATION FairSpec
CONSTANTS
  Capacity = 2
  Laps = 2
  s1 = s1
  s2 = s2
  Senders = {s1, s2}
  NumReceivers = 1
  Readers = {0}
  rxOf <- OneEach
  Ops = {"reserve"}
  Limits = {1}
  Faults = {"recycler_panic"}
  SeqBound = 1
  I64_MAX = 7
  SHUTDOWN_OPEN = SHUTDOWN_OPEN
PROPERTIES
  TerminateIsSeen
