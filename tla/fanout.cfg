SPECIFICATION FairSpec
CONSTANTS
  Capacity = 2
  Laps = 2
  s1 = s1
  s2 = s2
  Senders = {s1, s2}
  NumReceivers = 2
  Readers = {0, 1}
  rxOf <- OneEach
  Ops = {"batch"}
  Limits = {2}
  Faults = {"lost_claim"}
  SeqBound = 1
  I64_MAX = 7
  SHUTDOWN_OPEN = SHUTDOWN_OPEN
INVARIANTS
  FillInv
PROPERTIES
  ImplementsLog
  PublishedIsReceived
  DropDisconnects
