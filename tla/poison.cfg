SPECIFICATION Spec
CONSTANTS
  Capacity = 2
  Laps = 2
  s1 = s1
  s2 = s2
  Senders = {s1, s2}
  NumReceivers = 2
  Readers = {0, 1}
  rxOf <- OneEach
  Ops = {"batch"}
  Limits = {1, 2}
  Faults = {"recycler_panic", "slot_panic", "lost_claim", "lost_slot", "lost_guard"}
  SeqBound = 1
  I64_MAX = 7
  SHUTDOWN_OPEN = SHUTDOWN_OPEN
INVARIANTS
  IndInv
  NoConcurrentAccess
  FlagsTellLapsApart
PROPERTIES
  DrainedBeforeDisconnected
  ShutdownBitIsFinal
SYMMETRY Symmetry
