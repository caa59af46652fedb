SPECIFICATION Spec
CONSTANTS
  Capacity = 2
  Laps = 2
  s1 = s1
  s2 = s2
  Senders = {s1, s2}
  NumReceivers = 1
  Readers = {0}
  rxOf <- OneEach
  Ops = {"send", "reserve", "batch"}
  Limits = {1, 2}
  Faults = {}
  SeqBound = 4
  I64_MAX = 7
  SHUTDOWN_OPEN = SHUTDOWN_OPEN
INVARIANTS
  TypeOK
  IndInv
  DrainInv
  NoConcurrentAccess
  GuardShowsItsClaims
  FlagsTellLapsApart
  DisconnectedOnlyWhenDrained
PROPERTIES
  DisconnectedIsFinal
  EachItemOnceInOrder
  FullOnlyWhenFull
  EmptyOnlyWhenEmpty
SYMMETRY Symmetry
