SPECIFICATION Spec
CONSTANTS
  SHUTDOWN_MASK = 128
  SHUTDOWN_BIT = 8
  Sizes = {1, 2, 4}
  BitAnd <- WordAnd
  BitOr <- WordOr
  ShiftRight <- WordShr
  trailing_zeros <- ZerosBelow
INVARIANTS
  TypeOK
  CursorWordReads
  StateWordReads
