------------------------------- MODULE RingMeta -------------------------------
(***************************************************************************)
(* The arithmetic that maps an absolute sequence number to a slot of the   *)
(* ring and to the lap flag that tells the laps of that slot apart         *)
(* (src/ringbuffer.rs RingBufferMeta, src/slot_states.rs U32SlotStates).   *)
(*                                                                         *)
(* The code masks with Capacity - 1 and shifts by log2(Capacity); both are *)
(* written here as the remainder and the quotient they compute for a power *)
(* of two.  Nothing below needs Capacity to be a power of two.             *)
(***************************************************************************)
EXTENDS Integers

CONSTANTS
  Capacity,   \* buffer_size: the number of slots of the ring
  Laps        \* the number of distinct lap flags, 2^31 in the code (MASK + 1)

ASSUME CapacityAssumption == Capacity \in Nat \ {0}
ASSUME LapsAssumption     == Laps \in Nat /\ Laps >= 2

Slots == 0 .. (Capacity - 1)
Flags == 0 .. (Laps - 1)

\* The value of a slot's state word before anything is published in it.
EmptyFlag == 0

IndexOf(seq) == seq % Capacity

LapOf(seq) == seq \div Capacity

\* A flag that ignores the lap: one bit per slot, "has something in it".
AvailableFlagOneLap(seq) == 1

\* The mask that keeps the flag within its bits is missing.
AvailableFlagUnmasked(seq) == LapOf(seq) + 1

\* The flag is the lap plus one (flag_adjustment), so that no sequence of the
\* first lap has the flag of an empty slot; it wraps after Laps laps.
AvailableFlag(seq) == (LapOf(seq) + 1) % Laps

\* The wrap point taken one slot too far back.
AvailableSlotsOffByOne(highest, maxConsumed) == maxConsumed - (highest - Capacity) + 1

\* The wrap point taken one slot too far ahead.
AvailableSlotsShort(highest, maxConsumed) == maxConsumed - (highest - Capacity) - 1

\* Free slots after `highest`, given that everything up to maxConsumed is free.
AvailableSlots(highest, maxConsumed) == maxConsumed - (highest - Capacity)

MinOf(a, b) == IF a <= b THEN a ELSE b
MaxOf(a, b) == IF a >= b THEN a ELSE b

\* Where close() starts to look for the last published sequence: the oldest
\* sequence that can share the ring with the last claimed one.
WindowStart(lastClaimed) == MaxOf(lastClaimed - (Capacity - 1), 0)
===============================================================================
