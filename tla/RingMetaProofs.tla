---------------------------- MODULE RingMetaProofs ----------------------------
(***************************************************************************)
(* Facts about slots and lap flags, for every capacity and every number of *)
(* laps: the arithmetic that src/slot_states.rs relies on to tell a slot   *)
(* of one lap from the same slot of the next.                              *)
(***************************************************************************)
EXTENDS RingMeta, TLAPS

\* Quotient and remainder, as the code's shift and mask compute them
\* (ringbuffer.rs index_of_seq, slot_states.rs available_flag).
LEMMA DivMod ==
  ASSUME NEW a \in Int, NEW n \in Nat \ {0}
  PROVE  /\ a % n \in 0 .. (n - 1) /\ a \div n \in Int
         /\ a = n * (a \div n) + (a % n)
  BY SMT

\* A multiple of n strictly between -n and n is zero.
LEMMA SmallMultiple ==
  ASSUME NEW n \in Nat \ {0}, NEW q \in Int, n * q < n, -n < n * q
  PROVE  q = 0
  BY SMT

\* IndexOf yields an index of the ring (the unchecked accesses of
\* ringbuffer.rs:56 and :64), and AvailableFlag a flag (slot_states.rs:89-92).
LEMMA RingTypes ==
  ASSUME NEW x \in Int
  PROVE  IndexOf(x) \in Slots /\ AvailableFlag(x) \in Flags /\ LapOf(x) \in Int
<1>1. IndexOf(x) \in Slots /\ LapOf(x) \in Int
  BY DivMod, CapacityAssumption DEF IndexOf, LapOf, Slots
<1>2. LapOf(x) + 1 \in Int /\ Laps \in Nat \ {0}
  BY <1>1, LapsAssumption
<1>3. AvailableFlag(x) \in Flags
  BY <1>2, DivMod DEF AvailableFlag, Flags
<1> QED
  BY <1>1, <1>3

\* Two sequences less than a ring apart that share a slot are the same
\* sequence: one slot holds one sequence of any window of Capacity.
LEMMA IndexUnique ==
  ASSUME NEW x \in Int, NEW y \in Int,
         IndexOf(x) = IndexOf(y), x - y < Capacity, y - x < Capacity
  PROVE  x = y
<1>1. x = Capacity * LapOf(x) + IndexOf(x) /\ LapOf(x) \in Int /\ IndexOf(x) \in Int
  BY DivMod, CapacityAssumption DEF LapOf, IndexOf
<1>2. y = Capacity * LapOf(y) + IndexOf(y) /\ LapOf(y) \in Int
  BY DivMod, CapacityAssumption DEF LapOf, IndexOf
<1>3. x - y = Capacity * (LapOf(x) - LapOf(y))
  BY <1>1, <1>2, CapacityAssumption
<1>4. LapOf(x) - LapOf(y) = 0
  BY <1>3, <1>1, <1>2, SmallMultiple, CapacityAssumption
<1> QED
  BY <1>3, <1>4, CapacityAssumption

\* Successive laps have different flags, even where the flag wraps.
LEMMA ModSucc ==
  ASSUME NEW n \in Nat, n >= 2, NEW a \in Int
  PROVE  (a + 1) % n # a % n
<1>0. n \in Nat \ {0} /\ a + 1 \in Int
  OBVIOUS
<1>1. a % n \in 0 .. (n - 1) /\ a \div n \in Int /\ a = n * (a \div n) + (a % n)
  BY <1>0, DivMod
<1>2. /\ (a + 1) % n \in 0 .. (n - 1) /\ (a + 1) \div n \in Int
      /\ a + 1 = n * ((a + 1) \div n) + ((a + 1) % n)
  BY <1>0, DivMod
<1>3. SUFFICES ASSUME (a + 1) % n = a % n PROVE FALSE
  OBVIOUS
<1> DEFINE q == (a + 1) \div n - (a \div n)
<1>4. q \in Int
  BY <1>1, <1>2
<1>5. n * q = 1
  BY <1>1, <1>2, <1>3
<1> HIDE DEF q
<1>6. CASE q > 0
  BY <1>4, <1>5, <1>6
<1>7. CASE q <= 0
  BY <1>4, <1>5, <1>7
<1> QED
  BY <1>4, <1>6, <1>7

\* One ring further on: the same slot, the next lap.
LEMMA IndexShift ==
  ASSUME NEW x \in Int
  PROVE  IndexOf(x + Capacity) = IndexOf(x) /\ LapOf(x + Capacity) = LapOf(x) + 1
<1>0. x + Capacity \in Int
  BY CapacityAssumption
<1>1. /\ x % Capacity \in 0 .. (Capacity - 1) /\ x \div Capacity \in Int
      /\ x = Capacity * (x \div Capacity) + (x % Capacity)
  BY DivMod, CapacityAssumption
<1>2. /\ (x + Capacity) % Capacity \in 0 .. (Capacity - 1)
      /\ (x + Capacity) \div Capacity \in Int
      /\ x + Capacity = Capacity * ((x + Capacity) \div Capacity) + ((x + Capacity) % Capacity)
  BY <1>0, DivMod, CapacityAssumption
<1> DEFINE q == (x + Capacity) \div Capacity - (x \div Capacity) - 1
<1>3. q \in Int /\ Capacity * q = (x % Capacity) - ((x + Capacity) % Capacity)
  BY <1>1, <1>2, CapacityAssumption
<1> HIDE DEF q
<1>4. q = 0
  BY <1>1, <1>2, <1>3, SmallMultiple, CapacityAssumption
<1> QED
  BY <1>1, <1>2, <1>3, <1>4, CapacityAssumption DEF q, IndexOf, LapOf

\* The flag a slot carries for one lap is never the one it gets for the next.
LEMMA NextLapDiffers ==
  ASSUME NEW x \in Int
  PROVE  AvailableFlag(x + Capacity) # AvailableFlag(x)
<1>1. LapOf(x) + 1 \in Int /\ LapOf(x + Capacity) = LapOf(x) + 1
  BY RingTypes, IndexShift
<1> QED
  BY <1>1, ModSucc, LapsAssumption DEF AvailableFlag

\* No slot looks published before the first lap was written.
LEMMA FirstLapNotEmpty ==
  ASSUME NEW x \in 0 .. (Capacity - 1)
  PROVE  AvailableFlag(x) # EmptyFlag
<1>1. LapOf(x) \in Int /\ IndexOf(x) \in 0 .. (Capacity - 1)
      /\ x = Capacity * LapOf(x) + IndexOf(x)
  BY DivMod, CapacityAssumption DEF LapOf, IndexOf
<1>2. LapOf(x) = 0
  BY <1>1, SmallMultiple, CapacityAssumption
<1>3. 1 % Laps = 1
  BY LapsAssumption
<1> QED
  BY <1>2, <1>3 DEF AvailableFlag, EmptyFlag
===============================================================================
