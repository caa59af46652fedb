------------------------------- MODULE RingBits --------------------------------
(***************************************************************************)
(* The words of the channel bit by bit: the 64-bit cursor `claimed` with   *)
(* its shutdown bit, and a slot's 32-bit state word with its own.  The     *)
(* operations of the code, masks, shifts and wrapping additions, run next  *)
(* to the numbers and booleans that RingMeta and EnsoChannel keep instead. *)
(*                                                                         *)
(* The bit operations are parameters, of which MaskAssumption and the two  *)
(* after it say all that is used; TLC evaluates them on real ones.         *)
(***************************************************************************)
EXTENDS Integers

CONSTANTS
  SHUTDOWN_MASK,    \* the top bit of the cursor word, 2^63 in the code
  SHUTDOWN_BIT,     \* the top bit of a state word, 2^31 in the code
  Sizes,            \* the ring sizes, powers of two
  BitAnd(_, _),     \* the & of the code
  BitOr(_, _),      \* its |
  ShiftRight(_, _), \* its >>
  trailing_zeros(_) \* the index_shift of a size

\* The values of a word with the top bit given.
WordsOf(top) == 0 .. (2 * top - 1)

ASSUME WordsAssumption ==
  /\ SHUTDOWN_MASK \in Nat /\ SHUTDOWN_BIT \in Nat
  /\ SHUTDOWN_BIT >= 2 /\ SHUTDOWN_MASK > SHUTDOWN_BIT
  /\ \A n \in Sizes : n \in 1 .. (SHUTDOWN_BIT - 1)

\* A mask of low bits takes the remainder, a shift the quotient.
ASSUME MaskAssumption ==
  \A x \in WordsOf(SHUTDOWN_MASK) :
    /\ \A n \in Sizes \cup {SHUTDOWN_MASK, SHUTDOWN_BIT} : BitAnd(x, n - 1) = x % n
    /\ \A n \in Sizes : ShiftRight(x, trailing_zeros(n)) = x \div n

\* The top bit is set in the upper half of the words, and setting it moves there.
ASSUME TopBitAssumption ==
  /\ \A x \in WordsOf(SHUTDOWN_BIT) : BitAnd(x, SHUTDOWN_BIT) # 0 <=> x >= SHUTDOWN_BIT
  /\ \A top \in {SHUTDOWN_MASK, SHUTDOWN_BIT} : \A x \in WordsOf(top) :
       BitOr(x, top) = IF x >= top THEN x ELSE x + top

VARIABLES
  size,            \* buffer_size of this ring
  word,            \* the cursor word, as an unsigned number
  claimed, down,   \* what it stands for in EnsoChannel
  state,           \* the state word of the slot of `claimed`
  flag, shut       \* what it stands for

vars == <<size, word, claimed, down, state, flag, shut>>

Ring == INSTANCE RingMeta WITH Capacity <- size, Laps <- SHUTDOWN_BIT

\* The two's complement of a number in a word with the top bit given.
AsWord(x, top) == x % (2 * top)

VALUE_MASK == SHUTDOWN_MASK - 1
MASK       == SHUTDOWN_BIT - 1

\* Any word with the sign bit, the initial -1 included.
SignBitAlone(raw) == raw >= SHUTDOWN_MASK

\* raw < 0 && raw != -1
has_shutdown(raw) == raw >= SHUTDOWN_MASK /\ raw # AsWord(-1, SHUTDOWN_MASK)

last_claimed(raw) == IF has_shutdown(raw) THEN BitAnd(raw, VALUE_MASK) ELSE raw

index_of_seq(seq) == BitAnd(seq, size - 1)

\* The lap spills into the shutdown bit.
FlagWithoutMask(seq) ==
  AsWord(AsWord(ShiftRight(seq, trailing_zeros(size)), SHUTDOWN_BIT) + 1, SHUTDOWN_BIT)

\* (seq >> index_shift) as u32, a wrapping addition, and the mask.
available_flag(seq) ==
  BitAnd(AsWord(AsWord(ShiftRight(seq, trailing_zeros(size)), SHUTDOWN_BIT) + 1, SHUTDOWN_BIT), MASK)

Init ==
  /\ size \in Sizes
  /\ word = AsWord(-1, SHUTDOWN_MASK) /\ claimed = -1 /\ down = FALSE
  /\ state = 0 /\ flag = Ring!EmptyFlag /\ shut = FALSE

\* A claim of n slots by compare_exchange.  i64::MAX is no sequence but
\* SHUTDOWN_OPEN, and with the shutdown bit it would read as INIT.
Claim(n) ==
  /\ ~has_shutdown(word) /\ claimed + n < VALUE_MASK
  /\ word' = AsWord(word + n, SHUTDOWN_MASK)
  /\ claimed' = claimed + n
  /\ UNCHANGED <<size, down, state, flag, shut>>

\* publish: a plain store of the flag.
Publish ==
  /\ claimed >= 0
  /\ state' = available_flag(claimed)
  /\ flag' = Ring!AvailableFlag(claimed)
  /\ shut' = FALSE
  /\ UNCHANGED <<size, word, claimed, down>>

\* close(): mark_shutdown on a slot, then the store of raw | SHUTDOWN_MASK.
Close ==
  /\ state' = BitOr(state, SHUTDOWN_BIT)
  /\ shut' = TRUE
  /\ word' = BitOr(word, SHUTDOWN_MASK)
  /\ down' = (claimed # -1)
  /\ UNCHANGED <<size, claimed, flag>>

Next ==
  \/ \E n \in 1 .. size : Claim(n)
  \/ Publish
  \/ Close

Spec == Init /\ [][Next]_vars

TypeOK ==
  /\ size \in Sizes
  /\ word \in WordsOf(SHUTDOWN_MASK) /\ claimed \in -1 .. (VALUE_MASK - 1) /\ down \in BOOLEAN
  /\ state \in WordsOf(SHUTDOWN_BIT) /\ flag \in 0 .. MASK /\ shut \in BOOLEAN

\* pub_mul.rs:13-31: the cursor word tells a shutdown from INIT, whose bits are
\* all set, and gives back the sequence under the bit, however often it is set.
CursorWordReads ==
  /\ has_shutdown(word) = down
  /\ last_claimed(word) = AsWord(claimed, SHUTDOWN_MASK)

\* slot_states.rs:62-105: the lap flag, wrapped as often as may be, never
\* reaches the shutdown bit, nor does the bit change the flag; the index a
\* sequence is masked to is its place in the ring.
StateWordReads ==
  /\ BitAnd(state, MASK) = flag
  /\ (BitAnd(state, SHUTDOWN_BIT) # 0) = shut
  /\ claimed >= 0 => index_of_seq(claimed) = Ring!IndexOf(claimed)
===============================================================================
