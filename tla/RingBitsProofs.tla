---------------------------- MODULE RingBitsProofs -----------------------------
(***************************************************************************)
(* The words mean what they stand for, for all widths and all ring sizes   *)
(* whose bit operations obey the assumptions of RingBits.                  *)
(***************************************************************************)
EXTENDS RingBits, TLAPS

\* The remainder and the quotient that a mask and a shift compute.
LEMMA Division ==
  ASSUME NEW a \in Int, NEW n \in Nat \ {0}
  PROVE  /\ a % n \in 0 .. (n - 1) /\ a \div n \in Int
         /\ a = n * (a \div n) + (a % n)
  BY SMT

\* There is only one remainder below n.
LEMMA Remainder ==
  ASSUME NEW a \in Int, NEW n \in Nat \ {0}, NEW q \in Int, NEW r \in 0 .. (n - 1),
         a = n * q + r
  PROVE  a % n = r
<1>1. a % n \in 0 .. (n - 1) /\ a \div n \in Int /\ a = n * (a \div n) + (a % n)
  BY Division
<1> DEFINE d == q - (a \div n)
<1>2. d \in Int /\ n * d = (a % n) - r
  BY <1>1
<1> HIDE DEF d
<1>3. d = 0
  <2>1. n * d < n /\ -n < n * d
    BY <1>1, <1>2
  <2>2. CASE d >= 1
    BY <1>2, <2>1, <2>2
  <2>3. CASE d <= -1
    BY <1>2, <2>1, <2>3
  <2> QED
    BY <1>2, <2>2, <2>3
<1> QED
  BY <1>1, <1>2, <1>3

\* A wrap at the width of a word does not disturb the bits below its top bit
\* (slot_states.rs:89-92: the lap as u32, then the mask).
LEMMA WrapThenMask ==
  ASSUME NEW a \in Int, NEW top \in Nat \ {0}
  PROVE  AsWord(a, top) \in WordsOf(top) /\ AsWord(a, top) % top = a % top
<1> DEFINE w == a % (2 * top)
           p == a \div (2 * top)
           h == w \div top
<1>0. 2 * top \in Nat \ {0}
  OBVIOUS
<1>1. w \in 0 .. (2 * top - 1) /\ p \in Int /\ a = (2 * top) * p + w
  BY <1>0, Division
<1> HIDE DEF w, p
<1>2. w % top \in 0 .. (top - 1) /\ h \in Int /\ w = top * h + (w % top)
  BY <1>1, Division
<1> HIDE DEF h
<1> DEFINE q == 2 * p + h
           r == w % top
<1>3. q \in Int /\ a = top * q + r
  <2>1. top * q = (2 * top) * p + top * h
    BY <1>1, <1>2
  <2>2. r \in Int /\ top * q \in Int /\ top * h \in Int /\ (2 * top) * p \in Int
    BY <1>1, <1>2
  <2> HIDE DEF r
  <2>3. w = top * h + r
    BY <1>2 DEF r
  <2> QED
    BY <1>1, <1>2, <2>1, <2>2, <2>3
<1> HIDE DEF q, r
<1>4. a % top = r
  <2>1. r \in 0 .. (top - 1)
    BY <1>2 DEF r
  <2> QED
    BY <1>3, <2>1, Remainder
<1> QED
  BY <1>1, <1>4 DEF AsWord, WordsOf, w, r

\* Numbers with the same remainder have successors with the same one.
LEMMA SuccessorsAlike ==
  ASSUME NEW a \in Int, NEW b \in Int, NEW n \in Nat \ {0}, a % n = b % n
  PROVE  (a + 1) % n = (b + 1) % n
<1> DEFINE r == (b + 1) % n
           p == a \div n
           q == b \div n
           s == (b + 1) \div n
           z == b % n
<1>1. z \in 0 .. (n - 1) /\ p \in Int /\ q \in Int /\ a = n * p + z /\ b = n * q + z
  BY Division
<1>2. r \in 0 .. (n - 1) /\ s \in Int /\ b + 1 = n * s + r
  BY Division
<1> HIDE DEF r, p, q, s, z
<1>3. a + 1 = n * (p - q + s) + r
  <2>1. n * (p - q + s) = n * p - n * q + n * s
    BY <1>1, <1>2
  <2>2. n * p \in Int /\ n * q \in Int /\ n * s \in Int
    BY <1>1, <1>2
  <2> QED
    BY <1>1, <1>2, <2>1, <2>2
<1>4. a + 1 \in Int /\ p - q + s \in Int
  BY <1>1, <1>2
<1>5. (a + 1) % n = r
  BY <1>2, <1>3, <1>4, Remainder
<1> QED
  BY <1>5 DEF r

\* Seqs and their words: a seq is its own word, and INIT has all bits set
\* (pub_mul.rs:16-18).
LEMMA WordOfSeq ==
  /\ \A c \in 0 .. (2 * SHUTDOWN_MASK - 1) : AsWord(c, SHUTDOWN_MASK) = c
  /\ AsWord(-1, SHUTDOWN_MASK) = 2 * SHUTDOWN_MASK - 1
<1>1. SHUTDOWN_MASK \in Nat \ {0} /\ 2 * SHUTDOWN_MASK \in Nat \ {0}
  BY WordsAssumption
<1>2. ASSUME NEW c \in 0 .. (2 * SHUTDOWN_MASK - 1) PROVE AsWord(c, SHUTDOWN_MASK) = c
  <2>1. c \in Int /\ c = (2 * SHUTDOWN_MASK) * 0 + c
    BY <1>1
  <2> QED
    BY <1>1, <2>1, Remainder DEF AsWord
<1>3. -1 = (2 * SHUTDOWN_MASK) * (-1) + (2 * SHUTDOWN_MASK - 1)
  BY <1>1
<1>4. 2 * SHUTDOWN_MASK - 1 \in 0 .. (2 * SHUTDOWN_MASK - 1)
  BY <1>1
<1>5. AsWord(-1, SHUTDOWN_MASK) = 2 * SHUTDOWN_MASK - 1
  BY <1>1, <1>3, <1>4, Remainder DEF AsWord
<1> QED
  BY <1>2, <1>5

\* What the cursor word is when it reads as its seq and its bit: the seq with
\* the top bit added, or the seq's own word (pub_mul.rs:66-73).
CursorWord == IF down THEN claimed + SHUTDOWN_MASK
              ELSE IF claimed = -1 THEN 2 * SHUTDOWN_MASK - 1 ELSE claimed

LEMMA CursorWordMeans ==
  TypeOK => (CursorWordReads <=> word = CursorWord /\ (down => claimed >= 0))
<1> SUFFICES ASSUME TypeOK
             PROVE  CursorWordReads <=> word = CursorWord /\ (down => claimed >= 0)
  OBVIOUS
<1>1. /\ SHUTDOWN_MASK \in Nat /\ SHUTDOWN_MASK >= 2
      /\ word \in 0 .. (2 * SHUTDOWN_MASK - 1) /\ claimed \in -1 .. (SHUTDOWN_MASK - 2)
      /\ down \in BOOLEAN
  BY WordsAssumption DEF TypeOK, WordsOf, VALUE_MASK
<1>2. /\ AsWord(-1, SHUTDOWN_MASK) = 2 * SHUTDOWN_MASK - 1
      /\ claimed >= 0 => AsWord(claimed, SHUTDOWN_MASK) = claimed
  BY <1>1, WordOfSeq
<1>3. BitAnd(word, VALUE_MASK) = word % SHUTDOWN_MASK
  BY <1>1, MaskAssumption DEF WordsOf, VALUE_MASK
<1>4. word % SHUTDOWN_MASK = IF word >= SHUTDOWN_MASK THEN word - SHUTDOWN_MASK ELSE word
  <2>1. CASE word >= SHUTDOWN_MASK
    <3>1. word = SHUTDOWN_MASK * 1 + (word - SHUTDOWN_MASK)
      BY <1>1
    <3>2. word - SHUTDOWN_MASK \in 0 .. (SHUTDOWN_MASK - 1)
      BY <1>1, <2>1
    <3>3. word % SHUTDOWN_MASK = word - SHUTDOWN_MASK
      BY <1>1, <3>1, <3>2, Remainder
    <3> QED
      BY <2>1, <3>3
  <2>2. CASE ~(word >= SHUTDOWN_MASK)
    <3>1. word = SHUTDOWN_MASK * 0 + word /\ word \in 0 .. (SHUTDOWN_MASK - 1)
      BY <1>1, <2>2
    <3>2. word % SHUTDOWN_MASK = word
      BY <1>1, <3>1, Remainder
    <3> QED
      BY <2>2, <3>2
  <2> QED
    BY <2>1, <2>2
<1>5. has_shutdown(word) <=> word >= SHUTDOWN_MASK /\ word # 2 * SHUTDOWN_MASK - 1
  BY <1>2 DEF has_shutdown
<1>6. has_shutdown(word) \in BOOLEAN
  BY DEF has_shutdown
<1>7. CursorWordReads <=> /\ has_shutdown(word) <=> down
                          /\ last_claimed(word) = AsWord(claimed, SHUTDOWN_MASK)
  BY <1>1, <1>6 DEF CursorWordReads
<1>8. last_claimed(word) = IF has_shutdown(word) THEN word - SHUTDOWN_MASK ELSE word
  BY <1>3, <1>4, <1>5 DEF last_claimed
<1>9. CASE down
  BY <1>1, <1>2, <1>5, <1>7, <1>8, <1>9 DEF CursorWord
<1>10. CASE ~down
  BY <1>1, <1>2, <1>5, <1>7, <1>8, <1>10 DEF CursorWord
<1> QED
  BY <1>9, <1>10

\* What a state word is: the flag, with the top bit added once shut
\* (slot_states.rs:62-69).
StateWord == IF shut THEN flag + SHUTDOWN_BIT ELSE flag

LEMMA StateWordMeans ==
  TypeOK => (StateWordReads <=> state = StateWord)
<1> SUFFICES ASSUME TypeOK
             PROVE  StateWordReads <=> state = StateWord
  OBVIOUS
<1>1. /\ SHUTDOWN_BIT \in Nat /\ SHUTDOWN_BIT >= 2
      /\ state \in 0 .. (2 * SHUTDOWN_BIT - 1) /\ flag \in 0 .. (SHUTDOWN_BIT - 1)
      /\ shut \in BOOLEAN
  BY WordsAssumption DEF TypeOK, WordsOf, MASK
<1>2. state \in WordsOf(SHUTDOWN_MASK) /\ (claimed >= 0 => claimed \in WordsOf(SHUTDOWN_MASK))
  BY <1>1, WordsAssumption DEF TypeOK, WordsOf, VALUE_MASK
<1>3. BitAnd(state, MASK) = state % SHUTDOWN_BIT
  BY <1>2, MaskAssumption DEF MASK
<1>4. claimed >= 0 => index_of_seq(claimed) = Ring!IndexOf(claimed)
  <2>1. claimed >= 0 => BitAnd(claimed, size - 1) = claimed % size
    BY <1>2, MaskAssumption DEF TypeOK
  <2> QED
    BY <2>1 DEF index_of_seq, Ring!IndexOf
<1>5. BitAnd(state, SHUTDOWN_BIT) # 0 <=> state >= SHUTDOWN_BIT
  BY <1>1, TopBitAssumption DEF WordsOf
<1>6. state % SHUTDOWN_BIT = IF state >= SHUTDOWN_BIT THEN state - SHUTDOWN_BIT ELSE state
  <2>1. CASE state >= SHUTDOWN_BIT
    <3>1. state = SHUTDOWN_BIT * 1 + (state - SHUTDOWN_BIT)
      BY <1>1
    <3>2. state - SHUTDOWN_BIT \in 0 .. (SHUTDOWN_BIT - 1)
      BY <1>1, <2>1
    <3>3. state % SHUTDOWN_BIT = state - SHUTDOWN_BIT
      BY <1>1, <3>1, <3>2, Remainder
    <3> QED
      BY <2>1, <3>3
  <2>2. CASE ~(state >= SHUTDOWN_BIT)
    <3>1. state = SHUTDOWN_BIT * 0 + state /\ state \in 0 .. (SHUTDOWN_BIT - 1)
      BY <1>1, <2>2
    <3>2. state % SHUTDOWN_BIT = state
      BY <1>1, <3>1, Remainder
    <3> QED
      BY <2>2, <3>2
  <2> QED
    BY <2>1, <2>2
<1>7. StateWordReads <=> /\ state % SHUTDOWN_BIT = flag
                         /\ state >= SHUTDOWN_BIT <=> shut
  BY <1>1, <1>3, <1>4, <1>5 DEF StateWordReads
<1>8. CASE shut
  BY <1>1, <1>6, <1>7, <1>8 DEF StateWord
<1>9. CASE ~shut
  BY <1>1, <1>6, <1>7, <1>9 DEF StateWord
<1> QED
  BY <1>8, <1>9

\* The flag a publish stores is the lap flag of RingMeta, however often the
\* lap count has wrapped as a u32 (slot_states.rs:89-92).
LEMMA FlagOfSeq ==
  ASSUME TypeOK, claimed >= 0
  PROVE  /\ available_flag(claimed) = Ring!AvailableFlag(claimed)
         /\ available_flag(claimed) \in 0 .. (SHUTDOWN_BIT - 1)
<1>1. /\ SHUTDOWN_BIT \in Nat \ {0} /\ SHUTDOWN_MASK \in Nat /\ SHUTDOWN_MASK > SHUTDOWN_BIT
      /\ size \in Sizes /\ size \in Nat \ {0} /\ claimed \in Nat
      /\ claimed \in WordsOf(SHUTDOWN_MASK)
  BY WordsAssumption DEF TypeOK, WordsOf, VALUE_MASK
<1> DEFINE lap  == claimed \div size
           cast == AsWord(lap, SHUTDOWN_BIT)
           next == AsWord(cast + 1, SHUTDOWN_BIT)
<1>2. ShiftRight(claimed, trailing_zeros(size)) = lap /\ lap \in Int
  <2>1. lap \in Int
    BY <1>1, Division
  <2> QED
    BY <1>1, <2>1, MaskAssumption
<1> HIDE DEF lap
<1>3. cast \in WordsOf(SHUTDOWN_BIT) /\ cast % SHUTDOWN_BIT = lap % SHUTDOWN_BIT /\ cast \in Int
  <2>1. cast \in WordsOf(SHUTDOWN_BIT) /\ cast % SHUTDOWN_BIT = lap % SHUTDOWN_BIT
    BY <1>1, <1>2, WrapThenMask
  <2>2. \A x \in WordsOf(SHUTDOWN_BIT) : x \in Int
    BY <1>1 DEF WordsOf
  <2> QED
    BY <2>1, <2>2
<1> HIDE DEF cast
<1>4. next \in WordsOf(SHUTDOWN_BIT) /\ next % SHUTDOWN_BIT = (cast + 1) % SHUTDOWN_BIT
  <2>1. cast + 1 \in Int
    BY <1>3
  <2> QED
    BY <1>1, <2>1, WrapThenMask
<1>5. (cast + 1) % SHUTDOWN_BIT = (lap + 1) % SHUTDOWN_BIT
  BY <1>1, <1>2, <1>3, SuccessorsAlike
<1> HIDE DEF next
<1>6. BitAnd(next, MASK) = next % SHUTDOWN_BIT
  <2>1. next \in WordsOf(SHUTDOWN_MASK)
    BY <1>1, <1>4 DEF WordsOf
  <2> QED
    BY <2>1, MaskAssumption DEF MASK
<1>7. available_flag(claimed) = BitAnd(next, MASK)
  BY <1>2 DEF available_flag, next, cast
<1>8. Ring!AvailableFlag(claimed) = (lap + 1) % SHUTDOWN_BIT
  BY DEF Ring!AvailableFlag, Ring!LapOf, lap
<1>9. (lap + 1) % SHUTDOWN_BIT \in 0 .. (SHUTDOWN_BIT - 1)
  <2>1. lap + 1 \in Int
    BY <1>2
  <2> QED
    BY <1>1, <2>1, Division
<1> QED
  BY <1>4, <1>5, <1>6, <1>7, <1>8, <1>9

-------------------------------------------------------------------------------
(* The words keep their meaning. *)

Meaning == TypeOK /\ CursorWordReads /\ StateWordReads

LEMMA MeaningAtFirst == Init => Meaning
<1> SUFFICES ASSUME Init PROVE Meaning
  OBVIOUS
<1>1. SHUTDOWN_MASK \in Nat /\ SHUTDOWN_BIT \in Nat /\ SHUTDOWN_BIT >= 2 /\ SHUTDOWN_MASK > SHUTDOWN_BIT
  BY WordsAssumption
<1>2. word = 2 * SHUTDOWN_MASK - 1
  BY WordOfSeq DEF Init
<1>3. TypeOK
  <2>1. word \in WordsOf(SHUTDOWN_MASK) /\ 0 \in WordsOf(SHUTDOWN_BIT)
        /\ 0 \in 0 .. MASK /\ -1 \in -1 .. (VALUE_MASK - 1)
    BY <1>1, <1>2 DEF WordsOf, VALUE_MASK, MASK
  <2> QED
    BY <2>1 DEF Init, TypeOK, Ring!EmptyFlag
<1>4. word = CursorWord /\ (down => claimed >= 0) /\ state = StateWord
  BY <1>2 DEF Init, CursorWord, StateWord, Ring!EmptyFlag
<1> QED
  BY <1>3, <1>4, CursorWordMeans, StateWordMeans DEF Meaning

\* A step keeps the words in their width and the meaning, said as values.
LEMMA MeaningKept ==
  ASSUME TypeOK, word = CursorWord, down => claimed >= 0, state = StateWord, [Next]_vars
  PROVE  TypeOK' /\ word' = CursorWord' /\ (down' => claimed' >= 0) /\ state' = StateWord'
<1>1. /\ SHUTDOWN_MASK \in Nat /\ SHUTDOWN_BIT \in Nat /\ SHUTDOWN_BIT >= 2
      /\ SHUTDOWN_MASK > SHUTDOWN_BIT /\ (\A n \in Sizes : n \in 1 .. (SHUTDOWN_BIT - 1))
  BY WordsAssumption
<1>2. /\ claimed \in -1 .. (SHUTDOWN_MASK - 2) /\ down \in BOOLEAN
      /\ flag \in 0 .. (SHUTDOWN_BIT - 1) /\ shut \in BOOLEAN /\ size \in Sizes
      /\ word \in 0 .. (2 * SHUTDOWN_MASK - 1) /\ state \in 0 .. (2 * SHUTDOWN_BIT - 1)
  BY <1>1 DEF TypeOK, WordsOf, VALUE_MASK, MASK
<1>3. /\ \A x \in Int : x \in 0 .. (2 * SHUTDOWN_MASK - 1) => x \in WordsOf(SHUTDOWN_MASK)
      /\ \A x \in Int : x \in 0 .. (2 * SHUTDOWN_BIT - 1) => x \in WordsOf(SHUTDOWN_BIT)
      /\ MASK = SHUTDOWN_BIT - 1 /\ VALUE_MASK = SHUTDOWN_MASK - 1
  BY <1>1 DEF WordsOf, VALUE_MASK, MASK
<1>4. CASE UNCHANGED vars
  BY <1>4 DEF vars, TypeOK, CursorWord, StateWord
<1>5. ASSUME NEW n \in 1 .. size, Claim(n)
      PROVE  TypeOK' /\ word' = CursorWord' /\ (down' => claimed' >= 0) /\ state' = StateWord'
  <2>1. n \in Nat /\ n >= 1 /\ claimed + n < SHUTDOWN_MASK - 1
    BY <1>1, <1>2, <1>5 DEF Claim, VALUE_MASK
  <2>2. ~down
    BY <1>5, CursorWordMeans DEF CursorWordReads, Claim
  <2>3. AsWord(word + n, SHUTDOWN_MASK) = claimed + n
    <3>1. CASE claimed = -1
      <4>1. word = 2 * SHUTDOWN_MASK - 1
        BY <2>2, <3>1 DEF CursorWord
      <4>2. word + n = (2 * SHUTDOWN_MASK) * 1 + (n - 1) /\ word + n \in Int
        BY <1>1, <2>1, <4>1
      <4>3. n - 1 \in 0 .. (2 * SHUTDOWN_MASK - 1) /\ 2 * SHUTDOWN_MASK \in Nat \ {0}
        BY <1>1, <2>1, <3>1
      <4> DEFINE m == 2 * SHUTDOWN_MASK
      <4>4. m \in Nat \ {0} /\ word + n = m * 1 + (n - 1) /\ n - 1 \in 0 .. (m - 1)
        BY <4>2, <4>3
      <4> HIDE DEF m
      <4>5. (word + n) % m = n - 1
        BY <4>2, <4>4, Remainder
      <4> QED
        BY <2>1, <3>1, <4>5 DEF AsWord, m
    <3>2. CASE claimed # -1
      <4>1. word = claimed
        BY <2>2, <3>2 DEF CursorWord
      <4>2. word + n = claimed + n /\ claimed + n \in 0 .. (2 * SHUTDOWN_MASK - 1)
        BY <1>1, <1>2, <2>1, <3>2, <4>1
      <4> QED
        BY <4>2, WordOfSeq
    <3> QED
      BY <3>1, <3>2
  <2>4. word' = claimed + n /\ claimed' = claimed + n /\ UNCHANGED <<size, down, state, flag, shut>>
    BY <1>5, <2>3 DEF Claim
  <2>5. claimed' \in 0 .. (SHUTDOWN_MASK - 2) /\ word' \in 0 .. (2 * SHUTDOWN_MASK - 1)
    BY <1>1, <1>2, <2>1, <2>4
  <2>6. word' = CursorWord'
    BY <2>2, <2>4, <2>5 DEF CursorWord
  <2>7. TypeOK'
    BY <1>1, <1>3, <2>4, <2>5 DEF TypeOK
  <2> QED
    BY <2>4, <2>5, <2>6, <2>7 DEF StateWord
<1>6. CASE Publish
  <2>1. claimed >= 0
    BY <1>6 DEF Publish
  <2>2. /\ available_flag(claimed) = Ring!AvailableFlag(claimed)
        /\ available_flag(claimed) \in 0 .. (SHUTDOWN_BIT - 1)
    BY <2>1, FlagOfSeq
  <2>3. /\ state' = available_flag(claimed) /\ flag' = available_flag(claimed) /\ shut' = FALSE
        /\ UNCHANGED <<size, word, claimed, down>>
    BY <1>6, <2>2 DEF Publish
  <2>4. state' \in 0 .. (2 * SHUTDOWN_BIT - 1) /\ flag' \in 0 .. (SHUTDOWN_BIT - 1)
    BY <1>1, <2>2, <2>3
  <2>5. TypeOK'
    <3>1. state' \in WordsOf(SHUTDOWN_BIT) /\ flag' \in 0 .. MASK
      BY <1>1, <1>3, <2>4
    <3> QED
      BY <2>3, <3>1 DEF TypeOK
  <2> QED
    BY <2>3, <2>5 DEF CursorWord, StateWord
<1>7. CASE Close
  <2>1. BitOr(state, SHUTDOWN_BIT) = IF state >= SHUTDOWN_BIT THEN state ELSE state + SHUTDOWN_BIT
    BY TopBitAssumption DEF TypeOK
  <2>2. BitOr(word, SHUTDOWN_MASK) = IF word >= SHUTDOWN_MASK THEN word ELSE word + SHUTDOWN_MASK
    BY TopBitAssumption DEF TypeOK
  <2>3. /\ state' = BitOr(state, SHUTDOWN_BIT) /\ shut' = TRUE
        /\ word' = BitOr(word, SHUTDOWN_MASK) /\ down' = (claimed # -1)
        /\ UNCHANGED <<size, claimed, flag>>
    BY <1>7 DEF Close
  <2>4. state' = flag + SHUTDOWN_BIT
    BY <1>1, <1>2, <2>1, <2>3 DEF StateWord
  <2>5. word' = IF claimed = -1 THEN 2 * SHUTDOWN_MASK - 1 ELSE claimed + SHUTDOWN_MASK
    BY <1>1, <1>2, <2>2, <2>3 DEF CursorWord
  <2>6. state' \in 0 .. (2 * SHUTDOWN_BIT - 1) /\ word' \in 0 .. (2 * SHUTDOWN_MASK - 1)
    BY <1>1, <1>2, <2>4, <2>5
  <2>7. TypeOK'
    BY <1>3, <2>3, <2>6 DEF TypeOK
  <2>8. state' = StateWord'
    BY <2>3, <2>4 DEF StateWord
  <2>9. word' = CursorWord' /\ (down' => claimed' >= 0)
    <3>1. CASE claimed = -1
      BY <2>3, <2>5, <3>1 DEF CursorWord
    <3>2. CASE claimed # -1
      <4>1. down' = TRUE /\ claimed' = claimed
        BY <2>3, <3>2
      <4>2. word' = claimed' + SHUTDOWN_MASK /\ claimed' >= 0
        BY <1>2, <2>5, <3>2, <4>1
      <4> QED
        BY <4>1, <4>2 DEF CursorWord
    <3> QED
      BY <3>1, <3>2
  <2> QED
    BY <2>7, <2>8, <2>9
<1> QED
  BY <1>4, <1>5, <1>6, <1>7 DEF Next

\* The two words mean what the other modules keep (pub_mul.rs:13-31,
\* slot_states.rs:62-105), for words of any width and any ring size.
THEOREM WordsMean == Spec => []Meaning
<1> DEFINE Values == TypeOK /\ word = CursorWord /\ (down => claimed >= 0) /\ state = StateWord
<1>1. Meaning <=> Values
  BY CursorWordMeans, StateWordMeans DEF Meaning
<1>2. Values /\ [Next]_vars => Values'
  BY MeaningKept
<1> HIDE DEF Values
<1> QED
  BY <1>1, <1>2, MeaningAtFirst, PTL DEF Spec

\* The words stay in their width, and so do the seqs and flags.
THEOREM WordTypes == Spec => []TypeOK
<1>1. Meaning => TypeOK
  BY DEF Meaning
<1> QED
  BY <1>1, WordsMean, PTL

\* The cursor word tells a shutdown from INIT and gives back the last claim
\* (has_shutdown, and close() at pub_mul.rs:66-73).
THEOREM CursorReads == Spec => []CursorWordReads
<1>1. Meaning => CursorWordReads
  BY DEF Meaning
<1> QED
  BY <1>1, WordsMean, PTL

\* The flag and the shutdown bit of a state word do not disturb each other
\* (slot_states.rs:62-105).
THEOREM StateReads == Spec => []StateWordReads
<1>1. Meaning => StateWordReads
  BY DEF Meaning
<1> QED
  BY <1>1, WordsMean, PTL
===============================================================================
