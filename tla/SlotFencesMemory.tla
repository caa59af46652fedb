--------------------------- MODULE SlotFencesMemory ----------------------------
(***************************************************************************)
(* What the steps of SlotFences do to the memory and to the types of the   *)
(* locals, for any number of senders and receivers and any capacity.       *)
(*                                                                         *)
(* First the arithmetic of positions and the three ways a step touches the *)
(* memory (a load, a store, a read-modify-write); then what each action    *)
(* adds to the histories, and that the types are kept.                     *)
(***************************************************************************)
EXTENDS SlotFences, RingMetaProofs

-------------------------------------------------------------------------------
(* Positions of sequences in the histories of their slot. *)

\* A sequence's position is a message number, the second one for the first lap
\* (slot_states.rs:89-92: the flag is the lap plus one).
LEMMA PosType ==
  ASSUME NEW x \in Int
  PROVE  /\ Pos(x) \in Int /\ IndexOf(x) \in Slots
         /\ x >= 0 => Pos(x) >= 2
<1>1. /\ Pos(x) = LapOf(x) + 2 /\ LapOf(x) \in Int
      /\ x = Capacity * LapOf(x) + IndexOf(x) /\ IndexOf(x) \in 0 .. (Capacity - 1)
  BY DivMod, CapacityAssumption DEF Pos, LapOf, IndexOf
<1>2. ASSUME x >= 0, LapOf(x) <= -1 PROVE FALSE
  <2>1. Capacity * LapOf(x) <= -Capacity
    BY <1>1, <1>2, CapacityAssumption
  <2> QED
    BY <2>1, <1>1, <1>2, CapacityAssumption
<1> QED
  BY <1>1, <1>2, RingTypes

\* On one slot, a later sequence has a later position, and is a ring away.
LEMMA PosOrder ==
  ASSUME NEW x \in Int, NEW y \in Int, IndexOf(x) = IndexOf(y)
  PROVE  /\ x < y <=> Pos(x) < Pos(y)
         /\ x = y <=> Pos(x) = Pos(y)
         /\ x < y => x + Capacity <= y
         /\ Pos(y) = Pos(x) + 1 <=> y = x + Capacity
<1> DEFINE d == LapOf(y) - LapOf(x)
<1>1. /\ Pos(x) = LapOf(x) + 2 /\ Pos(y) = LapOf(y) + 2
      /\ LapOf(x) \in Int /\ LapOf(y) \in Int
      /\ y - x = Capacity * d /\ d \in Int
  <2>1. /\ LapOf(x) \in Int /\ LapOf(y) \in Int /\ IndexOf(x) \in Int
        /\ x = Capacity * LapOf(x) + IndexOf(x) /\ y = Capacity * LapOf(y) + IndexOf(y)
    BY DivMod, CapacityAssumption DEF LapOf, IndexOf
  <2> QED
    BY <2>1, CapacityAssumption DEF Pos
<1>2. d = Pos(y) - Pos(x)
  BY <1>1
<1> HIDE DEF d
<1>3. d >= 1 => y - x >= Capacity
  BY <1>1, CapacityAssumption
<1>4. d <= -1 => y - x <= -Capacity
  BY <1>1, CapacityAssumption
<1>5. d = 0 => y = x
  BY <1>1, CapacityAssumption
<1>6. d = 1 => y - x = Capacity
  BY <1>1, CapacityAssumption
<1>7. d >= 2 => y - x >= 2 * Capacity
  BY <1>1, CapacityAssumption
<1> QED
  BY <1>1, <1>2, <1>3, <1>4, <1>5, <1>6, <1>7, CapacityAssumption

\* One ring back or on: the same slot, one position apart.
LEMMA PosShift ==
  ASSUME NEW x \in Int
  PROVE  /\ IndexOf(x + Capacity) = IndexOf(x) /\ Pos(x + Capacity) = Pos(x) + 1
         /\ IndexOf(x - Capacity) = IndexOf(x) /\ Pos(x - Capacity) = Pos(x) - 1
<1>1. x - Capacity \in Int /\ (x - Capacity) + Capacity = x
  BY CapacityAssumption
<1> QED
  BY <1>1, IndexShift, RingTypes DEF Pos

\* The first lap is at the second message.
LEMMA PosFirstLap ==
  ASSUME NEW x \in 0 .. (Capacity - 1)
  PROVE  Pos(x) = 2
<1>1. /\ x = Capacity * LapOf(x) + IndexOf(x) /\ LapOf(x) \in Int
      /\ IndexOf(x) \in 0 .. (Capacity - 1)
  BY DivMod, CapacityAssumption DEF LapOf, IndexOf
<1>2. LapOf(x) = 0
  BY <1>1, SmallMultiple, CapacityAssumption
<1> QED
  BY <1>2 DEF Pos

-------------------------------------------------------------------------------
(* The memory. *)

\* The words and the accesses of the slots are different locations.
LEMMA DistinctLocations ==
  ASSUME NEW i \in Slots, NEW j \in Slots, NEW r \in Receivers, NEW q \in Receivers
  PROVE  /\ {Claimed, Refs, Consumed(r), State(i), Written(i), ReadBy(i, r)} \subseteq Locations
         /\ Claimed \notin {Refs, Consumed(r), State(i), Written(i), ReadBy(i, r)}
         /\ Refs \notin {Consumed(r), State(i), Written(i), ReadBy(i, r)}
         /\ Consumed(r) \notin {State(i), Written(i), ReadBy(i, q)}
         /\ State(i) \notin {Written(j), ReadBy(j, r)}
         /\ Written(i) # ReadBy(j, r)
         /\ Consumed(r) = Consumed(q) => r = q
         /\ State(i) = State(j) => i = j
         /\ Written(i) = Written(j) => i = j
         /\ ReadBy(i, r) = ReadBy(j, q) => i = j /\ r = q
<1>1. {Claimed, Refs, Consumed(r), State(i), Written(i), ReadBy(i, r)} \subseteq Locations
  BY DEF Locations
<1>2. /\ Claimed \notin {Refs, Consumed(r), State(i), Written(i), ReadBy(i, r)}
      /\ Refs \notin {Consumed(r), State(i), Written(i), ReadBy(i, r)}
      /\ Consumed(r) \notin {State(i), Written(i), ReadBy(i, q)}
      /\ State(i) \notin {Written(j), ReadBy(j, r)}
      /\ Written(i) # ReadBy(j, r)
  BY DEF Claimed, Refs, Consumed, State, Written, ReadBy
<1>3. /\ Consumed(r) = Consumed(q) => r = q
      /\ State(i) = State(j) => i = j
      /\ Written(i) = Written(j) => i = j
      /\ ReadBy(i, r) = ReadBy(j, q) => i = j /\ r = q
  BY DEF Consumed, State, Written, ReadBy
<1> QED
  BY <1>1, <1>2, <1>3

\* What each word says.
LEMMA ValuesTypes ==
  ASSUME NEW i \in Slots, NEW r \in Receivers
  PROVE  /\ \A q \in Int, b \in BOOLEAN : [seq |-> q, down |-> b] \in ValuesOf(Claimed)
         /\ \A v \in ValuesOf(Claimed) : v.seq \in Int /\ v.down \in BOOLEAN
         /\ \A f \in Flags, b \in BOOLEAN : [flag |-> f, down |-> b] \in ValuesOf(State(i))
         /\ \A v \in ValuesOf(State(i)) :
              /\ v.flag \in Flags /\ v.down \in BOOLEAN
              /\ \A b : [v EXCEPT !.down = b] = [flag |-> v.flag, down |-> b]
         /\ \A v \in Int : /\ v \in ValuesOf(Refs) /\ v \in ValuesOf(Consumed(r))
                           /\ v \in ValuesOf(Written(i)) /\ v \in ValuesOf(ReadBy(i, r))
         /\ \A v : v \in ValuesOf(Refs) \/ v \in ValuesOf(Consumed(r))
                   \/ v \in ValuesOf(Written(i)) \/ v \in ValuesOf(ReadBy(i, r)) => v \in Int
<1>1. /\ \A j \in Slots : State(j) \notin {Claimed, Refs, Consumed(r), Written(i), ReadBy(i, r)}
      /\ Claimed \notin {Refs, Consumed(r), State(i), Written(i), ReadBy(i, r)}
  BY DistinctLocations
<1>2. \A l : l \notin {Claimed} \cup {State(j) : j \in Slots} => ValuesOf(l) = Int
  BY DEF ValuesOf
<1>3. /\ \A q \in Int, b \in BOOLEAN : [seq |-> q, down |-> b] \in ValuesOf(Claimed)
      /\ \A v \in ValuesOf(Claimed) : v.seq \in Int /\ v.down \in BOOLEAN
  BY DEF ValuesOf
<1>4. /\ \A f \in Flags, b \in BOOLEAN : [flag |-> f, down |-> b] \in ValuesOf(State(i))
      /\ \A v \in ValuesOf(State(i)) :
           /\ v.flag \in Flags /\ v.down \in BOOLEAN
           /\ \A b : [v EXCEPT !.down = b] = [flag |-> v.flag, down |-> b]
  <2>1. ValuesOf(State(i)) = [flag : Flags, down : BOOLEAN]
    BY <1>1 DEF ValuesOf
  <2>2. ASSUME NEW v \in [flag : Flags, down : BOOLEAN]
        PROVE  /\ v.flag \in Flags /\ v.down \in BOOLEAN
               /\ \A b : [v EXCEPT !.down = b] = [flag |-> v.flag, down |-> b]
    OBVIOUS
  <2>3. \A f \in Flags, b \in BOOLEAN : [flag |-> f, down |-> b] \in [flag : Flags, down : BOOLEAN]
    OBVIOUS
  <2> QED
    BY <2>1, <2>2, <2>3, Zenon
<1> QED
  BY <1>1, <1>2, <1>3, <1>4

\* A joined view is the larger of the two at each location.
LEMMA JoinView ==
  ASSUME NEW v \in Views, NEW w \in Views
  PROVE  /\ Join(v, w) \in Views
         /\ \A l \in Locations :
              /\ Join(v, w)[l] >= v[l] /\ Join(v, w)[l] >= w[l]
              /\ Join(v, w)[l] = v[l] \/ Join(v, w)[l] = w[l]
  BY DEF Join, Views, MaxOf

\* The messages of a history have its type.
LEMMA SeqMember ==
  ASSUME NEW T, NEW q \in Seq(T)
  PROVE  Len(q) \in Nat /\ \A k \in 1 .. Len(q) : q[k] \in T
  OBVIOUS

\* What the memory's types say of one message and one view at a time.
LEMMA MemoryTypes ==
  ASSUME MemoryOK
  PROVE  /\ \A l \in Locations :
              /\ Last(l) \in Nat /\ Last(l) >= 1
              /\ \A k \in 1 .. Last(l) :
                   /\ hist[l][k].val \in ValuesOf(l) /\ hist[l][k].view \in Views
                   /\ hist[l][k] = [val |-> hist[l][k].val, view |-> hist[l][k].view]
                   /\ \A m \in Locations : hist[l][k].view[m] \in 1 .. Last(m)
         /\ \A t \in Threads : /\ cur[t] \in Views /\ acq[t] \in Views /\ rel[t] \in Views
                               /\ \A l \in Locations :
                                    /\ cur[t][l] \in 1 .. Last(l) /\ acq[t][l] \in 1 .. Last(l)
                                    /\ rel[t][l] \in 1 .. cur[t][l]
<1>1. ASSUME NEW l \in Locations
      PROVE  /\ Last(l) \in Nat /\ Last(l) >= 1
             /\ \A k \in 1 .. Last(l) :
                  /\ hist[l][k].val \in ValuesOf(l) /\ hist[l][k].view \in Views
                  /\ hist[l][k] = [val |-> hist[l][k].val, view |-> hist[l][k].view]
                  /\ \A m \in Locations : hist[l][k].view[m] \in 1 .. Last(m)
  <2>1. hist[l] \in Seq([val : ValuesOf(l), view : Views]) /\ Last(l) >= 1
    BY DEF MemoryOK
  <2>2. Last(l) \in Nat /\ \A k \in 1 .. Last(l) : hist[l][k] \in [val : ValuesOf(l), view : Views]
    BY <2>1, SeqMember DEF Last
  <2>3. ASSUME NEW k \in 1 .. Last(l), NEW m \in Locations
        PROVE  hist[l][k].view[m] \in 1 .. Last(m)
    <3>1. hist[l][k].view \in Views /\ hist[l][k].view[m] <= Last(m)
      BY <2>2 DEF MemoryOK
    <3>2. Last(m) \in Nat
      BY DEF MemoryOK, Last
    <3> QED
      BY <3>1, <3>2 DEF Views
  <2> QED
    BY <2>1, <2>2, <2>3
<1>2. ASSUME NEW t \in Threads
      PROVE  /\ cur[t] \in Views /\ acq[t] \in Views /\ rel[t] \in Views
             /\ \A l \in Locations :
                  /\ cur[t][l] \in 1 .. Last(l) /\ acq[t][l] \in 1 .. Last(l)
                  /\ rel[t][l] \in 1 .. cur[t][l]
  <2>1. cur[t] \in Views /\ acq[t] \in Views /\ rel[t] \in Views
    BY DEF MemoryOK
  <2>2. \A l \in Locations : cur[t][l] <= Last(l) /\ acq[t][l] <= Last(l) /\ rel[t][l] <= cur[t][l]
    BY DEF MemoryOK
  <2> QED
    BY <1>1, <2>1, <2>2 DEF Views
<1> QED
  BY <1>1, <1>2

USE DEF Last, Newest

\* The newest message of a location.
LEMMA NewestTypes ==
  ASSUME MemoryOK, NEW l \in Locations
  PROVE  /\ Last(l) \in 1 .. Last(l) /\ Last(l) \in Nat /\ Last(l) + 1 - 1 = Last(l)
         /\ Newest(l).val \in ValuesOf(l) /\ Newest(l).view \in Views
         /\ \A m \in Locations : Newest(l).view[m] \in 1 .. Last(m)
<1>1. Last(l) \in 1 .. Last(l) /\ Last(l) \in Nat /\ Last(l) + 1 - 1 = Last(l)
  BY MemoryTypes
<1>2. /\ hist[l][Last(l)].val \in ValuesOf(l) /\ hist[l][Last(l)].view \in Views
      /\ \A m \in Locations : hist[l][Last(l)].view[m] \in 1 .. Last(m)
  <2>1. \A k \in 1 .. Last(l) : /\ hist[l][k].val \in ValuesOf(l) /\ hist[l][k].view \in Views
                              /\ \A m \in Locations : hist[l][k].view[m] \in 1 .. Last(m)
    BY MemoryTypes
  <2> HIDE DEF Last
  <2> QED
    BY <1>1, <2>1
<1> QED
  BY <1>1, <1>2

\* No step takes back a message, or what a thread has seen.
Grows ==
  \A l \in Locations :
    /\ Last(l) <= Last(l)' /\ \A k \in 1 .. Last(l) : hist'[l][k] = hist[l][k]
    /\ \A t \in Threads : cur[t][l] <= cur'[t][l] /\ acq[t][l] <= acq'[t][l]

\* The memory operations as relations between the old and the new memory.
Appends(h, hn, l, v, w) ==
  /\ Len(hn[l]) = Len(h[l]) + 1
  /\ \A k \in 1 .. Len(h[l]) : hn[l][k] = h[l][k]
  /\ hn[l][Len(h[l]) + 1] = [val |-> v, view |-> w]
  /\ \A m \in Locations \ {l} : hn[m] = h[m]

Stores(h, hn, c, cn, t, l, v, w) ==
  LET k == Len(h[l]) + 1 IN
  /\ hn = [h EXCEPT ![l] = Append(@, [val |-> v, view |-> [w EXCEPT ![l] = k]])]
  /\ cn = [c EXCEPT ![t] = [@ EXCEPT ![l] = k]]

Loads(h, c, cn, a, an, t, l, k, how) ==
  LET seen == [c[t] EXCEPT ![l] = k]
      met == h[l][k].view
      both == Join(a[t], met)
  IN /\ an = [a EXCEPT ![t] = both]
     /\ cn = [c EXCEPT ![t] = IF how = "acquire" THEN Join(seen, met)
                             ELSE IF how = "fenced" THEN Join(seen, both) ELSE seen]

Updates(h, hn, c, cn, a, an, t, l, v, f) ==
  LET k == Len(h[l]) + 1
      met == h[l][k - 1].view
      after == [(IF f THEN Join(c[t], met) ELSE c[t]) EXCEPT ![l] = k]
  IN /\ hn = [h EXCEPT ![l] = Append(@, [val |-> v, view |-> Join(met, after)])]
     /\ cn = [c EXCEPT ![t] = after]
     /\ an = [a EXCEPT ![t] = Join(@, met)]

\* A step that only widens what thread t has seen.
LEMMA ViewStep ==
  ASSUME MemoryOK, NEW t \in Threads, NEW v \in Views, NEW w \in Views,
         \A m \in Locations : v[m] \in cur[t][m] .. Last(m) /\ w[m] \in acq[t][m] .. Last(m),
         cur' = [cur EXCEPT ![t] = v], acq' = [acq EXCEPT ![t] = w], UNCHANGED <<hist, rel>>
  PROVE  MemoryOK' /\ Grows
<1>1. \A l \in Locations : Last(l)' = Last(l) /\ Last(l) \in Nat
  BY MemoryTypes DEF Last
<1>2. cur' \in [Threads -> Views] /\ acq' \in [Threads -> Views] /\ rel' \in [Threads -> Views]
  BY DEF MemoryOK
<1>3. ASSUME NEW u \in Threads, NEW l \in Locations
      PROVE  /\ cur'[u][l] <= Last(l) /\ acq'[u][l] <= Last(l) /\ rel'[u][l] <= cur'[u][l]
             /\ cur[u][l] <= cur'[u][l] /\ acq[u][l] <= acq'[u][l]
  <2>1. /\ cur[u][l] \in 1 .. Last(l) /\ acq[u][l] \in 1 .. Last(l)
        /\ rel[u][l] \in 1 .. cur[u][l]
    BY MemoryTypes
  <2>2. CASE u = t
    <3>1. cur'[u] = v /\ acq'[u] = w /\ rel'[u] = rel[u]
      BY <2>2 DEF MemoryOK
    <3> QED
      BY <2>1, <2>2, <3>1, <1>1
  <2>3. CASE u # t
    <3>1. cur'[u] = cur[u] /\ acq'[u] = acq[u] /\ rel'[u] = rel[u]
      BY <2>3 DEF MemoryOK
    <3> QED
      BY <2>1, <3>1, <1>1
  <2> QED
    BY <2>2, <2>3
<1>4. MemoryOK'
  BY <1>1, <1>2, <1>3 DEF MemoryOK
<1> QED
  BY <1>1, <1>3, <1>4 DEF Grows

\* A step that adds a message and lets its thread see it.
LEMMA AppendStep ==
  ASSUME MemoryOK, NEW t \in Threads, NEW l \in Locations,
         NEW x \in ValuesOf(l), NEW w \in Views, NEW v \in Views, NEW a \in Views,
         \A m \in Locations \ {l} :
           w[m] <= Last(m) /\ v[m] \in cur[t][m] .. Last(m) /\ a[m] \in acq[t][m] .. Last(m),
         w[l] <= Last(l) + 1, v[l] = Last(l) + 1, a[l] \in acq[t][l] .. Last(l),
         hist' = [hist EXCEPT ![l] = Append(@, [val |-> x, view |-> w])],
         cur' = [cur EXCEPT ![t] = v], acq' = [acq EXCEPT ![t] = a], rel' = rel
  PROVE  /\ MemoryOK' /\ Grows /\ Appends(hist, hist', l, x, w)
         /\ cur'[t] = v /\ \A u \in Threads \ {t} : cur'[u] = cur[u]
<1>1. DOMAIN hist' = Locations /\ hist'[l] = Append(hist[l], [val |-> x, view |-> w])
      /\ \A m \in Locations \ {l} : hist'[m] = hist[m]
  BY DEF MemoryOK
<1>2. hist[l] \in Seq([val : ValuesOf(l), view : Views]) /\ Last(l) \in Nat /\ Last(l) >= 1
  BY MemoryTypes DEF MemoryOK
<1>3. [val |-> x, view |-> w] \in [val : ValuesOf(l), view : Views]
  OBVIOUS
<1>4. /\ Last(l)' = Last(l) + 1
      /\ \A k \in 1 .. Last(l) : hist'[l][k] = hist[l][k]
      /\ hist'[l][Last(l) + 1] = [val |-> x, view |-> w]
      /\ hist'[l] \in Seq([val : ValuesOf(l), view : Views])
  BY <1>1, <1>2, <1>3 DEF Last
<1>5. Appends(hist, hist', l, x, w)
  BY <1>1, <1>4 DEF Appends
<1>6. \A m \in Locations : Last(m) \in Nat /\ Last(m)' >= Last(m) /\ (m # l => Last(m)' = Last(m))
  BY <1>1, <1>2, <1>4, MemoryTypes DEF Last
<1>7. cur' \in [Threads -> Views] /\ acq' \in [Threads -> Views] /\ rel' \in [Threads -> Views]
  BY DEF MemoryOK
<1>8. cur'[t] = v /\ \A u \in Threads \ {t} : cur'[u] = cur[u]
  BY DEF MemoryOK
<1>9. ASSUME NEW u \in Threads, NEW m \in Locations
      PROVE  /\ cur'[u][m] <= Last(m)' /\ acq'[u][m] <= Last(m)' /\ rel'[u][m] <= cur'[u][m]
             /\ cur[u][m] <= cur'[u][m] /\ acq[u][m] <= acq'[u][m]
  <2>1. /\ cur[u][m] \in 1 .. Last(m) /\ acq[u][m] \in 1 .. Last(m)
        /\ rel[u][m] \in 1 .. cur[u][m] /\ Last(m) \in Nat /\ Last(m)' \in Nat
    BY MemoryTypes, <1>6, <1>4
  <2>2. CASE u = t
    <3>1. cur'[u] = v /\ acq'[u] = a /\ rel'[u] = rel[u]
      BY <2>2 DEF MemoryOK
    <3>2. CASE m = l
      BY <3>1, <3>2, <2>1, <1>4, <2>2
    <3>3. CASE m # l
      BY <3>1, <3>3, <2>1, <1>6, <2>2
    <3> QED
      BY <3>2, <3>3
  <2>3. CASE u # t
    <3>1. cur'[u] = cur[u] /\ acq'[u] = acq[u] /\ rel'[u] = rel[u]
      BY <2>3 DEF MemoryOK
    <3> QED
      BY <2>1, <3>1, <1>6
  <2> QED
    BY <2>2, <2>3
<1>10. ASSUME NEW n \in Locations
       PROVE  /\ hist'[n] \in Seq([val : ValuesOf(n), view : Views]) /\ Last(n)' >= 1
              /\ \A k \in 1 .. Last(n)', m \in Locations : hist'[n][k].view[m] <= Last(m)'
              /\ \A k \in 1 .. Last(n) : hist'[n][k] = hist[n][k]
  <2>1. \A k \in 1 .. Last(n), m \in Locations : hist[n][k].view[m] \in 1 .. Last(m)
    BY MemoryTypes
  <2>2. \A k \in 1 .. Last(n), m \in Locations : hist[n][k].view[m] <= Last(m)'
    BY <2>1, <1>6
  <2>3. CASE n = l
    <3>1. ASSUME NEW k \in 1 .. Last(n)', NEW m \in Locations
          PROVE  hist'[n][k].view[m] <= Last(m)'
      <4>1. CASE k \in 1 .. Last(n)
        BY <4>1, <2>2, <2>3, <1>4
      <4>2. CASE k = Last(n) + 1
        <5>1. hist'[n][k].view = w
          BY <4>2, <2>3, <1>4
        <5>2. w[m] <= Last(m)'
          BY <1>4, <1>6
        <5> QED
          BY <5>1, <5>2
      <4> QED
        BY <4>1, <4>2, <2>3, <1>4, <1>2
    <3> QED
      BY <3>1, <2>3, <1>4, <1>2
  <2>4. CASE n # l
    <3>1. hist'[n] = hist[n] /\ Last(n)' = Last(n)
      BY <2>4, <1>1, <1>6
    <3>2. hist[n] \in Seq([val : ValuesOf(n), view : Views]) /\ Last(n) >= 1
      BY DEF MemoryOK
    <3> QED
      BY <3>1, <3>2, <2>2
  <2> QED
    BY <2>3, <2>4
<1>11. MemoryOK'
  BY <1>1, <1>7, <1>9, <1>10 DEF MemoryOK
<1> QED
  BY <1>5, <1>6, <1>8, <1>9, <1>10, <1>11 DEF Grows

\* A load, of any ordering: what its thread then knows.
LEMMA LoadStep ==
  ASSUME MemoryOK, NEW t \in Threads, NEW l \in Locations, NEW k \in Readable(t, l), NEW how,
         Loads(hist, cur, cur', acq, acq', t, l, k, how), hist' = hist, rel' = rel
  PROVE  /\ MemoryOK' /\ Grows /\ k \in 1 .. Last(l) /\ cur'[t][l] >= k
         /\ \A m \in Locations :
              /\ acq'[t][m] >= hist[l][k].view[m]
              /\ how = "acquire" => cur'[t][m] >= hist[l][k].view[m]
              /\ how = "fenced" => cur'[t][m] >= acq'[t][m]
         /\ \A u \in Threads \ {t} : cur'[u] = cur[u] /\ acq'[u] = acq[u]
<1> DEFINE seen == [cur[t] EXCEPT ![l] = k]
           met  == hist[l][k].view
           w    == Join(acq[t], met)
<1>1. /\ cur[t] \in Views /\ acq[t] \in Views
      /\ \A m \in Locations : /\ cur[t][m] \in 1 .. Last(m) /\ acq[t][m] \in 1 .. Last(m)
                              /\ Last(m) \in Nat
  BY MemoryTypes
<1>2. k \in 1 .. Last(l) /\ k >= cur[t][l]
  BY <1>1 DEF Readable
<1>3. met \in Views /\ \A m \in Locations : met[m] \in 1 .. Last(m)
  BY <1>2, MemoryTypes
<1>4. /\ seen \in Views /\ seen[l] = k
      /\ \A m \in Locations : seen[m] \in cur[t][m] .. Last(m)
  BY <1>1, <1>2 DEF Views
<1> HIDE DEF seen, met
<1>5. /\ w \in Views
      /\ \A m \in Locations : w[m] \in acq[t][m] .. Last(m) /\ w[m] >= met[m]
  <2>1. /\ w \in Views
        /\ \A m \in Locations : /\ w[m] >= acq[t][m] /\ w[m] >= met[m]
                                /\ w[m] = acq[t][m] \/ w[m] = met[m]
    BY <1>1, <1>3, JoinView
  <2> HIDE DEF w
  <2> QED
    BY <2>1, <1>1, <1>3
<1>6. /\ Join(seen, met) \in Views
      /\ \A m \in Locations : /\ Join(seen, met)[m] \in cur[t][m] .. Last(m)
                              /\ Join(seen, met)[m] >= met[m] /\ Join(seen, met)[m] >= seen[m]
  <2> DEFINE v == Join(seen, met)
  <2>1. /\ v \in Views
        /\ \A m \in Locations : /\ v[m] >= seen[m] /\ v[m] >= met[m]
                                /\ v[m] = seen[m] \/ v[m] = met[m]
    BY <1>3, <1>4, JoinView
  <2> HIDE DEF v
  <2>2. \A m \in Locations : v[m] \in cur[t][m] .. Last(m)
    BY <2>1, <1>1, <1>3, <1>4
  <2> QED
    BY <2>1, <2>2 DEF v
<1>7. /\ Join(seen, w) \in Views
      /\ \A m \in Locations : /\ Join(seen, w)[m] \in cur[t][m] .. Last(m)
                              /\ Join(seen, w)[m] >= w[m] /\ Join(seen, w)[m] >= seen[m]
  <2> HIDE DEF w
  <2> DEFINE v == Join(seen, w)
  <2>1. /\ v \in Views
        /\ \A m \in Locations : /\ v[m] >= seen[m] /\ v[m] >= w[m]
                                /\ v[m] = seen[m] \/ v[m] = w[m]
    BY <1>5, <1>4, JoinView
  <2> HIDE DEF v
  <2>2. \A m \in Locations : v[m] \in cur[t][m] .. Last(m)
    BY <2>1, <1>1, <1>5, <1>4
  <2> QED
    BY <2>1, <2>2 DEF v
<1> DEFINE v == IF how = "acquire" THEN Join(seen, met)
                ELSE IF how = "fenced" THEN Join(seen, w) ELSE seen
<1>8. /\ acq' = [acq EXCEPT ![t] = w] /\ acq'[t] = w
      /\ cur' = [cur EXCEPT ![t] = v] /\ cur'[t] = v
      /\ \A u \in Threads \ {t} : cur'[u] = cur[u] /\ acq'[u] = acq[u]
  BY DEF Loads, MemoryOK, seen, met
<1> HIDE DEF w
<1>9. /\ v \in Views
      /\ \A m \in Locations : /\ v[m] \in cur[t][m] .. Last(m) /\ v[m] >= seen[m]
                              /\ how = "acquire" => v[m] >= met[m]
                              /\ how = "fenced" => v[m] >= w[m]
  <2>1. CASE how = "acquire"
    BY <2>1, <1>6
  <2>2. CASE how = "fenced"
    BY <2>2, <1>7
  <2>3. CASE how # "acquire" /\ how # "fenced"
    BY <2>3, <1>1, <1>4
  <2> QED
    BY <2>1, <2>2, <2>3
<1> HIDE DEF v
<1>10. MemoryOK' /\ Grows
  BY <1>5, <1>8, <1>9, ViewStep
<1>11. /\ cur'[t][l] >= k
       /\ \A m \in Locations :
            /\ acq'[t][m] >= hist[l][k].view[m]
            /\ how = "acquire" => cur'[t][m] >= hist[l][k].view[m]
            /\ how = "fenced" => cur'[t][m] >= acq'[t][m]
  BY <1>4, <1>5, <1>8, <1>9 DEF met
<1> QED
  BY <1>2, <1>8, <1>10, <1>11

\* A store: its message is the newest, and its thread has seen it.
LEMMA StoreStep ==
  ASSUME MemoryOK, NEW t \in Threads, NEW l \in Locations, NEW x \in ValuesOf(l),
         NEW w, w = cur[t] \/ w = rel[t], Stores(hist, hist', cur, cur', t, l, x, w),
         acq' = acq, rel' = rel
  PROVE  /\ MemoryOK' /\ Grows
         /\ Appends(hist, hist', l, x, [w EXCEPT ![l] = Last(l) + 1])
         /\ w \in Views /\ \A m \in Locations : w[m] \in 1 .. Last(m)
         /\ cur'[t] = [cur[t] EXCEPT ![l] = Last(l) + 1]
         /\ \A u \in Threads \ {t} : cur'[u] = cur[u]
<1> DEFINE v == [cur[t] EXCEPT ![l] = Last(l) + 1]
           ww == [w EXCEPT ![l] = Last(l) + 1]
           a == acq[t]
<1>1. /\ cur[t] \in Views /\ rel[t] \in Views /\ acq[t] \in Views
      /\ \A m \in Locations : /\ cur[t][m] \in 1 .. Last(m) /\ acq[t][m] \in 1 .. Last(m)
                              /\ rel[t][m] \in 1 .. cur[t][m] /\ Last(m) \in Nat
  BY MemoryTypes
<1>2. w \in Views /\ \A m \in Locations : w[m] \in 1 .. Last(m)
  BY <1>1
<1>3. /\ v \in Views /\ v[l] = Last(l) + 1
      /\ \A m \in Locations \ {l} : v[m] \in cur[t][m] .. Last(m)
  BY <1>1 DEF Views
<1>4. /\ ww \in Views /\ ww[l] = Last(l) + 1
      /\ \A m \in Locations \ {l} : ww[m] <= Last(m)
  BY <1>1, <1>2 DEF Views
<1>5. /\ hist' = [hist EXCEPT ![l] = Append(@, [val |-> x, view |-> ww])]
      /\ cur' = [cur EXCEPT ![t] = v]
  BY DEF Stores
<1>6. /\ acq' = [acq EXCEPT ![t] = a] /\ rel' = rel
      /\ \A m \in Locations : a[m] \in acq[t][m] .. Last(m)
  BY <1>1 DEF MemoryOK
<1>7. ww[l] <= Last(l) + 1 /\ a[l] \in acq[t][l] .. Last(l) /\ a \in Views
  BY <1>1, <1>4, <1>6
<1> HIDE DEF v, ww, a
<1>8. \A m \in Locations \ {l} :
        ww[m] <= Last(m) /\ v[m] \in cur[t][m] .. Last(m) /\ a[m] \in acq[t][m] .. Last(m)
  BY <1>3, <1>4, <1>6
<1>9. /\ MemoryOK' /\ Grows /\ Appends(hist, hist', l, x, ww)
      /\ cur'[t] = v /\ \A u \in Threads \ {t} : cur'[u] = cur[u]
  <2>1. /\ MemoryOK /\ t \in Threads /\ l \in Locations /\ x \in ValuesOf(l)
        /\ ww \in Views /\ v \in Views /\ a \in Views
    BY <1>3, <1>4, <1>6, <1>7
  <2>2. hist' = [hist EXCEPT ![l] = Append(@, [val |-> x, view |-> ww])]
    BY <1>5
  <2>5. cur' = [cur EXCEPT ![t] = v] /\ rel' = rel /\ acq' = [acq EXCEPT ![t] = a]
    BY <1>5, <1>6
  <2>6. ww[l] <= Last(l) + 1 /\ a[l] \in acq[t][l] .. Last(l) /\ v[l] = Last(l) + 1
    BY <1>3, <1>7
  <2>3. MemoryOK' /\ Grows /\ cur'[t] = v /\ \A u \in Threads \ {t} : cur'[u] = cur[u]
    <3>1. MemoryOK'
      BY <2>1, <2>2, <2>5, <2>6, <1>8, AppendStep
    <3>2. Grows
      BY <2>1, <2>2, <2>5, <2>6, <1>8, AppendStep
    <3>3. cur'[t] = v /\ \A u \in Threads \ {t} : cur'[u] = cur[u]
      BY <1>5 DEF MemoryOK
    <3> QED
      BY <3>1, <3>2, <3>3
  <2>4. Appends(hist, hist', l, x, ww)
    <3>1. hist'[l] = Append(hist[l], [val |-> x, view |-> ww])
      BY <2>2 DEF MemoryOK
    <3>2. \A m \in Locations \ {l} : hist'[m] = hist[m]
      BY <2>2 DEF MemoryOK
    <3> QED
      BY <3>1, <3>2 DEF Appends, MemoryOK
  <2> QED
    BY <2>3, <2>4
<1> QED
  BY <1>2, <1>9 DEF v, ww

\* A read-modify-write: it hands on the release sequence it continues.
LEMMA RmwStep ==
  ASSUME MemoryOK, NEW t \in Threads, NEW l \in Locations, NEW x \in ValuesOf(l),
         NEW f \in BOOLEAN, Updates(hist, hist', cur, cur', acq, acq', t, l, x, f), rel' = rel
  PROVE  /\ MemoryOK' /\ Grows
         /\ \E w \in Views :
              /\ Appends(hist, hist', l, x, w)
              /\ \A m \in Locations : w[m] >= Newest(l).view[m] /\ w[m] >= cur'[t][m]
         /\ f => \A m \in Locations : cur'[t][m] >= Newest(l).view[m]
         /\ \A m \in Locations : cur'[t][m] >= cur[t][m]
         /\ cur'[t][l] = Last(l) + 1
         /\ \A u \in Threads \ {t} : cur'[u] = cur[u]
<1> DEFINE met == Newest(l).view
           j == Join(cur[t], met)
           v == [(IF f THEN j ELSE cur[t]) EXCEPT ![l] = Last(l) + 1]
           w == Join(met, v)
           a == Join(acq[t], met)
<1>1. /\ cur[t] \in Views /\ acq[t] \in Views
      /\ \A m \in Locations : /\ cur[t][m] \in 1 .. Last(m) /\ acq[t][m] \in 1 .. Last(m)
                              /\ Last(m) \in Nat
  BY MemoryTypes
<1>2. met \in Views /\ \A m \in Locations : met[m] \in 1 .. Last(m)
  <2>1. Last(l) \in 1 .. Last(l)
    BY MemoryTypes
  <2> QED
    BY <2>1, MemoryTypes DEF Newest
<1>3. /\ hist' = [hist EXCEPT ![l] = Append(@, [val |-> x, view |-> w])]
      /\ cur' = [cur EXCEPT ![t] = v] /\ acq' = [acq EXCEPT ![t] = a]
  BY MemoryTypes DEF Updates, Newest
<1> HIDE DEF met
<1>4. /\ j \in Views
      /\ \A m \in Locations : /\ j[m] >= cur[t][m] /\ j[m] >= met[m]
                              /\ j[m] = cur[t][m] \/ j[m] = met[m]
  BY <1>1, <1>2, JoinView
<1>5. /\ a \in Views
      /\ \A m \in Locations : /\ a[m] >= acq[t][m] /\ a[m] >= met[m]
                              /\ a[m] = acq[t][m] \/ a[m] = met[m]
  BY <1>1, <1>2, JoinView
<1> HIDE DEF j, a
<1>6. /\ v \in Views /\ v[l] = Last(l) + 1
      /\ \A m \in Locations \ {l} : v[m] \in cur[t][m] .. Last(m)
      /\ f => \A m \in Locations \ {l} : v[m] >= met[m]
  <2> DEFINE b == IF f THEN j ELSE cur[t]
  <2>1. /\ b \in Views
        /\ \A m \in Locations : b[m] \in cur[t][m] .. Last(m) /\ (f => b[m] >= met[m])
    BY <1>1, <1>2, <1>4
  <2>2. v = [b EXCEPT ![l] = Last(l) + 1]
    OBVIOUS
  <2> HIDE DEF b, v
  <2> QED
    BY <1>1, <2>1, <2>2 DEF Views
<1>7. \A m \in Locations : v[m] >= cur[t][m] /\ (f => v[m] >= met[m])
  <2>1. v[l] >= cur[t][l] /\ v[l] >= met[l]
    BY <1>1, <1>2, <1>6
  <2> HIDE DEF v
  <2>2. ASSUME NEW m \in Locations \ {l} PROVE v[m] >= cur[t][m] /\ (f => v[m] >= met[m])
    BY <1>1, <1>6
  <2> QED
    BY <2>1, <2>2
<1> HIDE DEF v
<1>8. /\ w \in Views
      /\ \A m \in Locations : /\ w[m] >= met[m] /\ w[m] >= v[m]
                              /\ w[m] = met[m] \/ w[m] = v[m]
  BY <1>2, <1>6, JoinView
<1> HIDE DEF w
<1>9. \A m \in Locations \ {l} :
        w[m] <= Last(m) /\ v[m] \in cur[t][m] .. Last(m) /\ a[m] \in acq[t][m] .. Last(m)
  BY <1>1, <1>2, <1>5, <1>6, <1>8
<1>10. w[l] <= Last(l) + 1 /\ a[l] \in acq[t][l] .. Last(l)
  BY <1>1, <1>2, <1>5, <1>6, <1>8
<1>11. /\ MemoryOK' /\ Grows /\ Appends(hist, hist', l, x, w)
       /\ cur'[t] = v /\ \A u \in Threads \ {t} : cur'[u] = cur[u]
  BY <1>3, <1>5, <1>6, <1>8, <1>9, <1>10, AppendStep
<1> QED
  BY <1>6, <1>7, <1>8, <1>11 DEF met

-------------------------------------------------------------------------------
(* What each step adds to the memory. *)

\* The successful exchange adds the end of its claim (pub_mul.rs:151-168).
LEMMA CasEffect ==
  ASSUME TypeOK, NEW s \in Senders, CasClaim(s),
         NEW hi, hi = att[s].last + MinOf(AvailableSlots(att[s].last, att[s].gmin), att[s].want)
  PROVE  /\ MemoryOK' /\ Grows
         /\ \E w \in Views : Appends(hist, hist', Claimed, [seq |-> hi, down |-> FALSE], w)
         /\ cur'[s][Claimed] = Last(Claimed) + 1
         /\ \A u \in Threads \ {s} : cur'[u] = cur[u]
<1>1. hi \in Int
  BY CapacityAssumption DEF TypeOK, LocalsOK, MinOf, AvailableSlots
<1>2. [seq |-> hi, down |-> FALSE] \in ValuesOf(Claimed)
  BY <1>1 DEF ValuesOf
<1>3. Claimed \in Locations /\ s \in Threads
  BY DEF Locations, Threads
<1>4. MemoryOK
  BY DEF TypeOK
<1>5. Updates(hist, hist', cur, cur', acq, acq', s, Claimed, [seq |-> hi, down |-> FALSE], TRUE)
  <2>1. Last(Claimed) + 1 - 1 = Last(Claimed)
    BY <1>3, <1>4, MemoryTypes
  <2> QED
    BY <2>1 DEF CasClaim, ReadModifyWrite, Updates, Newest
<1>6. rel' = rel
  BY DEF CasClaim
<1> QED
  BY <1>2, <1>3, <1>4, <1>5, <1>6, RmwStep

\* A write of the next slot of a claim.
LEMMA FillEffect ==
  ASSUME TypeOK, NEW s \in Senders, FillSlot(s),
         NEW x, x = own[s].nxt, NEW l, l = Written(IndexOf(x))
  PROVE  /\ MemoryOK' /\ Grows /\ x \in Int /\ IndexOf(x) \in Slots /\ l \in Locations
         /\ \E w \in Views : Appends(hist, hist', l, x, w)
         /\ cur'[s] = [cur[s] EXCEPT ![l] = Last(l) + 1]
         /\ \A u \in Threads \ {s} : cur'[u] = cur[u]
<1>1. x \in Int /\ s \in Threads /\ MemoryOK
  BY DEF TypeOK, LocalsOK, Threads
<1>2. IndexOf(x) \in Slots
  BY <1>1, RingTypes
<1>3. l \in Locations /\ x \in ValuesOf(l)
  <2>1. 0 \in Receivers
    BY ThreadsAssumption DEF Receivers
  <2> QED
    BY <1>1, <1>2, <2>1, DistinctLocations, ValuesTypes
<1>4. Stores(hist, hist', cur, cur', s, l, x, rel[s]) /\ acq' = acq /\ rel' = rel
  BY DEF FillSlot, Relaxed, Store, Stores
<1>5. /\ MemoryOK' /\ Grows
      /\ Appends(hist, hist', l, x, [rel[s] EXCEPT ![l] = Last(l) + 1])
      /\ rel[s] \in Views
      /\ cur'[s] = [cur[s] EXCEPT ![l] = Last(l) + 1]
      /\ \A u \in Threads \ {s} : cur'[u] = cur[u]
  BY <1>1, <1>3, <1>4, StoreStep
<1>6. [rel[s] EXCEPT ![l] = Last(l) + 1] \in Views
  BY <1>1, <1>3, <1>5, MemoryTypes DEF Views
<1> QED
  BY <1>1, <1>2, <1>3, <1>5, <1>6

\* One relaxed store of publish_range.
LEMMA PublishEffect ==
  ASSUME TypeOK, NEW s \in Senders, PublishSlot(s),
         NEW x, x = own[s].nxt, NEW l, l = State(IndexOf(x))
  PROVE  /\ MemoryOK' /\ Grows /\ x \in Int /\ IndexOf(x) \in Slots /\ l \in Locations
         /\ Appends(hist, hist', l, [flag |-> AvailableFlag(x), down |-> FALSE],
                    [rel[s] EXCEPT ![l] = Last(l) + 1])
         /\ rel[s] \in Views
         /\ cur'[s] = [cur[s] EXCEPT ![l] = Last(l) + 1]
         /\ \A u \in Threads \ {s} : cur'[u] = cur[u]
<1>1. x \in Int /\ s \in Threads /\ MemoryOK
  BY DEF TypeOK, LocalsOK, Threads
<1>2. IndexOf(x) \in Slots
  BY <1>1, RingTypes
<1>3. l \in Locations /\ [flag |-> AvailableFlag(x), down |-> FALSE] \in ValuesOf(l)
  <2>1. 0 \in Receivers
    BY ThreadsAssumption DEF Receivers
  <2> QED
    BY <1>1, <1>2, <2>1, DistinctLocations, ValuesTypes, RingTypes
<1>4. /\ Stores(hist, hist', cur, cur', s, l, [flag |-> AvailableFlag(x), down |-> FALSE], rel[s])
      /\ acq' = acq /\ rel' = rel
  BY DEF PublishSlot, Relaxed, Store, Stores
<1> QED
  BY <1>1, <1>2, <1>3, <1>4, StoreStep

\* A clone of the Arc is dropped (fetch_sub, and the acquire of the last one).
LEMMA DropEffect ==
  ASSUME TypeOK, NEW s \in Senders, DropSender(s),
         NEW n, n = Newest(Refs).val
  PROVE  /\ MemoryOK' /\ Grows /\ n \in Int
         /\ \E w \in Views :
              /\ Appends(hist, hist', Refs, n - 1, w)
              /\ \A m \in Locations : w[m] >= Newest(Refs).view[m] /\ w[m] >= cur'[s][m]
         /\ n = 1 => \A m \in Locations : cur'[s][m] >= Newest(Refs).view[m]
         /\ \A m \in Locations : cur'[s][m] >= cur[s][m]
         /\ \A u \in Threads \ {s} : cur'[u] = cur[u]
<1>1. s \in Threads /\ MemoryOK /\ Refs \in Locations
  BY DEF TypeOK, Threads, Locations
<1>2. /\ Last(Refs) + 1 - 1 = Last(Refs)
      /\ hist[Refs][Last(Refs)].val \in ValuesOf(Refs)
  BY <1>1, NewestTypes
<1>3. n \in Int /\ n - 1 \in ValuesOf(Refs) /\ (n = 1) \in BOOLEAN
  <2>1. 0 \in Receivers /\ 0 \in Slots
    BY ThreadsAssumption, CapacityAssumption DEF Receivers, Slots
  <2>2. n \in Int
    BY <1>2, <2>1, ValuesTypes DEF Newest
  <2> QED
    BY <2>1, <2>2, ValuesTypes
<1>4. Updates(hist, hist', cur, cur', acq, acq', s, Refs, n - 1, n = 1) /\ rel' = rel
  BY <1>2 DEF DropSender, ReadModifyWrite, Updates, Newest
<1> DEFINE f == (n = 1)
<1>5. f \in BOOLEAN /\ Updates(hist, hist', cur, cur', acq, acq', s, Refs, n - 1, f)
  BY <1>3, <1>4
<1> HIDE DEF f
<1>6. MemoryOK' /\ Grows
  BY <1>1, <1>3, <1>4, <1>5, RmwStep
<1>7. \E w \in Views :
        /\ Appends(hist, hist', Refs, n - 1, w)
        /\ \A m \in Locations : w[m] >= Newest(Refs).view[m] /\ w[m] >= cur'[s][m]
  BY <1>1, <1>3, <1>4, <1>5, RmwStep
<1>8. /\ f => \A m \in Locations : cur'[s][m] >= Newest(Refs).view[m]
      /\ \A m \in Locations : cur'[s][m] >= cur[s][m]
      /\ \A u \in Threads \ {s} : cur'[u] = cur[u]
  BY <1>1, <1>3, <1>4, <1>5, RmwStep
<1> QED
  BY <1>3, <1>6, <1>7, <1>8 DEF f

\* mark_shutdown_bit: the slot's last flag with the bit on top.
LEMMA MarkEffect ==
  ASSUME TypeOK, NEW s \in Senders, CloseMark(s),
         NEW x, x = cl[s].pos, NEW l, l = State(IndexOf(x))
  PROVE  /\ MemoryOK' /\ Grows /\ x \in Int /\ IndexOf(x) \in Slots /\ l \in Locations
         /\ \E w \in Views :
              /\ Appends(hist, hist', l, [flag |-> Newest(l).val.flag, down |-> TRUE], w)
              /\ \A m \in Locations : w[m] >= Newest(l).view[m]
         /\ \A u \in Threads \ {s} : cur'[u] = cur[u]
<1>1. x \in Int /\ s \in Threads /\ MemoryOK
  BY DEF TypeOK, LocalsOK, Threads
<1>2. IndexOf(x) \in Slots
  BY <1>1, RingTypes
<1>3. 0 \in Receivers
  BY ThreadsAssumption DEF Receivers
<1>4. l \in Locations
  BY <1>2, <1>3, DistinctLocations
<1>5. Last(l) + 1 - 1 = Last(l) /\ hist[l][Last(l)].val \in ValuesOf(l)
  BY <1>1, <1>4, NewestTypes
<1>6. /\ [Newest(l).val EXCEPT !.down = TRUE] = [flag |-> Newest(l).val.flag, down |-> TRUE]
      /\ [flag |-> Newest(l).val.flag, down |-> TRUE] \in ValuesOf(l)
  BY <1>2, <1>3, <1>5, ValuesTypes DEF Newest
<1> DEFINE v == [Newest(l).val EXCEPT !.down = TRUE]
           f == FALSE
<1>7. Updates(hist, hist', cur, cur', acq, acq', s, l, v, f) /\ rel' = rel
  <2>1. ReadModifyWrite(s, l, v, FALSE) /\ UNCHANGED rel
    BY DEF CloseMark
  <2> HIDE DEF v
  <2> QED
    BY <2>1, <1>5 DEF ReadModifyWrite, Updates
<1>8. v = [flag |-> Newest(l).val.flag, down |-> TRUE] /\ v \in ValuesOf(l) /\ f \in BOOLEAN
  BY <1>6
<1> HIDE DEF v, f
<1>9. MemoryOK' /\ Grows
  BY <1>1, <1>4, <1>7, <1>8, RmwStep
<1>10. \E w \in Views :
         /\ Appends(hist, hist', l, v, w)
         /\ \A m \in Locations : w[m] >= Newest(l).view[m] /\ w[m] >= cur'[s][m]
  <2>1. v \in ValuesOf(l) /\ f \in BOOLEAN
    BY <1>8
  <2> QED
    BY <1>1, <1>4, <1>7, <2>1, RmwStep
<1>11. \A u \in Threads \ {s} : cur'[u] = cur[u]
  <2>1. v \in ValuesOf(l) /\ f \in BOOLEAN
    BY <1>8
  <2> QED
    BY <1>1, <1>4, <1>7, <2>1, RmwStep
<1> QED
  BY <1>1, <1>2, <1>4, <1>8, <1>9, <1>10, <1>11

\* The store that ends close().
LEMMA CloseStoreEffect ==
  ASSUME TypeOK, NEW s \in Senders, CloseStore(s)
  PROVE  /\ MemoryOK' /\ Grows
         /\ \E w \in Views :
              Appends(hist, hist', Claimed, [seq |-> cl[s].val, down |-> cl[s].val # -1], w)
         /\ \A u \in Threads \ {s} : cur'[u] = cur[u]
<1>1. s \in Threads /\ MemoryOK /\ Claimed \in Locations
  BY DEF TypeOK, Threads, Locations
<1>2. [seq |-> cl[s].val, down |-> cl[s].val # -1] \in ValuesOf(Claimed)
  BY DEF ValuesOf, TypeOK, LocalsOK
<1>3. /\ Stores(hist, hist', cur, cur', s, Claimed, [seq |-> cl[s].val, down |-> cl[s].val # -1], cur[s])
      /\ acq' = acq /\ rel' = rel
  BY DEF CloseStore, Releasing, Store, Stores
<1>4. /\ MemoryOK' /\ Grows
      /\ Appends(hist, hist', Claimed, [seq |-> cl[s].val, down |-> cl[s].val # -1],
                 [cur[s] EXCEPT ![Claimed] = Last(Claimed) + 1])
      /\ cur[s] \in Views /\ \A u \in Threads \ {s} : cur'[u] = cur[u]
  BY <1>1, <1>2, <1>3, StoreStep
<1>5. [cur[s] EXCEPT ![Claimed] = Last(Claimed) + 1] \in Views
  BY <1>1, <1>4, MemoryTypes DEF Views
<1> QED
  BY <1>4, <1>5

\* The holder of a guard looks at an item.
LEMMA ReadEffect ==
  ASSUME TypeOK, NEW r \in Receivers, ReadItem(r),
         NEW y, y = rd[r].pos, NEW l, l = ReadBy(IndexOf(y), r)
  PROVE  /\ MemoryOK' /\ Grows /\ y \in Int /\ IndexOf(y) \in Slots /\ l \in Locations
         /\ \E w \in Views : Appends(hist, hist', l, y, w)
         /\ cur'[r] = [cur[r] EXCEPT ![l] = Last(l) + 1]
         /\ \A u \in Threads \ {r} : cur'[u] = cur[u]
<1>1. y \in Int /\ r \in Threads /\ MemoryOK
  BY DEF TypeOK, LocalsOK, Threads
<1>2. IndexOf(y) \in Slots
  BY <1>1, RingTypes
<1>3. l \in Locations /\ y \in ValuesOf(l)
  BY <1>1, <1>2, DistinctLocations, ValuesTypes
<1>4. Stores(hist, hist', cur, cur', r, l, y, rel[r]) /\ acq' = acq /\ rel' = rel
  BY DEF ReadItem, Relaxed, Store, Stores
<1>5. /\ MemoryOK' /\ Grows
      /\ Appends(hist, hist', l, y, [rel[r] EXCEPT ![l] = Last(l) + 1])
      /\ rel[r] \in Views
      /\ cur'[r] = [cur[r] EXCEPT ![l] = Last(l) + 1]
      /\ \A u \in Threads \ {r} : cur'[u] = cur[u]
  BY <1>1, <1>3, <1>4, StoreStep
<1>6. [rel[r] EXCEPT ![l] = Last(l) + 1] \in Views
  BY <1>1, <1>3, <1>5, MemoryTypes DEF Views
<1> QED
  BY <1>1, <1>2, <1>3, <1>5, <1>6

\* A cursor is committed, by the drop of a guard or of the receiver.
LEMMA CommitEffect ==
  ASSUME TypeOK, NEW r \in Receivers, FinishGuard(r) \/ DropReceiver(r),
         NEW c, c = IF rpc[r] = "guard" THEN rd[r].top ELSE SHUTDOWN_OPEN
  PROVE  /\ MemoryOK' /\ Grows /\ c \in Int
         /\ Appends(hist, hist', Consumed(r), c, [cur[r] EXCEPT ![Consumed(r)] = Last(Consumed(r)) + 1])
         /\ cur[r] \in Views
         /\ cur'[r] = [cur[r] EXCEPT ![Consumed(r)] = Last(Consumed(r)) + 1]
         /\ \A u \in Threads \ {r} : cur'[u] = cur[u]
<1>1. c \in Int /\ r \in Threads /\ MemoryOK
  BY OpenAssumption DEF TypeOK, LocalsOK, Threads
<1>2. Consumed(r) \in Locations /\ c \in ValuesOf(Consumed(r))
  <2>1. 0 \in Slots
    BY CapacityAssumption DEF Slots
  <2> QED
    BY <1>1, <2>1, DistinctLocations, ValuesTypes
<1>3. Stores(hist, hist', cur, cur', r, Consumed(r), c, cur[r]) /\ acq' = acq /\ rel' = rel
  <2>1. CASE FinishGuard(r)
    BY <2>1 DEF FinishGuard, CommitReleasing, Store, Stores
  <2>2. CASE DropReceiver(r)
    BY <2>2 DEF DropReceiver, Releasing, Store, Stores
  <2> QED
    BY <2>1, <2>2
<1> QED
  BY <1>1, <1>2, <1>3, StoreStep

\* The loads of the senders: the messages they may return, and what follows.
LEMMA SenderLoads ==
  ASSUME TypeOK, NEW s \in Senders
  PROVE  /\ (\E n \in Limits : StartClaim(s, n)) \/ CasRetry(s) \/ CloseLoad(s) \/ CloseScan(s) =>
              MemoryOK' /\ Grows /\ hist' = hist
         /\ LoadConsumed(s) => \E k \in 1 .. Last(Consumed(att[s].gi)) :
              LET m == hist[Consumed(att[s].gi)][k]
                  gmin == MinOf(att[s].gmin, m.val)
              IN /\ MemoryOK' /\ Grows /\ hist' = hist
                 /\ \A l \in Locations : cur'[s][l] >= m.view[l]
                 /\ \A u \in Threads \ {s} : cur'[u] = cur[u] /\ acq'[u] = acq[u]
                 /\ \/ /\ att[s].gi + 1 < NumReceivers /\ UNCHANGED pc
                       /\ att' = [att EXCEPT ![s].gi = att[s].gi + 1, ![s].gmin = gmin]
                    \/ /\ att[s].gi + 1 = NumReceivers /\ HasRoom(att[s].last, gmin)
                       /\ att' = [att EXCEPT ![s].gmin = gmin]
                       /\ pc' = [pc EXCEPT ![s] = "cas"]
                    \/ /\ att' = [att EXCEPT ![s] = NoAttempt]
                       /\ pc' = [pc EXCEPT ![s] = "idle"]
<1>1. MemoryOK /\ s \in Threads /\ att[s].gi \in Receivers
  BY DEF TypeOK, LocalsOK, Threads
<1>2. /\ Claimed \in Locations /\ \A r \in Receivers : Consumed(r) \in Locations
      /\ \A x \in Int : State(IndexOf(x)) \in Locations
  BY RingTypes DEF Locations
<1>3. ASSUME NEW n \in Limits, StartClaim(s, n) PROVE MemoryOK' /\ Grows /\ hist' = hist
  <2>1. PICK k \in Readable(s, Claimed) :
          RelaxedLoad(s, Claimed, k) /\ UNCHANGED <<hist, rel>>
    BY <1>3 DEF StartClaim
  <2>2. Loads(hist, cur, cur', acq, acq', s, Claimed, k, "relaxed") /\ hist' = hist /\ rel' = rel
    BY <2>1 DEF RelaxedLoad, Loads, Seen
  <2> QED
    BY <1>1, <1>2, <2>2, LoadStep
<1>4. ASSUME CasRetry(s) PROVE MemoryOK' /\ Grows /\ hist' = hist
  <2>1. PICK k \in Readable(s, Claimed) :
          RelaxedLoad(s, Claimed, k) /\ UNCHANGED <<hist, rel>>
    BY <1>4 DEF CasRetry
  <2>2. Loads(hist, cur, cur', acq, acq', s, Claimed, k, "relaxed") /\ hist' = hist /\ rel' = rel
    BY <2>1 DEF RelaxedLoad, Loads, Seen
  <2> QED
    BY <1>1, <1>2, <2>2, LoadStep
<1>5. ASSUME CloseLoad(s) PROVE MemoryOK' /\ Grows /\ hist' = hist
  <2>1. PICK k \in Readable(s, Claimed) :
          AcquireLoad(s, Claimed, k) /\ UNCHANGED <<hist, rel>>
    BY <1>5 DEF CloseLoad
  <2>2. Loads(hist, cur, cur', acq, acq', s, Claimed, k, "acquire") /\ hist' = hist /\ rel' = rel
    BY <2>1 DEF AcquireLoad, Loads, Seen
  <2> QED
    BY <1>1, <1>2, <2>2, LoadStep
<1>6. ASSUME CloseScan(s) PROVE MemoryOK' /\ Grows /\ hist' = hist
  <2> DEFINE l == State(IndexOf(cl[s].pos))
  <2>1. PICK k \in Readable(s, l) : \E f \in BOOLEAN :
          ScanLoad(s, l, k, f) /\ UNCHANGED <<hist, rel>>
    BY <1>6 DEF CloseScan
  <2>2. l \in Locations
    BY <1>2 DEF TypeOK, LocalsOK
  <2> HIDE DEF l
  <2>3. PICK f \in BOOLEAN : ScanLoad(s, l, k, f) /\ UNCHANGED <<hist, rel>>
    BY <2>1
  <2>4. /\ Loads(hist, cur, cur', acq, acq', s, l, k, IF f THEN "fenced" ELSE "relaxed")
        /\ hist' = hist /\ rel' = rel
    <3>1. CASE f
      BY <2>3, <3>1 DEF ScanLoad, Loads, Seen
    <3>2. CASE ~f
      BY <2>3, <3>2 DEF ScanLoad, Loads, Seen
    <3> QED
      BY <3>1, <3>2
  <2> QED
    BY <1>1, <2>2, <2>4, LoadStep
<1>7. ASSUME LoadConsumed(s)
      PROVE  \E k \in 1 .. Last(Consumed(att[s].gi)) :
               LET m == hist[Consumed(att[s].gi)][k]
                   gmin == MinOf(att[s].gmin, m.val)
               IN /\ MemoryOK' /\ Grows /\ hist' = hist
                  /\ \A l \in Locations : cur'[s][l] >= m.view[l]
                  /\ \A u \in Threads \ {s} : cur'[u] = cur[u] /\ acq'[u] = acq[u]
                  /\ \/ /\ att[s].gi + 1 < NumReceivers /\ UNCHANGED pc
                        /\ att' = [att EXCEPT ![s].gi = att[s].gi + 1, ![s].gmin = gmin]
                     \/ /\ att[s].gi + 1 = NumReceivers /\ HasRoom(att[s].last, gmin)
                        /\ att' = [att EXCEPT ![s].gmin = gmin]
                        /\ pc' = [pc EXCEPT ![s] = "cas"]
                     \/ /\ att' = [att EXCEPT ![s] = NoAttempt]
                        /\ pc' = [pc EXCEPT ![s] = "idle"]
  <2> DEFINE l == Consumed(att[s].gi)
             gmin(k) == MinOf(att[s].gmin, hist[l][k].val)
  <2>1. PICK k \in Readable(s, l) :
          /\ GateLoad(s, l, k) /\ UNCHANGED <<hist, rel>>
          /\ \/ /\ att[s].gi + 1 < NumReceivers /\ UNCHANGED pc
                /\ att' = [att EXCEPT ![s].gi = att[s].gi + 1, ![s].gmin = gmin(k)]
             \/ /\ att[s].gi + 1 = NumReceivers /\ HasRoom(att[s].last, gmin(k))
                /\ att' = [att EXCEPT ![s].gmin = gmin(k)]
                /\ pc' = [pc EXCEPT ![s] = "cas"]
             \/ /\ att' = [att EXCEPT ![s] = NoAttempt]
                /\ pc' = [pc EXCEPT ![s] = "idle"]
    BY <1>7 DEF LoadConsumed, Go
  <2>2. Loads(hist, cur, cur', acq, acq', s, l, k, "acquire") /\ hist' = hist /\ rel' = rel
    BY <2>1 DEF GateLoad, AcquireLoad, Loads, Seen
  <2>3. l \in Locations
    BY <1>1, <1>2
  <2>4. /\ MemoryOK' /\ Grows /\ k \in 1 .. Last(l)
        /\ \A m \in Locations : cur'[s][m] >= hist[l][k].view[m]
        /\ \A u \in Threads \ {s} : cur'[u] = cur[u] /\ acq'[u] = acq[u]
    <3> HIDE DEF l
    <3> QED
      BY <1>1, <2>2, <2>3, LoadStep
  <2> QED
    BY <2>1, <2>2, <2>4
<1> QED
  BY <1>3, <1>4, <1>5, <1>6, <1>7

\* The first load of a receive, of its own cursor.
LEMMA StartRecvLoads ==
  ASSUME TypeOK, NEW r \in Receivers, NEW n \in Limits, StartRecv(r, n)
  PROVE  MemoryOK' /\ Grows /\ hist' = hist
<1> DEFINE l == Consumed(r)
<1>1. MemoryOK /\ r \in Threads /\ l \in Locations
  BY DEF TypeOK, Threads, Locations
<1> HIDE DEF l
<1> DEFINE k == Last(l)
<1>2. k \in Readable(r, l)
  BY <1>1, MemoryTypes DEF Readable
<1>3. Loads(hist, cur, cur', acq, acq', r, l, k, "acquire") /\ hist' = hist /\ rel' = rel
  BY DEF StartRecv, AcquireLoad, Loads, Seen, l
<1> HIDE DEF k
<1> QED
  BY <1>1, <1>2, <1>3, LoadStep

\* One load of a scan, of the k-th message of its slot: what the answer rests on.
Scans(r, k) ==
  LET d == rd[r]
      l == State(IndexOf(d.pos))
      m == hist[l][k]
      ready == m.val.flag = AvailableFlag(d.pos)
      more == ready /\ d.pos < d.top
      last == IF ready THEN d.pos ELSE d.pos - 1
      sd == d.sd \/ m.val.down
      outcome == ScanOutcome(d.base, last, sd)
  IN /\ MemoryOK' /\ Grows /\ hist' = hist /\ l \in Locations /\ k \in 1 .. Last(l) /\ k >= cur[r][l]
     /\ cur'[r][l] >= k
     /\ \A n \in Locations : acq'[r][n] >= m.view[n]
     /\ ~more /\ last > d.base => \A n \in Locations : cur'[r][n] >= acq'[r][n]
     /\ \A u \in Threads \ {r} : cur'[u] = cur[u] /\ acq'[u] = acq[u]
     /\ \/ /\ more /\ UNCHANGED <<rpc, told>>
           /\ rd' = [rd EXCEPT ![r].pos = d.pos + 1, ![r].sd = sd]
        \/ /\ ~more /\ told' = [told EXCEPT ![r] = outcome]
           /\ IF outcome = "Ok"
                THEN /\ rpc' = [rpc EXCEPT ![r] = "guard"]
                     /\ rd' = [rd EXCEPT ![r] = [base |-> d.base, top |-> last,
                                                 pos |-> d.base + 1, sd |-> FALSE]]
                ELSE /\ rpc' = [rpc EXCEPT ![r] = "idle"]
                     /\ rd' = [rd EXCEPT ![r] = NoScan]

\* Every load of a scan is of some message.
LEMMA ScanEffect ==
  ASSUME TypeOK, NEW r \in Receivers, ScanSlot(r)
  PROVE  \E k : Scans(r, k)
<1> DEFINE d == rd[r]
           l == State(IndexOf(d.pos))
<1>0. d = rd[r] /\ l = State(IndexOf(rd[r].pos))
  OBVIOUS
<1> DEFINE m(k) == hist[l][k]
           ready(k) == m(k).val.flag = AvailableFlag(d.pos)
           more(k) == ready(k) /\ d.pos < d.top
           last(k) == IF ready(k) THEN d.pos ELSE d.pos - 1
           sd(k) == d.sd \/ m(k).val.down
           outcome(k) == ScanOutcome(d.base, last(k), sd(k))
           fenced(k) == ~more(k) /\ ScanFence(d.base, last(k), d.top, sd(k))
<1>1. MemoryOK /\ r \in Threads
  BY DEF TypeOK, Threads
<1>2. l \in Locations
  BY RingTypes DEF TypeOK, LocalsOK, Locations
<1> HIDE DEF d, l
<1>3. PICK k \in Readable(r, l) :
        /\ ScanLoad(r, l, k, fenced(k)) /\ UNCHANGED <<hist, rel>>
        /\ \/ /\ more(k) /\ UNCHANGED <<rpc, told>>
              /\ rd' = [rd EXCEPT ![r].pos = d.pos + 1, ![r].sd = sd(k)]
           \/ /\ ~more(k) /\ told' = [told EXCEPT ![r] = outcome(k)]
              /\ IF outcome(k) = "Ok"
                   THEN /\ rpc' = [rpc EXCEPT ![r] = "guard"]
                        /\ rd' = [rd EXCEPT ![r] = [base |-> d.base, top |-> last(k),
                                                    pos |-> d.base + 1, sd |-> FALSE]]
                   ELSE /\ rpc' = [rpc EXCEPT ![r] = "idle"]
                        /\ rd' = [rd EXCEPT ![r] = NoScan]
  BY DEF ScanSlot, d, l
<1> DEFINE how == IF fenced(k) THEN "fenced" ELSE "relaxed"
<1>4. Loads(hist, cur, cur', acq, acq', r, l, k, how) /\ hist' = hist /\ rel' = rel
  <2>1. CASE fenced(k)
    <3>1. ScanLoad(r, l, k, TRUE)
      BY <1>3, <2>1
    <3> HIDE DEF fenced
    <3> QED
      BY <3>1, <2>1, <1>3 DEF ScanLoad, Loads, Seen
  <2>2. CASE ~fenced(k)
    <3>1. ScanLoad(r, l, k, FALSE)
      BY <1>3, <2>2
    <3> HIDE DEF fenced
    <3> QED
      BY <3>1, <2>2, <1>3 DEF ScanLoad, Loads, Seen
  <2> QED
    BY <2>1, <2>2
<1>5. ~more(k) /\ last(k) > d.base => how = "fenced"
  BY DEF ScanFence
<1> HIDE DEF how
<1>6. /\ MemoryOK' /\ Grows /\ k \in 1 .. Last(l) /\ cur'[r][l] >= k
      /\ \A n \in Locations : /\ acq'[r][n] >= m(k).view[n]
                              /\ how = "fenced" => cur'[r][n] >= acq'[r][n]
      /\ \A u \in Threads \ {r} : cur'[u] = cur[u] /\ acq'[u] = acq[u]
  BY <1>1, <1>2, <1>4, LoadStep
<1>7. k >= cur[r][l]
  <2>1. cur[r][l] \in 1 .. Last(l) /\ Last(l) \in Nat
    BY <1>1, <1>2, MemoryTypes
  <2>2. k \in cur[r][l] .. Last(l)
    BY <1>3 DEF Readable
  <2> QED
    BY <2>1, <2>2
<1>8. Scans(r, k)
  BY <1>2, <1>3, <1>4, <1>5, <1>6, <1>7 DEF Scans, d, l
<1> QED
  BY <1>8

\* Every step keeps the memory's types, and takes nothing back.
LEMMA MemoryKept ==
  ASSUME TypeOK, [Next]_vars
  PROVE  MemoryOK' /\ Grows
<1>0. MemoryOK
  BY DEF TypeOK
<1>1. ASSUME UNCHANGED <<hist, cur, acq, rel>> PROVE MemoryOK' /\ Grows
  <2>1. \A l \in Locations : Last(l) \in Nat
    BY <1>0, MemoryTypes
  <2>2. \A t \in Threads, l \in Locations : cur[t][l] \in Nat /\ acq[t][l] \in Nat
    BY <1>0, <2>1, MemoryTypes
  <2>3. MemoryOK'
    BY <1>0, <1>1 DEF MemoryOK
  <2> QED
    BY <1>1, <2>1, <2>2, <2>3 DEF Grows
<1>2. ASSUME NEW s \in Senders, StartPublish(s) PROVE MemoryOK' /\ Grows
  <2>1. UNCHANGED <<hist, cur, acq>> /\ rel' = [rel EXCEPT ![s] = cur[s]]
    BY <1>2 DEF StartPublish, ReleaseFence
  <2>2. s \in Threads
    BY DEF Threads
  <2>3. ASSUME NEW t \in Threads
        PROVE  rel'[t] \in Views /\ \A l \in Locations : rel'[t][l] <= cur[t][l]
    <3>0. /\ cur[t] \in Views /\ rel[t] \in Views
          /\ \A l \in Locations : cur[t][l] \in 1 .. Last(l) /\ rel[t][l] \in 1 .. cur[t][l]
      BY <1>0, MemoryTypes
    <3>1. /\ cur[t] \in Views /\ rel[t] \in Views
          /\ \A l \in Locations : rel[t][l] <= cur[t][l] /\ cur[t][l] <= cur[t][l]
      BY <3>0
    <3>2. rel'[t] = IF t = s THEN cur[s] ELSE rel[t]
      BY <2>1, <2>2, <1>0 DEF MemoryOK
    <3> QED
      BY <3>1, <3>2
  <2>4. rel' \in [Threads -> Views]
    BY <2>1, <2>2, <1>0 DEF MemoryOK
  <2>5. MemoryOK'
    BY <2>1, <2>3, <2>4, <1>0 DEF MemoryOK
  <2>6. Grows
    <3>1. \A l \in Locations : Last(l) \in Nat
      BY <1>0, MemoryTypes
    <3>2. \A t \in Threads, l \in Locations : cur[t][l] \in Nat /\ acq[t][l] \in Nat
      BY <1>0, <3>1, MemoryTypes
    <3> QED
      BY <2>1, <3>1, <3>2 DEF Grows
  <2> QED
    BY <2>5, <2>6
<1>3. ASSUME NEW s \in Senders, SenderStep(s) PROVE MemoryOK' /\ Grows
  <2>1. CASE (\E n \in Limits : StartClaim(s, n)) \/ CasRetry(s) \/ CloseLoad(s) \/ CloseScan(s)
    BY <2>1, SenderLoads
  <2>2. CASE LoadConsumed(s)
    BY <2>2, SenderLoads
  <2>3. CASE CasClaim(s)
    BY <2>3, CasEffect
  <2>4. CASE FillSlot(s)
    BY <2>4, FillEffect
  <2>5. CASE StartPublish(s)
    BY <2>5, <1>2
  <2>6. CASE PublishSlot(s)
    BY <2>6, PublishEffect
  <2>7. CASE DropSender(s)
    BY <2>7, DropEffect
  <2>8. CASE CloseMark(s)
    BY <2>8, MarkEffect
  <2>9. CASE CloseStore(s)
    BY <2>9, CloseStoreEffect
  <2> QED
    BY <1>3, <2>1, <2>2, <2>3, <2>4, <2>5, <2>6, <2>7, <2>8, <2>9 DEF SenderStep
<1>4. ASSUME NEW r \in Receivers, ReceiverStep(r) PROVE MemoryOK' /\ Grows
  <2>1. CASE \E n \in Limits : StartRecv(r, n)
    BY <2>1, StartRecvLoads
  <2>2. CASE ScanSlot(r)
    <3>1. PICK k : Scans(r, k)
      BY <2>2, ScanEffect
    <3> QED
      BY <3>1 DEF Scans
  <2>3. CASE ReadItem(r)
    BY <2>3, ReadEffect
  <2>4. CASE FinishGuard(r) \/ DropReceiver(r)
    BY <2>4, CommitEffect
  <2> QED
    BY <1>4, <2>1, <2>2, <2>3, <2>4 DEF ReceiverStep
<1> QED
  BY <1>1, <1>3, <1>4 DEF Next, Terminated, vars, memVars

-------------------------------------------------------------------------------
(* The locals of the threads. *)

\* The values of the words that the locals take up.
LEMMA WordTypes ==
  ASSUME MemoryOK
  PROVE  /\ \A k \in 1 .. Last(Claimed) : hist[Claimed][k].val.seq \in Int
         /\ Highest \in Int
         /\ \A r \in Receivers : /\ \A k \in 1 .. Last(Consumed(r)) : hist[Consumed(r)][k].val \in Int
                                 /\ Cursor(r) \in Int
         /\ Newest(Refs).val \in Int
         /\ \A i \in Slots : \A k \in 1 .. Last(Written(i)) : hist[Written(i)][k].val \in Int
         /\ \A i \in Slots, r \in Receivers :
              \A k \in 1 .. Last(ReadBy(i, r)) : hist[ReadBy(i, r)][k].val \in Int
<1>0. 0 \in Slots /\ 0 \in Receivers
  BY CapacityAssumption, ThreadsAssumption DEF Slots, Receivers
<1>1. /\ Claimed \in Locations /\ Refs \in Locations
      /\ \A r \in Receivers : Consumed(r) \in Locations
      /\ \A i \in Slots : Written(i) \in Locations
      /\ \A i \in Slots, r \in Receivers : ReadBy(i, r) \in Locations
  BY DEF Locations
<1>2. \A l \in Locations : /\ Last(l) \in 1 .. Last(l)
                           /\ \A k \in 1 .. Last(l) : hist[l][k].val \in ValuesOf(l)
  BY MemoryTypes, NewestTypes
<1>3. /\ \A v \in ValuesOf(Claimed) : v.seq \in Int
      /\ \A v \in ValuesOf(Refs) : v \in Int
      /\ \A r \in Receivers : \A v \in ValuesOf(Consumed(r)) : v \in Int
      /\ \A i \in Slots : \A v \in ValuesOf(Written(i)) : v \in Int
      /\ \A i \in Slots, r \in Receivers : \A v \in ValuesOf(ReadBy(i, r)) : v \in Int
  BY <1>0, ValuesTypes
<1>4. /\ \A k \in 1 .. Last(Claimed) : hist[Claimed][k].val.seq \in Int
      /\ Highest \in Int
  BY <1>1, <1>2, <1>3 DEF Highest
<1>5. \A r \in Receivers : /\ \A k \in 1 .. Last(Consumed(r)) : hist[Consumed(r)][k].val \in Int
                           /\ Cursor(r) \in Int
  BY <1>1, <1>2, <1>3 DEF Cursor
<1>6. Newest(Refs).val \in Int
  BY <1>1, <1>2, <1>3
<1>7. /\ \A i \in Slots : \A k \in 1 .. Last(Written(i)) : hist[Written(i)][k].val \in Int
      /\ \A i \in Slots, r \in Receivers :
           \A k \in 1 .. Last(ReadBy(i, r)) : hist[ReadBy(i, r)][k].val \in Int
  BY <1>1, <1>2, <1>3
<1> QED
  BY <1>4, <1>5, <1>6, <1>7

AttemptType == [want : Nat, last : Int, gi : Receivers, gmin : Int]

\* Every step keeps the types of the locals.
LEMMA LocalsKept ==
  ASSUME TypeOK, CursorSound, ReaderSound, [Next]_vars
  PROVE  LocalsOK'
<1>1. MemoryOK /\ LocalsOK
  BY DEF TypeOK
<1> USE DEF LocalsOK, Go, SenderPlaces
<1>2. /\ 0 \in Receivers /\ \A n \in Limits : n \in Nat
      /\ \A n \in Nat, q \in Int : Attempt(n, q) \in AttemptType
      /\ NoAttempt \in AttemptType
  <2>1. 0 \in Receivers /\ \A n \in Limits : n \in Nat
    BY ThreadsAssumption, CallsAssumption, CapacityAssumption DEF Receivers
  <2> QED
    BY <2>1, OpenAssumption DEF Attempt, NoAttempt, AttemptType
<1>3. \A s \in Senders : \A k \in Readable(s, Claimed) : hist[Claimed][k].val.seq \in Int
  <2>1. ASSUME NEW s \in Senders, NEW k \in Readable(s, Claimed)
        PROVE  hist[Claimed][k].val.seq \in Int
    <3>1. cur[s][Claimed] \in 1 .. Last(Claimed) /\ Last(Claimed) \in Nat
      BY <1>1, MemoryTypes DEF Threads, Locations
    <3>2. k \in 1 .. Last(Claimed)
      BY <3>1 DEF Readable
    <3> QED
      BY <1>1, <3>2, WordTypes
  <2> QED
    BY <2>1
<1>4. ASSUME NEW s \in Senders, NEW n \in Limits, StartClaim(s, n) PROVE LocalsOK'
  <2>1. PICK k \in Readable(s, Claimed) :
          att' = [att EXCEPT ![s] = Attempt(n, hist[Claimed][k].val.seq)]
    BY <1>4 DEF StartClaim
  <2>2. att' \in [Senders -> AttemptType]
    BY <1>1, <1>2, <1>3, <2>1 DEF AttemptType
  <2> QED
    BY <1>1, <1>4, <2>2 DEF StartClaim, AttemptType, readerVars
<1>5. ASSUME NEW s \in Senders, LoadConsumed(s) PROVE LocalsOK'
  <2>1. PICK k \in 1 .. Last(Consumed(att[s].gi)) :
          LET gmin == MinOf(att[s].gmin, hist[Consumed(att[s].gi)][k].val) IN
          \/ /\ att[s].gi + 1 < NumReceivers /\ UNCHANGED pc
             /\ att' = [att EXCEPT ![s].gi = att[s].gi + 1, ![s].gmin = gmin]
          \/ /\ att' = [att EXCEPT ![s].gmin = gmin]
             /\ pc' = [pc EXCEPT ![s] = "cas"]
          \/ /\ att' = [att EXCEPT ![s] = NoAttempt]
             /\ pc' = [pc EXCEPT ![s] = "idle"]
    BY <1>5, SenderLoads
  <2> DEFINE gmin == MinOf(att[s].gmin, hist[Consumed(att[s].gi)][k].val)
  <2>2. gmin \in Int
    BY <1>1, WordTypes DEF MinOf
  <2> HIDE DEF gmin
  <2>3. \/ /\ att[s].gi + 1 < NumReceivers /\ UNCHANGED pc
           /\ att' = [att EXCEPT ![s].gi = att[s].gi + 1, ![s].gmin = gmin]
        \/ /\ att' = [att EXCEPT ![s].gmin = gmin]
           /\ pc' = [pc EXCEPT ![s] = "cas"]
        \/ /\ att' = [att EXCEPT ![s] = NoAttempt]
           /\ pc' = [pc EXCEPT ![s] = "idle"]
    BY <2>1 DEF gmin
  <2>4. att' \in [Senders -> AttemptType] /\ pc' \in [Senders -> SenderPlaces]
    <3>1. att \in [Senders -> AttemptType] /\ att[s].gi \in Receivers /\ pc \in [Senders -> SenderPlaces]
      BY <1>1 DEF AttemptType
    <3>2. att[s].gi + 1 < NumReceivers => att[s].gi + 1 \in Receivers
      BY <3>1, ThreadsAssumption DEF Receivers
    <3>3. CASE att' = [att EXCEPT ![s].gi = att[s].gi + 1, ![s].gmin = gmin] /\ UNCHANGED pc
               /\ att[s].gi + 1 < NumReceivers
      BY <3>1, <2>2, <3>2, <3>3 DEF AttemptType
    <3>4. CASE att' = [att EXCEPT ![s].gmin = gmin] /\ pc' = [pc EXCEPT ![s] = "cas"]
      BY <3>1, <2>2, <3>4 DEF AttemptType
    <3>5. CASE att' = [att EXCEPT ![s] = NoAttempt] /\ pc' = [pc EXCEPT ![s] = "idle"]
      BY <3>1, <1>2, <3>5
    <3> QED
      BY <2>3, <3>3, <3>4, <3>5
  <2> QED
    BY <1>1, <1>5, <2>4 DEF LoadConsumed, AttemptType, readerVars
<1>6. ASSUME NEW s \in Senders, CasClaim(s) PROVE LocalsOK'
  <2> DEFINE hi == att[s].last + MinOf(AvailableSlots(att[s].last, att[s].gmin), att[s].want)
  <2>1. hi \in Int /\ att[s].last + 1 \in Int
    BY <1>1, CapacityAssumption DEF MinOf, AvailableSlots
  <2>2. own' = [own EXCEPT ![s] = [lo |-> att[s].last + 1, hi |-> hi, nxt |-> att[s].last + 1]]
    BY <1>6 DEF CasClaim
  <2> HIDE DEF hi
  <2>3. own' \in [Senders -> [lo : Int, hi : Int, nxt : Int]]
    BY <1>1, <2>1, <2>2
  <2> QED
    BY <1>1, <1>6, <1>2, <2>3 DEF CasClaim, AttemptType, readerVars
<1>7. ASSUME NEW s \in Senders, CasRetry(s) PROVE LocalsOK'
  <2>1. PICK k \in Readable(s, Claimed) :
          \/ att' = [att EXCEPT ![s] = NoAttempt] /\ Go(s, "idle")
          \/ att' = [att EXCEPT ![s] = Attempt(att[s].want, hist[Claimed][k].val.seq)] /\ Go(s, "gate")
    BY <1>7 DEF CasRetry
  <2>2. att' \in [Senders -> AttemptType]
    <3>1. att \in [Senders -> AttemptType] /\ att[s].want \in Nat
      BY <1>1 DEF AttemptType
    <3>2. hist[Claimed][k].val.seq \in Int
      BY <1>3
    <3>3. Attempt(att[s].want, hist[Claimed][k].val.seq) \in AttemptType
      BY <1>2, <3>1, <3>2
    <3> QED
      BY <1>2, <2>1, <3>1, <3>3
  <2> QED
    BY <1>1, <1>7, <2>1, <2>2 DEF CasRetry, AttemptType, readerVars
<1>8. ASSUME NEW s \in Senders, FillSlot(s) \/ StartPublish(s) \/ PublishSlot(s) PROVE LocalsOK'
  <2>1. own \in [Senders -> [lo : Int, hi : Int, nxt : Int]] /\ own[s].nxt + 1 \in Int
    BY <1>1
  <2>2. CASE FillSlot(s)
    <3>1. own' = [own EXCEPT ![s].nxt = own[s].nxt + 1] /\ UNCHANGED <<pc, att, cl, rpc, rd, told>>
      BY <2>2 DEF FillSlot, readerVars
    <3>2. own' \in [Senders -> [lo : Int, hi : Int, nxt : Int]]
      BY <2>1, <3>1
    <3> QED
      BY <1>1, <3>1, <3>2
  <2>3. CASE StartPublish(s)
    BY <1>1, <2>3 DEF StartPublish, readerVars
  <2>4. CASE PublishSlot(s)
    <3>1. /\ \/ own' = [own EXCEPT ![s].nxt = own[s].nxt + 1] /\ UNCHANGED pc
             \/ own' = [own EXCEPT ![s] = NoClaim] /\ pc' = [pc EXCEPT ![s] = "idle"]
          /\ UNCHANGED <<att, cl, rpc, rd, told>>
      BY <2>4 DEF PublishSlot, readerVars
    <3>2. NoClaim \in [lo : Int, hi : Int, nxt : Int]
      BY DEF NoClaim
    <3>3. own' \in [Senders -> [lo : Int, hi : Int, nxt : Int]]
      BY <2>1, <3>1, <3>2
    <3>4. pc' \in [Senders -> SenderPlaces]
      BY <1>1, <3>1
    <3> QED
      BY <1>1, <3>1, <3>3, <3>4
  <2> QED
    BY <1>8, <2>2, <2>3, <2>4
<1>9. ASSUME NEW s \in Senders, DropSender(s) PROVE LocalsOK'
  BY <1>1, <1>9 DEF DropSender, readerVars
<1>10. ASSUME NEW s \in Senders, CloseLoad(s) PROVE LocalsOK'
  <2>1. PICK k \in Readable(s, Claimed) :
          LET val == hist[Claimed][k].val.seq IN
          /\ cl' = [cl EXCEPT ![s] = [val |-> val, pos |-> IF val < 0 THEN 0 ELSE WindowStart(val)]]
          /\ pc' = [pc EXCEPT ![s] = IF val < 0 THEN "cmark" ELSE "cscan"]
    BY <1>10 DEF CloseLoad
  <2> DEFINE val == hist[Claimed][k].val.seq
             pos == IF val < 0 THEN 0 ELSE WindowStart(val)
  <2>2. val \in Int
    BY <1>3
  <2>3. pos \in Nat
    BY <2>2, CapacityAssumption DEF WindowStart, MaxOf
  <2>4. cl' = [cl EXCEPT ![s] = [val |-> val, pos |-> pos]]
    BY <2>1
  <2> HIDE DEF val, pos
  <2>5. cl' \in [Senders -> [val : Int, pos : Nat]]
    BY <1>1, <2>2, <2>3, <2>4
  <2> QED
    BY <1>1, <1>10, <2>1, <2>5 DEF CloseLoad, readerVars
<1>11. ASSUME NEW s \in Senders, CloseScan(s) \/ CloseMark(s) \/ CloseStore(s) PROVE LocalsOK'
  <2>1. CASE CloseScan(s)
    <3>1. /\ \E p \in {cl[s].pos, cl[s].pos + 1} : cl' = [cl EXCEPT ![s].pos = p]
          /\ \E p \in {"cscan", "cmark"} : pc' = [pc EXCEPT ![s] = p]
          /\ UNCHANGED <<att, own, rpc, rd, told>>
      BY <2>1 DEF CloseScan, readerVars
    <3>2. cl' \in [Senders -> [val : Int, pos : Nat]]
      <4>1. cl \in [Senders -> [val : Int, pos : Nat]] /\ cl[s].pos \in Nat
        BY <1>1
      <4>2. PICK p \in {cl[s].pos, cl[s].pos + 1} : cl' = [cl EXCEPT ![s].pos = p]
        BY <3>1
      <4>3. p \in Nat
        BY <4>1, <4>2
      <4> QED
        BY <4>1, <4>2, <4>3
    <3>3. pc' \in [Senders -> SenderPlaces]
      BY <1>1, <3>1
    <3> QED
      BY <1>1, <3>1, <3>2, <3>3
  <2>2. CASE CloseMark(s)
    BY <1>1, <2>2 DEF CloseMark, readerVars
  <2>3. CASE CloseStore(s)
    BY <1>1, <2>3 DEF CloseStore, readerVars, NoClose
  <2> QED
    BY <1>11, <2>1, <2>2, <2>3
<1>12. ASSUME NEW r \in Receivers, NEW n \in Limits, StartRecv(r, n) PROVE LocalsOK'
  <2> DEFINE base == Cursor(r)
  <2>1. base \in Int /\ base + 1 \in Nat /\ base + n \in Int
    <3>1. rpc[r] # "dropped"
      BY <1>12 DEF StartRecv
    <3> QED
      BY <1>1, <1>2, <3>1, WordTypes DEF CursorSound
  <2>2. /\ rd' = [rd EXCEPT ![r] = [base |-> base, top |-> base + n, pos |-> base + 1, sd |-> FALSE]]
        /\ rpc' = [rpc EXCEPT ![r] = "scan"]
        /\ UNCHANGED <<pc, att, own, cl, told>>
    BY <1>12 DEF StartRecv, Cursor, senderVars
  <2> HIDE DEF base
  <2>3. rd' \in [Receivers -> [base : Int, top : Int, pos : Nat, sd : BOOLEAN]]
    BY <1>1, <2>1, <2>2
  <2>4. rpc' \in [Receivers -> {"idle", "scan", "guard", "dropped"}]
    BY <1>1, <2>2
  <2> QED
    BY <1>1, <2>2, <2>3, <2>4
<1>13. ASSUME NEW r \in Receivers, ScanSlot(r) PROVE LocalsOK'
  <2> DEFINE d == rd[r]
             l == State(IndexOf(d.pos))
             ScanType == [base : Int, top : Int, pos : Nat, sd : BOOLEAN]
  <2>1. /\ d.base + 1 \in Nat /\ d.base \in Int /\ d.pos \in Nat /\ d.sd \in BOOLEAN
        /\ rd \in [Receivers -> ScanType]
    <3>1. rpc[r] = "scan"
      BY <1>13 DEF ScanSlot
    <3>2. d.base = Cursor(r) /\ Cursor(r) \in -1 .. Highest
      BY <3>1 DEF CursorSound, ReaderSound
    <3> QED
      BY <1>1, <3>2, WordTypes
  <2>2. UNCHANGED senderVars
    BY <1>13 DEF ScanSlot
  <2>3. d = rd[r] /\ l = State(IndexOf(d.pos))
    OBVIOUS
  <2> HIDE DEF d, l
  <2>4. PICK k : Scans(r, k)
    BY <1>13, ScanEffect
  <2> DEFINE last == IF hist[l][k].val.flag = AvailableFlag(d.pos) THEN d.pos ELSE d.pos - 1
             sd == d.sd \/ hist[l][k].val.down
             outcome == ScanOutcome(d.base, last, sd)
  <2>5. last \in Int /\ outcome \in {"Ok", "Empty", "Disconnected"}
    BY <2>1 DEF ScanOutcome
  <2>6. sd \in BOOLEAN
    OBVIOUS
  <2>7. \/ /\ UNCHANGED <<rpc, told>>
           /\ rd' = [rd EXCEPT ![r].pos = d.pos + 1, ![r].sd = sd]
        \/ /\ told' = [told EXCEPT ![r] = outcome]
           /\ rpc' = [rpc EXCEPT ![r] = "guard"]
           /\ rd' = [rd EXCEPT ![r] = [base |-> d.base, top |-> last,
                                       pos |-> d.base + 1, sd |-> FALSE]]
        \/ /\ told' = [told EXCEPT ![r] = outcome]
           /\ rpc' = [rpc EXCEPT ![r] = "idle"]
           /\ rd' = [rd EXCEPT ![r] = NoScan]
    BY <2>4 DEF Scans, d, l
  <2>8. NoScan \in ScanType
    BY DEF NoScan
  <2> HIDE DEF last, sd, outcome
  <2>9. rd' \in [Receivers -> ScanType]
    <3>1. CASE rd' = [rd EXCEPT ![r].pos = d.pos + 1, ![r].sd = sd]
      <4>1. d.pos + 1 \in Nat
        BY <2>1
      <4> QED
        BY <2>1, <2>6, <3>1, <4>1
    <3>2. CASE rd' = [rd EXCEPT ![r] = [base |-> d.base, top |-> last, pos |-> d.base + 1, sd |-> FALSE]]
      BY <2>1, <2>5, <3>2
    <3>3. CASE rd' = [rd EXCEPT ![r] = NoScan]
      BY <2>1, <2>8, <3>3
    <3> QED
      BY <2>7, <3>1, <3>2, <3>3
  <2>10. told' \in [Receivers -> {"none", "Ok", "Empty", "Disconnected"}]
    BY <1>1, <2>5, <2>7
  <2>11. rpc' \in [Receivers -> {"idle", "scan", "guard", "dropped"}]
    BY <1>1, <2>7
  <2> QED
    BY <1>1, <2>2, <2>9, <2>10, <2>11 DEF senderVars
<1>14. ASSUME NEW r \in Receivers, ReadItem(r) \/ FinishGuard(r) \/ DropReceiver(r) PROVE LocalsOK'
  <2>1. CASE ReadItem(r)
    BY <1>1, <2>1 DEF ReadItem, senderVars
  <2>2. CASE FinishGuard(r)
    BY <1>1, <2>2 DEF FinishGuard, senderVars, NoScan
  <2>3. CASE DropReceiver(r)
    BY <1>1, <2>3 DEF DropReceiver, senderVars
  <2> QED
    BY <1>14, <2>1, <2>2, <2>3
<1>15. ASSUME UNCHANGED vars PROVE LocalsOK'
  BY <1>1, <1>15 DEF vars, senderVars, readerVars
<1>16. ASSUME NEW s \in Senders, SenderStep(s) PROVE LocalsOK'
  BY <1>16, <1>4, <1>5, <1>6, <1>7, <1>8, <1>9, <1>10, <1>11 DEF SenderStep
<1>17. ASSUME NEW r \in Receivers, ReceiverStep(r) PROVE LocalsOK'
  BY <1>17, <1>12, <1>13, <1>14 DEF ReceiverStep
<1> QED
  BY <1>15, <1>16, <1>17 DEF Next, Terminated
===============================================================================
