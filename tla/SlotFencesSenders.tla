--------------------------- MODULE SlotFencesSenders ---------------------------
(***************************************************************************)
(* The first half of the proof that IndInv of SlotFences is inductive:     *)
(* what a step leaves alone, what of the invariant's vocabulary only       *)
(* grows, and a lemma for each conjunct of IndInv about claims, slots,     *)
(* state words and senders that every step keeps it.                       *)
(***************************************************************************)
EXTENDS SlotFencesMemory

USE DEF Last, Newest, Cursor, Holds

-------------------------------------------------------------------------------
(* What a step leaves alone. *)

\* The one location a step of a sender adds to.
LEMMA SenderHist ==
  ASSUME TypeOK, NEW s \in Senders, SenderStep(s), NEW l \in Locations
  PROVE  \/ hist'[l] = hist[l]
         \/ l = Claimed /\ (CasClaim(s) \/ CloseStore(s))
         \/ l = Refs /\ DropSender(s)
         \/ l = Written(IndexOf(own[s].nxt)) /\ FillSlot(s)
         \/ l = State(IndexOf(own[s].nxt)) /\ PublishSlot(s)
         \/ l = State(IndexOf(cl[s].pos)) /\ CloseMark(s)
<1>1. CASE (\E n \in Limits : StartClaim(s, n)) \/ CasRetry(s) \/ CloseLoad(s) \/ CloseScan(s)
  BY <1>1, SenderLoads
<1>2. CASE LoadConsumed(s)
  BY <1>2, SenderLoads
<1>3. CASE CasClaim(s)
  BY <1>3, CasEffect DEF Appends
<1>4. CASE FillSlot(s)
  <2> DEFINE x == own[s].nxt
             m == Written(IndexOf(x))
  <2>1. x = own[s].nxt /\ m = Written(IndexOf(x))
    OBVIOUS
  <2> HIDE DEF x, m
  <2>2. \E w \in Views : Appends(hist, hist', m, x, w)
    BY <1>4, <2>1, FillEffect
  <2> QED
    BY <1>4, <2>1, <2>2 DEF Appends
<1>5. CASE StartPublish(s)
  BY <1>5 DEF StartPublish
<1>6. CASE PublishSlot(s)
  <2> DEFINE x == own[s].nxt
             m == State(IndexOf(x))
  <2>1. x = own[s].nxt /\ m = State(IndexOf(x))
    OBVIOUS
  <2> HIDE DEF x, m
  <2>2. Appends(hist, hist', m, [flag |-> AvailableFlag(x), down |-> FALSE],
               [rel[s] EXCEPT ![m] = Last(m) + 1])
    BY <1>6, <2>1, PublishEffect
  <2> QED
    BY <1>6, <2>1, <2>2 DEF Appends
<1>7. CASE DropSender(s)
  BY <1>7, DropEffect DEF Appends
<1>8. CASE CloseMark(s)
  <2> DEFINE x == cl[s].pos
             m == State(IndexOf(x))
  <2>1. x = cl[s].pos /\ m = State(IndexOf(x))
    OBVIOUS
  <2> HIDE DEF x, m
  <2>2. \E w \in Views : Appends(hist, hist', m, [flag |-> Newest(m).val.flag, down |-> TRUE], w)
    BY <1>8, <2>1, MarkEffect
  <2> QED
    BY <1>8, <2>1, <2>2 DEF Appends
<1>9. CASE CloseStore(s)
  BY <1>9, CloseStoreEffect DEF Appends
<1> QED
  BY <1>1, <1>2, <1>3, <1>4, <1>5, <1>6, <1>7, <1>8, <1>9 DEF SenderStep

\* The one location a step of a receiver adds to.
LEMMA ReceiverHist ==
  ASSUME TypeOK, NEW r \in Receivers, ReceiverStep(r), NEW l \in Locations
  PROVE  \/ hist'[l] = hist[l]
         \/ l = ReadBy(IndexOf(rd[r].pos), r) /\ ReadItem(r)
         \/ l = Consumed(r) /\ (FinishGuard(r) \/ DropReceiver(r))
<1>1. CASE \E n \in Limits : StartRecv(r, n)
  BY <1>1, StartRecvLoads
<1>2. CASE ScanSlot(r)
  BY <1>2 DEF ScanSlot
<1>3. CASE ReadItem(r)
  <2> DEFINE x == rd[r].pos
             m == ReadBy(IndexOf(x), r)
  <2>1. x = rd[r].pos /\ m = ReadBy(IndexOf(x), r)
    OBVIOUS
  <2> HIDE DEF x, m
  <2>2. \E w \in Views : Appends(hist, hist', m, x, w)
    BY <1>3, <2>1, ReadEffect
  <2> QED
    BY <1>3, <2>1, <2>2 DEF Appends
<1>4. CASE FinishGuard(r) \/ DropReceiver(r)
  BY <1>4, CommitEffect DEF Appends
<1> QED
  BY <1>1, <1>2, <1>3, <1>4 DEF ReceiverStep

\* A step of a sender leaves the others' locals and the receivers' alone.
LEMMA SenderLocals ==
  ASSUME TypeOK, NEW s \in Senders, SenderStep(s)
  PROVE  /\ UNCHANGED <<rpc, rd, told>>
         /\ \A u \in Senders \ {s} :
              pc'[u] = pc[u] /\ att'[u] = att[u] /\ own'[u] = own[u] /\ cl'[u] = cl[u]
         /\ StartPublish(s) \/ rel' = rel
         /\ \A t \in Threads \ {s} : rel'[t] = rel[t]
<1> USE DEF readerVars, Go
<1>1. UNCHANGED <<rpc, rd, told>>
  BY DEF SenderStep, StartClaim, LoadConsumed, CasClaim, CasRetry, FillSlot, StartPublish,
         PublishSlot, DropSender, CloseLoad, CloseScan, CloseMark, CloseStore
<1>2. \A u \in Senders \ {s} : pc'[u] = pc[u]
  BY DEF SenderStep, StartClaim, LoadConsumed, CasClaim, CasRetry, FillSlot, StartPublish,
         PublishSlot, DropSender, CloseLoad, CloseScan, CloseMark, CloseStore, TypeOK, LocalsOK
<1>3. \A u \in Senders \ {s} : att'[u] = att[u]
  BY DEF SenderStep, StartClaim, LoadConsumed, CasClaim, CasRetry, FillSlot, StartPublish,
         PublishSlot, DropSender, CloseLoad, CloseScan, CloseMark, CloseStore, TypeOK, LocalsOK
<1>4. \A u \in Senders \ {s} : own'[u] = own[u]
  BY DEF SenderStep, StartClaim, LoadConsumed, CasClaim, CasRetry, FillSlot, StartPublish,
         PublishSlot, DropSender, CloseLoad, CloseScan, CloseMark, CloseStore, TypeOK, LocalsOK
<1>5. \A u \in Senders \ {s} : cl'[u] = cl[u]
  BY DEF SenderStep, StartClaim, LoadConsumed, CasClaim, CasRetry, FillSlot, StartPublish,
         PublishSlot, DropSender, CloseLoad, CloseScan, CloseMark, CloseStore, TypeOK, LocalsOK
<1>6. StartPublish(s) \/ rel' = rel
  BY DEF SenderStep, StartClaim, LoadConsumed, CasClaim, CasRetry, FillSlot,
         PublishSlot, DropSender, CloseLoad, CloseScan, CloseMark, CloseStore
<1>7. \A t \in Threads \ {s} : rel'[t] = rel[t]
  BY <1>6 DEF StartPublish, TypeOK, MemoryOK
<1> QED
  BY <1>1, <1>2, <1>3, <1>4, <1>5, <1>6, <1>7

\* A step of a receiver leaves the others' locals and the senders' alone.
LEMMA ReceiverLocals ==
  ASSUME TypeOK, NEW r \in Receivers, ReceiverStep(r)
  PROVE  /\ UNCHANGED <<pc, att, own, cl, rel>>
         /\ \A q \in Receivers \ {r} : rpc'[q] = rpc[q] /\ rd'[q] = rd[q] /\ told'[q] = told[q]
<1> USE DEF senderVars
<1>1. UNCHANGED <<pc, att, own, cl, rel>>
  BY DEF ReceiverStep, StartRecv, ScanSlot, ReadItem, FinishGuard, DropReceiver
<1>2. \A q \in Receivers \ {r} : rpc'[q] = rpc[q] /\ rd'[q] = rd[q]
  BY DEF ReceiverStep, StartRecv, ScanSlot, ReadItem, FinishGuard, DropReceiver, TypeOK, LocalsOK
<1>3. \A q \in Receivers \ {r} : told'[q] = told[q]
  BY DEF ReceiverStep, StartRecv, ScanSlot, ReadItem, FinishGuard, DropReceiver, TypeOK, LocalsOK
<1> QED
  BY <1>1, <1>2, <1>3

-------------------------------------------------------------------------------
(* What only grows. *)

\* What the claim that succeeds adds: the sequences after the highest, at most a
\* ring beyond the cursors its sender met (pub_mul.rs:151-168).
LEMMA ClaimFacts ==
  ASSUME TypeOK, IndInv, NEW s \in Senders, CasClaim(s),
         NEW g, g = att[s].gmin,
         NEW hi, hi = att[s].last + MinOf(AvailableSlots(att[s].last, att[s].gmin), att[s].want)
  PROVE  /\ Highest \in Int /\ g \in -1 .. Highest /\ hi \in Int
         /\ Highest < hi /\ hi <= g + Capacity /\ hi < SHUTDOWN_OPEN
         /\ Highest' = hi /\ hist'[Claimed][Last(Claimed) + 1].val = [seq |-> hi, down |-> FALSE]
         /\ pc[s] = "cas" /\ pc'[s] = "write" /\ own[s] = NoClaim
         /\ own'[s] = [lo |-> Highest + 1, hi |-> hi, nxt |-> Highest + 1]
         /\ CursorKnown(cur[s], g)
         /\ \A r \in Receivers : KnowsReads(hist, cur[s], r, g) /\ g <= Cursor(r)
<1> DEFINE a == att[s]
<1>1. /\ MemoryOK /\ LocalsOK /\ AttemptSound /\ HoldsSound
      /\ a.last \in Int /\ a.gmin \in Int /\ a.want \in Nat
      /\ Highest \in Int /\ hi \in Int /\ g \in Int
  <2>1. MemoryOK /\ LocalsOK /\ AttemptSound /\ HoldsSound /\ Highest \in Int
    BY WordTypes DEF TypeOK, IndInv
  <2>2. a.last \in Int /\ a.gmin \in Int /\ a.want \in Nat
    BY <2>1 DEF LocalsOK
  <2> QED
    BY <2>1, <2>2, CapacityAssumption DEF MinOf, AvailableSlots
<1>2. /\ pc[s] = "cas" /\ Newest(Claimed).val = [seq |-> a.last, down |-> FALSE]
      /\ hi < SHUTDOWN_OPEN
      /\ own' = [own EXCEPT ![s] = [lo |-> a.last + 1, hi |-> hi, nxt |-> a.last + 1]]
      /\ pc' = [pc EXCEPT ![s] = "write"]
  BY DEF CasClaim, Go
<1>3. a.last = Highest
  BY <1>2 DEF Highest
<1>4. /\ a.want >= 1 /\ HasRoom(a.last, g)
      /\ \A r \in Receivers : KnowsReads(hist, cur[s], r, g) /\ g <= Cursor(r)
      /\ g # SHUTDOWN_OPEN => CursorKnown(cur[s], g)
  BY <1>1, <1>2 DEF AttemptSound
<1>5. CursorKnown(cur[s], g) /\ AvailableSlots(a.last, g) >= 1
  BY <1>4 DEF HasRoom
<1>6. g \in -1 .. Highest
  BY <1>5 DEF CursorKnown
<1>7. Highest < hi /\ hi <= g + Capacity
  <2>1. PICK room, n : room = AvailableSlots(a.last, g) /\ n = MinOf(room, a.want)
    OBVIOUS
  <2>2. room \in Int /\ room >= 1 /\ Highest + room = g + Capacity /\ Highest \in Int /\ g + Capacity \in Int
    BY <1>1, <1>3, <1>5, <2>1, CapacityAssumption DEF AvailableSlots
  <2>3. n \in Int /\ n >= 1 /\ n <= room
    BY <1>1, <1>4, <2>1, <2>2 DEF MinOf
  <2>4. hi = Highest + n
    BY <1>3, <2>1
  <2> QED
    BY <2>2, <2>3, <2>4
<1>8. PICK w \in Views : Appends(hist, hist', Claimed, [seq |-> hi, down |-> FALSE], w)
  BY CasEffect
<1>9. hist'[Claimed][Last(Claimed) + 1].val = [seq |-> hi, down |-> FALSE] /\ Highest' = hi
  BY <1>8 DEF Appends, Highest
<1>10. own'[s] = [lo |-> Highest + 1, hi |-> hi, nxt |-> Highest + 1] /\ pc'[s] = "write"
  BY <1>1, <1>2, <1>3 DEF LocalsOK
<1>11. own[s] = NoClaim
  BY <1>1, <1>2 DEF HoldsSound
<1> QED
  BY <1>1, <1>2, <1>4, <1>5, <1>6, <1>7, <1>9, <1>10, <1>11

\* Close writes back the sequence it loaded, which is the last one claimed, and sets
\* the bit unless that is -1.
LEMMA CloseStoreFacts ==
  ASSUME TypeOK, IndInv, NEW s \in Senders, CloseStore(s)
  PROVE  /\ Highest' = Highest /\ pc[s] = "cstore" /\ pc'[s] = "dropped"
         /\ hist'[Claimed][Last(Claimed) + 1].val.seq = Highest
         /\ Shut' = (Highest # -1)
<1>1. pc[s] = "cstore" /\ pc'[s] = "dropped" /\ cl[s].val = Highest
  BY DEF CloseStore, Go, IndInv, CloserSound, TypeOK, LocalsOK
<1>2. PICK w \in Views :
        Appends(hist, hist', Claimed, [seq |-> cl[s].val, down |-> cl[s].val # -1], w)
  BY CloseStoreEffect
<1>3. /\ Last(Claimed)' = Last(Claimed) + 1
      /\ hist'[Claimed][Last(Claimed) + 1].val = [seq |-> cl[s].val, down |-> cl[s].val # -1]
  BY <1>2 DEF Appends
<1>4. Shut' = (Highest # -1)
  BY <1>1, <1>3 DEF Shut
<1> QED
  BY <1>1, <1>3, <1>4 DEF Highest

\* `claimed` only grows, and only a claim raises it.
LEMMA HighestGrows ==
  ASSUME TypeOK, IndInv, [Next]_vars
  PROVE  /\ Highest \in Int /\ Highest' \in Int /\ Highest <= Highest'
         /\ Highest' = Highest \/ \E s \in Senders : CasClaim(s)
<1>1. Highest \in Int /\ Claimed \in Locations
  BY WordTypes DEF TypeOK, Locations
<1>2. CASE hist'[Claimed] = hist[Claimed]
  BY <1>1, <1>2 DEF Highest
<1>3. CASE hist'[Claimed] # hist[Claimed]
  <2>1. ~UNCHANGED vars
    BY <1>3 DEF vars, memVars
  <2>2. ASSUME NEW r \in Receivers, ReceiverStep(r) PROVE FALSE
    BY <1>1, <1>3, <2>2, ReceiverHist, DistinctLocations, CapacityAssumption DEF Claimed, ReadBy, Consumed
  <2>3. PICK s \in Senders : SenderStep(s)
    BY <2>1, <2>2 DEF Next, Terminated
  <2>4. CasClaim(s) \/ CloseStore(s)
    BY <1>1, <1>3, <2>3, SenderHist DEF Claimed, Refs, Written, State
  <2>5. CASE CasClaim(s)
    <3> DEFINE hi == att[s].last + MinOf(AvailableSlots(att[s].last, att[s].gmin), att[s].want)
               g == att[s].gmin
    <3>1. hi = att[s].last + MinOf(AvailableSlots(att[s].last, att[s].gmin), att[s].want)
          /\ g = att[s].gmin
      OBVIOUS
    <3> HIDE DEF hi, g
    <3>2. Highest < hi /\ Highest' = hi /\ hi \in Int
      BY <2>5, <3>1, ClaimFacts
    <3> QED
      BY <1>1, <2>5, <3>2
  <2>6. CASE CloseStore(s)
    BY <1>1, <2>6, CloseStoreFacts
  <2> QED
    BY <2>4, <2>5, <2>6
<1> QED
  BY <1>2, <1>3

\* What a sender's own steps do to its claim.
LEMMA OwnStep ==
  ASSUME TypeOK, IndInv, NEW s \in Senders, SenderStep(s)
  PROVE  \/ /\ pc[s] \notin {"write", "publish"} /\ pc'[s] \notin {"write", "publish"}
            /\ own[s] = NoClaim /\ own'[s] = NoClaim
         \/ CasClaim(s)
         \/ /\ FillSlot(s) /\ pc[s] = "write" /\ pc'[s] = "write" /\ own[s].nxt <= own[s].hi
            /\ own'[s] = [lo |-> own[s].lo, hi |-> own[s].hi, nxt |-> own[s].nxt + 1]
         \/ /\ StartPublish(s) /\ pc[s] = "write" /\ pc'[s] = "publish" /\ own[s].nxt > own[s].hi
            /\ own'[s] = [lo |-> own[s].lo, hi |-> own[s].hi, nxt |-> own[s].lo]
            /\ rel'[s] = cur[s]
         \/ /\ PublishSlot(s) /\ pc[s] = "publish"
            /\ \/ /\ own[s].nxt < own[s].hi /\ pc'[s] = "publish"
                  /\ own'[s] = [lo |-> own[s].lo, hi |-> own[s].hi, nxt |-> own[s].nxt + 1]
               \/ /\ own[s].nxt = own[s].hi /\ pc'[s] = "idle" /\ own'[s] = NoClaim
<1>1. /\ own \in [Senders -> [lo : Int, hi : Int, nxt : Int]] /\ pc \in [Senders -> SenderPlaces]
      /\ own[s] \in [lo : Int, hi : Int, nxt : Int]
  BY DEF TypeOK, LocalsOK
<1>2. \A q \in Int : [own[s] EXCEPT !.nxt = q] = [lo |-> own[s].lo, hi |-> own[s].hi, nxt |-> q]
  BY <1>1
<1>3. pc[s] \notin {"write", "publish"} => own[s] = NoClaim
  BY DEF IndInv, HoldsSound
<1>4. CASE (\E n \in Limits : StartClaim(s, n)) \/ LoadConsumed(s) \/ CasRetry(s) \/ DropSender(s)
  <2>1. /\ pc[s] \notin {"write", "publish"} /\ own' = own
        /\ \E p \in {"idle", "gate", "cas", "dropped", "cload"} : pc' = [pc EXCEPT ![s] = p] \/ pc' = pc
    <3>1. CASE \E n \in Limits : StartClaim(s, n)
      BY <1>1, <3>1 DEF StartClaim, Go
    <3>2. CASE LoadConsumed(s)
      BY <1>1, <3>2 DEF LoadConsumed, Go
    <3>3. CASE CasRetry(s)
      BY <1>1, <3>3 DEF CasRetry, Go
    <3>4. CASE DropSender(s)
      BY <1>1, <3>4 DEF DropSender, Go
    <3> QED
      BY <1>4, <3>1, <3>2, <3>3, <3>4
  <2> QED
    BY <1>1, <1>3, <2>1
<1>5. CASE CloseLoad(s) \/ CloseScan(s) \/ CloseMark(s) \/ CloseStore(s)
  <2>1. /\ pc[s] \notin {"write", "publish"} /\ own' = own
        /\ \E p \in {"cscan", "cmark", "cstore", "dropped"} : pc' = [pc EXCEPT ![s] = p]
    <3>1. CASE CloseLoad(s)
      BY <1>1, <3>1 DEF CloseLoad, Go
    <3>2. CASE CloseScan(s)
      BY <1>1, <3>2 DEF CloseScan, Go
    <3>3. CASE CloseMark(s)
      BY <1>1, <3>3 DEF CloseMark, Go
    <3>4. CASE CloseStore(s)
      BY <1>1, <3>4 DEF CloseStore, Go
    <3> QED
      BY <1>5, <3>1, <3>2, <3>3, <3>4
  <2> QED
    BY <1>1, <1>3, <2>1
<1>6. CASE FillSlot(s)
  <2>1. own[s].nxt + 1 \in Int
    BY <1>1
  <2> QED
    BY <1>1, <1>2, <1>6, <2>1 DEF FillSlot
<1>7. CASE StartPublish(s)
  <2>1. own[s].lo \in Int /\ s \in Threads
    BY <1>1 DEF Threads
  <2>2. rel'[s] = cur[s]
    BY <1>7, <2>1 DEF StartPublish, ReleaseFence, TypeOK, MemoryOK
  <2> QED
    BY <1>1, <1>2, <1>7, <2>1, <2>2 DEF StartPublish, Go
<1>8. CASE PublishSlot(s)
  <2>1. own[s].nxt + 1 \in Int /\ pc[s] = "publish"
    BY <1>1, <1>8 DEF PublishSlot
  <2>2. own[s].nxt <= own[s].hi
    BY <2>1 DEF IndInv, WriterSound
  <2>3. CASE own[s].nxt < own[s].hi
    BY <1>1, <1>2, <1>8, <2>1, <2>3 DEF PublishSlot
  <2>4. CASE own[s].nxt = own[s].hi
    BY <1>1, <1>8, <2>1, <2>4 DEF PublishSlot, Go
  <2> QED
    BY <1>1, <2>2, <2>3, <2>4
<1> QED
  BY <1>4, <1>5, <1>6, <1>7, <1>8 DEF SenderStep

\* A step adds to what a sender holds only sequences after the highest, and takes
\* from it only the one published.
LEMMA HoldsStep ==
  ASSUME TypeOK, IndInv, NEW s \in Senders, SenderStep(s)
  PROVE  /\ \A x \in Held(own'[s], pc'[s]) :
              x \in Holds(s) \/ (CasClaim(s) /\ Highest < x /\ x <= Highest')
         /\ \A x \in Holds(s) :
              x \in Held(own'[s], pc'[s]) \/ (PublishSlot(s) /\ x = own[s].nxt)
         /\ CasClaim(s) => \A x \in (Highest + 1) .. Highest' : x \in Held(own'[s], pc'[s])
         /\ PublishSlot(s) => own[s].nxt \notin Held(own'[s], pc'[s])
<1>1. /\ own[s].lo \in Int /\ own[s].hi \in Int /\ own[s].nxt \in Int
      /\ Highest \in Int /\ Highest' \in Int
  BY HighestGrows DEF TypeOK, LocalsOK, Next
<1>2. /\ pc[s] \in {"write", "publish"} => 0 <= own[s].lo /\ own[s].lo <= own[s].nxt
      /\ \A p : Held(NoClaim, p) = {}
  BY DEF IndInv, WriterSound, Held, NoClaim
<1>3. CASE pc[s] \notin {"write", "publish"} /\ own[s] = NoClaim /\ own'[s] = NoClaim
  <2>1. ~CasClaim(s) \/ own'[s] # NoClaim
    <3>1. ASSUME CasClaim(s) PROVE own'[s] # NoClaim
      <4>1. own'[s] = [lo |-> Highest + 1, hi |-> Highest', nxt |-> Highest + 1] /\ Highest < Highest'
        BY <3>1, ClaimFacts
      <4> QED
        BY <1>1, <4>1 DEF NoClaim
    <3> QED
      BY <3>1
  <2>2. ~PublishSlot(s)
    BY <1>3 DEF PublishSlot
  <2> QED
    BY <1>2, <1>3, <2>1, <2>2
<1>4. CASE CasClaim(s)
  <2>1. /\ own'[s] = [lo |-> Highest + 1, hi |-> Highest', nxt |-> Highest + 1]
        /\ pc'[s] = "write" /\ own[s] = NoClaim
    BY <1>4, ClaimFacts
  <2>2. \A x : x \in Held(own'[s], pc'[s]) <=> x \in (Highest + 1) .. Highest'
    BY <2>1 DEF Held
  <2>3. Holds(s) = {}
    BY <1>2, <2>1
  <2>4. ~PublishSlot(s)
    BY <1>4 DEF CasClaim, PublishSlot
  <2> QED
    BY <1>1, <1>4, <2>2, <2>3, <2>4
<1>5. CASE /\ FillSlot(s) /\ pc[s] = "write" /\ pc'[s] = "write"
           /\ own'[s] = [lo |-> own[s].lo, hi |-> own[s].hi, nxt |-> own[s].nxt + 1]
  <2>1. ~CasClaim(s) /\ ~PublishSlot(s)
    BY <1>5 DEF CasClaim, PublishSlot
  <2>2. Held(own'[s], pc'[s]) = Holds(s)
    BY <1>1, <1>5 DEF Held
  <2> QED
    BY <2>1, <2>2
<1>6. CASE /\ StartPublish(s) /\ pc[s] = "write" /\ pc'[s] = "publish"
           /\ own'[s] = [lo |-> own[s].lo, hi |-> own[s].hi, nxt |-> own[s].lo]
  <2>1. ~CasClaim(s) /\ ~PublishSlot(s)
    BY <1>6 DEF CasClaim, PublishSlot
  <2>2. Held(own'[s], pc'[s]) = Holds(s)
    BY <1>1, <1>6 DEF Held
  <2> QED
    BY <2>1, <2>2
<1>7. CASE /\ PublishSlot(s) /\ pc[s] = "publish"
           /\ \/ /\ own[s].nxt < own[s].hi /\ pc'[s] = "publish"
                 /\ own'[s] = [lo |-> own[s].lo, hi |-> own[s].hi, nxt |-> own[s].nxt + 1]
              \/ /\ own[s].nxt = own[s].hi /\ pc'[s] = "idle" /\ own'[s] = NoClaim
  <2>1. ~CasClaim(s)
    BY <1>7 DEF CasClaim
  <2>2. \A x : x \in Holds(s) <=> x \in own[s].nxt .. own[s].hi
    BY <1>1, <1>2, <1>7 DEF Held
  <2>3. \A x : x \in Held(own'[s], pc'[s]) <=> x \in (own[s].nxt + 1) .. own[s].hi
    BY <1>1, <1>2, <1>7 DEF Held
  <2>4. /\ \A x \in Held(own'[s], pc'[s]) : x \in Holds(s)
        /\ \A x \in Holds(s) : x \in Held(own'[s], pc'[s]) \/ x = own[s].nxt
        /\ own[s].nxt \notin Held(own'[s], pc'[s])
    BY <1>1, <2>2, <2>3
  <2> QED
    BY <1>7, <2>1, <2>4
<1> QED
  BY <1>3, <1>4, <1>5, <1>6, <1>7, OwnStep

\* What is still held is beyond all that a thread can know to be published.
LEMMA HeldIsBeyond ==
  ASSUME TypeOK, IndInv, NEW s \in Senders, NEW x \in Holds(s),
         NEW t \in Threads, NEW c \in Int, Covers(cur[t], c)
  PROVE  c < x
<1>1. x \in 0 .. Highest /\ x \in Int
  BY WordTypes DEF IndInv, HoldsSound, TypeOK
<1>2. /\ Last(State(IndexOf(x))) = Pos(x) - 1 /\ State(IndexOf(x)) \in Locations
      /\ Pos(x) \in Int
  BY <1>1, PosType DEF IndInv, WriterSound, Locations
<1>3. cur[t][State(IndexOf(x))] \in 1 .. Last(State(IndexOf(x)))
  BY <1>2, MemoryTypes DEF TypeOK
<1>4. ASSUME x <= c PROVE cur[t][State(IndexOf(x))] >= Pos(x)
  BY <1>1, <1>4 DEF Covers
<1> QED
  BY <1>1, <1>2, <1>3, <1>4

\* The commit of a guard moves the cursor to the end of what it covers; the drop
\* of the receiver moves it out of the way (consumer.rs:71-79, :82-88).
LEMMA CommitFacts ==
  ASSUME TypeOK, IndInv, NEW r \in Receivers, FinishGuard(r) \/ DropReceiver(r),
         NEW c, c = IF rpc[r] = "guard" THEN rd[r].top ELSE SHUTDOWN_OPEN
  PROVE  /\ c \in Int /\ Cursor(r) \in Int /\ Cursor(r) < c
         /\ Last(Consumed(r))' = Last(Consumed(r)) + 1
         /\ hist'[Consumed(r)][Last(Consumed(r)) + 1].val = c /\ Cursor(r)' = c
         /\ hist'[Consumed(r)][Last(Consumed(r)) + 1].view
              = [cur[r] EXCEPT ![Consumed(r)] = Last(Consumed(r)) + 1]
         /\ FinishGuard(r) => /\ rpc[r] = "guard" /\ rpc'[r] = "idle" /\ c \in -1 .. Highest
                              /\ Highest <= c + Capacity /\ Covers(cur[r], c) /\ told[r] = "Ok"
         /\ DropReceiver(r) => rpc[r] = "idle" /\ rpc'[r] = "dropped" /\ c = SHUTDOWN_OPEN
<1>1. /\ MemoryOK /\ LocalsOK /\ Cursor(r) \in Int /\ Highest \in Int /\ SHUTDOWN_OPEN \in Int
      /\ rd[r].top \in Int
  <2>1. MemoryOK /\ LocalsOK
    BY DEF TypeOK
  <2>2. rd[r].top \in Int
    BY <2>1 DEF LocalsOK
  <2> QED
    BY <2>1, <2>2, WordTypes, OpenAssumption
<1>2. /\ FinishGuard(r) => rpc[r] = "guard" /\ rpc'[r] = "idle"
      /\ DropReceiver(r) => rpc[r] = "idle" /\ rpc'[r] = "dropped"
  BY <1>1 DEF FinishGuard, DropReceiver, LocalsOK
<1>3. rpc[r] # "dropped"
  BY <1>2
<1>4. /\ Cursor(r) \in -1 .. Highest /\ Highest <= Cursor(r) + Capacity
      /\ Highest < SHUTDOWN_OPEN
  BY <1>3 DEF IndInv, CursorSound, ClaimsSound
<1>5. CASE FinishGuard(r)
  <2>1. /\ rd[r].base = Cursor(r) /\ rd[r].base < rd[r].top /\ rd[r].top <= Highest
        /\ told[r] = "Ok" /\ Covers(cur[r], rd[r].top)
    BY <1>2, <1>5 DEF IndInv, ReaderSound
  <2>2. /\ c = rd[r].top /\ c \in -1 .. Highest /\ Highest <= c + Capacity /\ Cursor(r) < c
    BY <1>1, <1>2, <1>4, <1>5, <2>1, CapacityAssumption
  <2>3. ~DropReceiver(r)
    BY <1>2, <1>5
  <2>4. Appends(hist, hist', Consumed(r), c, [cur[r] EXCEPT ![Consumed(r)] = Last(Consumed(r)) + 1])
    BY CommitEffect
  <2> QED
    BY <1>1, <1>2, <1>5, <2>1, <2>2, <2>3, <2>4 DEF Appends
<1>6. CASE DropReceiver(r)
  <2>1. c = SHUTDOWN_OPEN /\ Cursor(r) < c /\ c \in Int
    BY <1>1, <1>2, <1>4, <1>6
  <2>2. ~FinishGuard(r)
    BY <1>2, <1>6
  <2>3. Appends(hist, hist', Consumed(r), c, [cur[r] EXCEPT ![Consumed(r)] = Last(Consumed(r)) + 1])
    BY CommitEffect
  <2> QED
    BY <1>1, <1>2, <1>6, <2>1, <2>2, <2>3 DEF Appends
<1> QED
  BY <1>5, <1>6

\* A cursor only moves forward.
LEMMA CursorGrows ==
  ASSUME TypeOK, IndInv, [Next]_vars, NEW q \in Receivers
  PROVE  Cursor(q) \in Int /\ Cursor(q)' \in Int /\ Cursor(q) <= Cursor(q)'
<1>1. Cursor(q) \in Int /\ Consumed(q) \in Locations /\ 0 \in Slots
  BY WordTypes, CapacityAssumption DEF TypeOK, Locations, Slots
<1>2. CASE hist'[Consumed(q)] = hist[Consumed(q)]
  BY <1>1, <1>2
<1>3. CASE hist'[Consumed(q)] # hist[Consumed(q)]
  <2>1. ~UNCHANGED vars
    BY <1>3 DEF vars, memVars
  <2>2. ASSUME NEW s \in Senders, SenderStep(s) PROVE FALSE
    BY <1>1, <1>3, <2>2, SenderHist DEF Claimed, Refs, Written, State, Consumed
  <2>3. PICK r \in Receivers : ReceiverStep(r)
    BY <2>1, <2>2 DEF Next, Terminated
  <2>4. Consumed(q) = Consumed(r) /\ (FinishGuard(r) \/ DropReceiver(r))
    BY <1>1, <1>3, <2>3, ReceiverHist DEF ReadBy, Consumed
  <2>5. r = q
    BY <1>1, <2>4, DistinctLocations
  <2> DEFINE c == IF rpc[r] = "guard" THEN rd[r].top ELSE SHUTDOWN_OPEN
  <2>6. c = IF rpc[r] = "guard" THEN rd[r].top ELSE SHUTDOWN_OPEN
    OBVIOUS
  <2> HIDE DEF c
  <2>7. c \in Int /\ Cursor(r) \in Int /\ Cursor(r) < c /\ Cursor(r)' = c
    BY <2>4, <2>6, CommitFacts
  <2> QED
    BY <2>5, <2>7
<1> QED
  BY <1>2, <1>3

\* Whoever looks at an item of a guard is ahead of the cursor, and within the claims.
LEMMA ReadFacts ==
  ASSUME TypeOK, IndInv, NEW r \in Receivers, ReadItem(r),
         NEW y, y = rd[r].pos, NEW l, l = ReadBy(IndexOf(y), r)
  PROVE  /\ y \in Int /\ IndexOf(y) \in Slots /\ l \in Locations /\ rd[r].top \in Int
         /\ rpc[r] = "guard" /\ rpc' = rpc /\ Cursor(r) < y /\ y <= rd[r].top /\ rd[r].top <= Highest
         /\ Covers(cur[r], rd[r].top) /\ Cursor(r) \in -1 .. Highest /\ Highest <= Cursor(r) + Capacity
         /\ \E w \in Views : Appends(hist, hist', l, y, w)
         /\ cur'[r][l] = Last(l) + 1
         /\ rd'[r] = [base |-> rd[r].base, top |-> rd[r].top, pos |-> y + 1, sd |-> rd[r].sd]
<1>1. /\ MemoryOK /\ LocalsOK /\ rd[r] \in [base : Int, top : Int, pos : Nat, sd : BOOLEAN]
  BY DEF TypeOK, LocalsOK
<1>2. rpc[r] = "guard" /\ rpc' = rpc /\ y <= rd[r].top /\ rd' = [rd EXCEPT ![r].pos = y + 1]
  BY DEF ReadItem
<1>3. /\ rd[r].base = Cursor(r) /\ rd[r].base < y /\ rd[r].top <= Highest /\ Covers(cur[r], rd[r].top)
      /\ Cursor(r) \in -1 .. Highest /\ Highest <= Cursor(r) + Capacity
  BY <1>2 DEF IndInv, ReaderSound, CursorSound
<1>4. y \in Int /\ IndexOf(y) \in Slots /\ l \in Locations
  BY ReadEffect
<1>5. \E w \in Views : Appends(hist, hist', l, y, w)
  BY ReadEffect
<1>6. cur'[r] = [cur[r] EXCEPT ![l] = Last(l) + 1]
  BY ReadEffect
<1>7. cur'[r][l] = Last(l) + 1
  <2>1. cur[r] \in Views
    BY <1>1, MemoryTypes DEF Threads
  <2> QED
    BY <1>4, <1>6, <2>1 DEF Views
<1>8. rd'[r] = [base |-> rd[r].base, top |-> rd[r].top, pos |-> y + 1, sd |-> rd[r].sd]
  <2>1. rd \in [Receivers -> [base : Int, top : Int, pos : Nat, sd : BOOLEAN]] /\ y + 1 \in Int
    BY <1>1, <1>4 DEF LocalsOK
  <2> QED
    BY <1>2, <2>1
<1> QED
  BY <1>1, <1>2, <1>3, <1>4, <1>5, <1>7, <1>8

\* What a view knows of the reads up to a cursor's value stays known: later reads
\* are of items ahead of it.
LEMMA ReadsStayKnown ==
  ASSUME TypeOK, IndInv, [Next]_vars, NEW q \in Receivers, NEW v \in Views, NEW w \in Views,
         \A l \in Locations : v[l] <= w[l], NEW c \in Int, c <= Cursor(q),
         KnowsReads(hist, v, q, c)
  PROVE  KnowsReads(hist', w, q, c)
<1> SUFFICES ASSUME NEW i \in Slots, NEW j \in 1 .. Len(hist'[ReadBy(i, q)]),
                    hist'[ReadBy(i, q)][j].val <= c
             PROVE  j <= w[ReadBy(i, q)]
  BY DEF KnowsReads
<1>1. ReadBy(i, q) \in Locations /\ v[ReadBy(i, q)] <= w[ReadBy(i, q)]
      /\ v[ReadBy(i, q)] \in Int /\ w[ReadBy(i, q)] \in Int
  BY DEF Locations, Views
<1>2. ASSUME j <= Last(ReadBy(i, q)), hist'[ReadBy(i, q)][j] = hist[ReadBy(i, q)][j]
      PROVE  j <= w[ReadBy(i, q)]
  <2>1. j \in 1 .. Last(ReadBy(i, q))
    BY <1>1, <1>2, MemoryTypes DEF TypeOK
  <2>2. j <= v[ReadBy(i, q)]
    BY <1>2, <2>1 DEF KnowsReads
  <2> QED
    BY <1>1, <2>1, <2>2
<1>3. CASE hist'[ReadBy(i, q)] = hist[ReadBy(i, q)]
  BY <1>2, <1>3
<1>4. CASE hist'[ReadBy(i, q)] # hist[ReadBy(i, q)]
  <2>1. ~UNCHANGED vars
    BY <1>4 DEF vars, memVars
  <2>2. ASSUME NEW s \in Senders, SenderStep(s) PROVE FALSE
    BY <1>1, <1>4, <2>2, SenderHist DEF Claimed, Refs, Written, State, ReadBy
  <2>3. PICK r \in Receivers : ReceiverStep(r)
    BY <2>1, <2>2 DEF Next, Terminated
  <2>4. ReadBy(i, q) = ReadBy(IndexOf(rd[r].pos), r) /\ ReadItem(r)
    BY <1>1, <1>4, <2>3, ReceiverHist DEF ReadBy, Consumed
  <2>5. PICK l : l = ReadBy(i, q)
    OBVIOUS
  <2>6. PICK y : y = rd[r].pos /\ l = ReadBy(IndexOf(y), r)
    BY <2>5, <2>4
  <2>7. q = r
    BY <2>5, <2>6 DEF ReadBy
  <2>8. /\ y \in Int /\ IndexOf(y) \in Slots /\ Cursor(r) < y /\ Last(l)' = Last(l) + 1
        /\ hist'[l][Last(l) + 1].val = y
        /\ \A k \in 1 .. Last(l) : hist'[l][k] = hist[l][k]
    <3>1. ReadItem(r)
      BY <2>4
    <3>2. y \in Int /\ IndexOf(y) \in Slots /\ Cursor(r) < y
      BY <3>1, <2>6, ReadFacts
    <3>3. \E m \in Views : Appends(hist, hist', l, y, m)
      BY <3>1, <2>6, ReadFacts
    <3> QED
      BY <3>2, <3>3 DEF Appends
  <2>9. Cursor(q) \in Int /\ Last(l) \in Nat
    BY <1>1, <2>5, WordTypes, MemoryTypes DEF TypeOK
  <2>10. j \in 1 .. Len(hist'[l]) /\ hist'[l][j].val <= c
    BY <2>5
  <2>11. j # Last(l) + 1
    BY <2>7, <2>8, <2>9, <2>10
  <2>12. j \in 1 .. Last(l)
    BY <2>8, <2>9, <2>10, <2>11
  <2> QED
    BY <1>2, <2>5, <2>8, <2>12
<1> QED
  BY <1>3, <1>4

\* A step gives out only sequences beyond the highest.
LEMMA HeldGrows ==
  ASSUME TypeOK, IndInv, [Next]_vars, NEW u \in Senders, NEW x \in Held(own'[u], pc'[u])
  PROVE  x \in Holds(u) \/ (Highest < x /\ x <= Highest')
<1>1. CASE UNCHANGED <<pc, own>>
  BY <1>1
<1>2. CASE ~UNCHANGED <<pc, own>>
  <2>1. ASSUME NEW r \in Receivers, ReceiverStep(r) PROVE FALSE
    BY <1>2, <2>1, ReceiverLocals
  <2>2. PICK s \in Senders : SenderStep(s)
    BY <1>2, <2>1 DEF Next, Terminated, vars, senderVars
  <2>3. CASE u = s
    BY <2>2, <2>3, HoldsStep
  <2>4. CASE u # s
    <3>1. own'[u] = own[u] /\ pc'[u] = pc[u]
      BY <2>2, <2>4, SenderLocals
    <3> QED
      BY <3>1
  <2> QED
    BY <2>3, <2>4
<1> QED
  BY <1>1, <1>2

\* A wider view covers more, and whatever a smaller cursor stands for.
LEMMA CoversLess ==
  ASSUME NEW v \in Views, NEW w \in Views, \A l \in Locations : v[l] <= w[l],
         NEW c \in Int, NEW d \in Int, d <= c, Covers(v, c)
  PROVE  Covers(w, d)
<1>1. ASSUME NEW z \in 0 .. d
      PROVE  w[Written(IndexOf(z))] >= Pos(z) /\ w[State(IndexOf(z))] >= Pos(z)
  <2>1. z \in Int /\ z \in 0 .. c /\ IndexOf(z) \in Slots /\ Pos(z) \in Int
    BY PosType
  <2>2. Written(IndexOf(z)) \in Locations /\ State(IndexOf(z)) \in Locations
    BY <2>1 DEF Locations
  <2>3. v[Written(IndexOf(z))] >= Pos(z) /\ v[State(IndexOf(z))] >= Pos(z)
    BY <2>1 DEF Covers
  <2> QED
    BY <2>1, <2>2, <2>3 DEF Views
<1> QED
  BY <1>1 DEF Covers

\* A cursor that a view knows stays one: claims begin beyond it.
LEMMA CursorStaysKnown ==
  ASSUME TypeOK, IndInv, [Next]_vars, NEW v \in Views, NEW w \in Views,
         \A l \in Locations : v[l] <= w[l], NEW c, CursorKnown(v, c)
  PROVE  /\ c \in -1 .. Highest' /\ Covers(w, c)
         /\ \A u \in Senders : \A x \in Held(own'[u], pc'[u]) : c < x
<1>1. Highest \in Int /\ Highest' \in Int /\ Highest <= Highest'
  BY HighestGrows
<1>2. c \in -1 .. Highest /\ c \in Int /\ Covers(v, c)
  BY <1>1 DEF CursorKnown
<1>3. Covers(w, c)
  BY <1>2, CoversLess
<1>4. ASSUME NEW u \in Senders, NEW x \in Held(own'[u], pc'[u]) PROVE c < x
  <2>1. CASE x \in Holds(u)
    BY <2>1 DEF CursorKnown
  <2>2. CASE Highest < x /\ x <= Highest'
    <3>1. x \in Int
      <4>1. MemoryOK' /\ own'[u].lo \in Int /\ own'[u].hi \in Int
        <5>1. LocalsOK'
          BY LocalsKept DEF IndInv
        <5> QED
          BY <5>1, MemoryKept DEF LocalsOK
      <4> QED
        BY <4>1 DEF Held
    <3> QED
      BY <1>1, <1>2, <2>2, <3>1
  <2> QED
    BY <2>1, <2>2, HeldGrows
<1> QED
  BY <1>1, <1>2, <1>3, <1>4

\* A message nobody follows is still the newest to whoever knew it.
LEMMA NewestStaysKnown ==
  ASSUME MemoryOK, MemoryOK', Grows, NEW t \in Threads, NEW l \in Locations,
         hist'[l] = hist[l], Knows(t, l)
  PROVE  cur'[t][l] = Last(l)'
<1>1. cur[t][l] = Last(l) /\ Last(l) \in Nat /\ Last(l)' = Last(l)
  BY MemoryTypes DEF Knows
<1>2. cur'[t][l] \in Nat /\ cur'[t][l] <= Last(l)'
  BY DEF MemoryOK, Views
<1>3. cur[t][l] <= cur'[t][l]
  BY DEF Grows
<1> QED
  BY <1>1, <1>2, <1>3

-------------------------------------------------------------------------------
(* Every step keeps what the invariant says of claims, slots and senders. *)

\* The word `claimed`: only a claim raises it, and close writes it back.
LEMMA ClaimsKept ==
  ASSUME TypeOK, IndInv, [Next]_vars
  PROVE  ClaimsSound'
<1>1. /\ Claimed \in Locations /\ Last(Claimed) \in Nat /\ Last(Claimed) >= 1
      /\ Highest \in Int /\ Highest' \in Int /\ Highest <= Highest' /\ SHUTDOWN_OPEN \in Nat
      /\ \A k \in 1 .. Last(Claimed) : hist[Claimed][k].val.seq \in -1 .. Highest
      /\ Highest < SHUTDOWN_OPEN /\ (Shut => Highest # -1)
  <2>1. Claimed \in Locations
    BY DEF Locations
  <2>2. Last(Claimed) \in Nat /\ Last(Claimed) >= 1
    BY <2>1, MemoryTypes DEF TypeOK
  <2> QED
    BY <2>1, <2>2, HighestGrows, OpenAssumption DEF IndInv, ClaimsSound
<1>2. CASE hist'[Claimed] = hist[Claimed]
  <2>1. Highest' = Highest /\ Shut' = Shut
    BY <1>2 DEF Highest, Shut
  <2> QED
    BY <1>1, <1>2, <2>1 DEF ClaimsSound
<1>3. CASE hist'[Claimed] # hist[Claimed]
  <2>1. ~UNCHANGED vars
    BY <1>3 DEF vars, memVars
  <2>2. ASSUME NEW r \in Receivers, ReceiverStep(r) PROVE FALSE
    BY <1>1, <1>3, <2>2, ReceiverHist DEF Claimed, ReadBy, Consumed
  <2>3. PICK s \in Senders : SenderStep(s)
    BY <2>1, <2>2 DEF Next, Terminated
  <2>4. CasClaim(s) \/ CloseStore(s)
    BY <1>1, <1>3, <2>3, SenderHist DEF Claimed, Refs, Written, State
  <2>5. \E v \in ValuesOf(Claimed), w \in Views : Appends(hist, hist', Claimed, v, w)
    <3>1. CASE CasClaim(s)
      <4>1. PICK hi, g : /\ hi = att[s].last + MinOf(AvailableSlots(att[s].last, att[s].gmin), att[s].want)
                         /\ g = att[s].gmin
        OBVIOUS
      <4>2. \E w \in Views : Appends(hist, hist', Claimed, [seq |-> hi, down |-> FALSE], w)
        BY <3>1, <4>1, CasEffect
      <4>3. hi \in Int
        BY <3>1, <4>1, ClaimFacts
      <4>4. [seq |-> hi, down |-> FALSE] \in ValuesOf(Claimed)
        BY <4>3 DEF ValuesOf
      <4> QED
        BY <4>2, <4>4
    <3>2. CASE CloseStore(s)
      <4>1. \E w \in Views :
              Appends(hist, hist', Claimed, [seq |-> cl[s].val, down |-> cl[s].val # -1], w)
        BY <3>2, CloseStoreEffect
      <4>2. [seq |-> cl[s].val, down |-> cl[s].val # -1] \in ValuesOf(Claimed)
        BY DEF TypeOK, LocalsOK, ValuesOf
      <4> QED
        BY <4>1, <4>2
    <3> QED
      BY <2>4, <3>1, <3>2
  <2>6. /\ Last(Claimed)' = Last(Claimed) + 1
        /\ \A k \in 1 .. Last(Claimed) : hist'[Claimed][k] = hist[Claimed][k]
    BY <2>5 DEF Appends
  <2>7. hist'[Claimed][Last(Claimed) + 1].val.seq = Highest'
    BY <2>6 DEF Highest
  <2>8. Highest' < SHUTDOWN_OPEN /\ -1 <= Highest' /\ (Shut' => Highest' # -1)
    <3>1. CASE CasClaim(s)
      <4>1. PICK hi, g : /\ hi = att[s].last + MinOf(AvailableSlots(att[s].last, att[s].gmin), att[s].want)
                         /\ g = att[s].gmin
        OBVIOUS
      <4>2. Highest' = hi /\ hi < SHUTDOWN_OPEN
        BY <3>1, <4>1, ClaimFacts
      <4>3. hist'[Claimed][Last(Claimed) + 1].val = [seq |-> hi, down |-> FALSE]
        BY <3>1, <4>1, ClaimFacts
      <4>4. ~Shut'
        BY <2>6, <4>3 DEF Shut
      <4>5. -1 <= Highest'
        BY <1>1
      <4> QED
        BY <4>2, <4>4, <4>5
    <3>2. CASE CloseStore(s)
      <4>1. Highest' = Highest /\ Shut' = (Highest # -1)
        BY <3>2, CloseStoreFacts
      <4>2. Highest < SHUTDOWN_OPEN
        BY <1>1
      <4>3. Highest' < SHUTDOWN_OPEN /\ -1 <= Highest'
        BY <1>1, <4>1, <4>2
      <4>4. Shut' => Highest' # -1
        BY <4>1
      <4> QED
        BY <4>3, <4>4
    <3> QED
      BY <2>4, <3>1, <3>2
  <2>9. ASSUME NEW k \in 1 .. Last(Claimed)' PROVE hist'[Claimed][k].val.seq \in -1 .. Highest'
    <3>1. CASE k = Last(Claimed) + 1
      BY <1>1, <2>7, <2>8, <3>1
    <3>2. CASE k # Last(Claimed) + 1
      <4>1. k \in 1 .. Last(Claimed)
        BY <1>1, <2>6, <3>2
      <4>2. hist'[Claimed][k] = hist[Claimed][k]
        BY <2>6, <4>1
      <4>3. hist[Claimed][k].val.seq \in -1 .. Highest
        BY <1>1, <4>1
      <4>4. -1 .. Highest \subseteq -1 .. Highest'
        BY <1>1
      <4> QED
        BY <4>2, <4>3, <4>4
    <3> QED
      BY <3>1, <3>2
  <2> QED
    BY <2>8, <2>9 DEF ClaimsSound
<1> QED
  BY <1>2, <1>3

\* Claims stay disjoint and within one ring, and what nobody holds is published.
LEMMA HoldsKept ==
  ASSUME TypeOK, IndInv, [Next]_vars
  PROVE  HoldsSound'
<1>0. /\ HoldsSound /\ LocalsOK /\ LocalsOK' /\ MemoryOK /\ MemoryOK' /\ Grows
      /\ Highest \in Int /\ Highest' \in Int /\ Highest <= Highest' /\ Capacity \in Nat \ {0}
      /\ -1 <= Highest
  <2>1. -1 <= Highest
    <3>1. Last(Claimed) \in 1 .. Last(Claimed)
      BY NewestTypes DEF Locations, TypeOK
    <3> QED
      BY <3>1 DEF IndInv, ClaimsSound, Highest
  <2> QED
    BY <2>1, MemoryKept, LocalsKept, HighestGrows, CapacityAssumption DEF IndInv, TypeOK
<1>1. ASSUME NEW u \in Senders, pc'[u] \notin {"write", "publish"}
      PROVE  own'[u] = NoClaim
  <2>1. CASE UNCHANGED <<pc, own>>
    BY <1>0, <1>1, <2>1 DEF HoldsSound
  <2>2. CASE ~UNCHANGED <<pc, own>>
    <3>1. ASSUME NEW r \in Receivers, ReceiverStep(r) PROVE FALSE
      BY <2>2, <3>1, ReceiverLocals
    <3>2. PICK s \in Senders : SenderStep(s)
      BY <2>2, <3>1 DEF Next, Terminated, vars, senderVars
    <3>3. CASE u = s
      <4>1. ~CasClaim(s)
        BY <1>1, <3>3, ClaimFacts
      <4> QED
        BY <1>1, <3>2, <3>3, <4>1, OwnStep
    <3>4. CASE u # s
      BY <1>0, <1>1, <3>2, <3>4, SenderLocals DEF HoldsSound
    <3> QED
      BY <3>3, <3>4
  <2> QED
    BY <2>1, <2>2
<1>2. ASSUME NEW u \in Senders, NEW x \in Held(own'[u], pc'[u])
      PROVE  x \in 0 .. Highest' /\ x \in Int
  <2>1. x \in Int
    <3>1. own'[u].lo \in Int /\ own'[u].hi \in Int
      BY <1>0 DEF LocalsOK
    <3> QED
      BY <3>1 DEF Held
  <2>2. CASE x \in Holds(u)
    BY <1>0, <2>1, <2>2 DEF HoldsSound
  <2>3. CASE Highest < x /\ x <= Highest'
    BY <1>0, <2>1, <2>3
  <2> QED
    BY <2>1, <2>2, <2>3, HeldGrows
<1>3. ASSUME NEW u \in Senders, NEW v \in Senders,
             NEW x \in Held(own'[u], pc'[u]), NEW y \in Held(own'[v], pc'[v])
      PROVE  x - y < Capacity /\ (u # v => x # y)
  <2>0. x \in Int /\ y \in Int
    BY <1>2
  <2>1. CASE x \in Holds(u) /\ y \in Holds(v)
    BY <1>0, <2>1 DEF HoldsSound
  <2>2. CASE ~(x \in Holds(u) /\ y \in Holds(v))
    <3>1. Highest < x \/ Highest < y
      BY <2>2, HeldGrows
    <3>2. PICK s \in Senders : CasClaim(s)
      BY <1>0, <1>2, <2>0, <3>1, HighestGrows
    <3>3. SenderStep(s)
      BY <3>2 DEF SenderStep
    <3>4. PICK g : g = att[s].gmin
      OBVIOUS
    <3>5. /\ g \in -1 .. Highest /\ Highest' <= g + Capacity /\ CursorKnown(cur[s], g)
          /\ own'[s] = [lo |-> Highest + 1, hi |-> Highest', nxt |-> Highest + 1]
      BY <3>2, <3>4, ClaimFacts
    <3>6. \A z \in Held(own'[s], pc'[s]) : Highest < z /\ z <= Highest'
      BY <1>0, <3>5 DEF Held
    <3>7. \A w \in Senders \ {s} : Held(own'[w], pc'[w]) = Holds(w)
      BY <3>3, SenderLocals
    <3>8. \A w \in Senders : \A z \in Holds(w) : g < z /\ z <= Highest
      BY <1>0, <3>5 DEF CursorKnown, HoldsSound
    <3>9. CASE u = s /\ v = s
      BY <1>0, <2>0, <3>5, <3>6, <3>9
    <3>10. CASE u = s /\ v # s
      <4>1. Highest < x /\ x <= Highest' /\ g < y /\ y <= Highest
        BY <3>6, <3>7, <3>8, <3>10
      <4> QED
        BY <1>0, <2>0, <3>5, <4>1
    <3>11. CASE u # s /\ v = s
      <4>1. x <= Highest /\ Highest < y
        BY <3>6, <3>7, <3>8, <3>11
      <4> QED
        BY <1>0, <2>0, <4>1
    <3>12. CASE u # s /\ v # s
      BY <2>2, <3>7, <3>12
    <3> QED
      BY <3>9, <3>10, <3>11, <3>12
  <2> QED
    BY <2>1, <2>2
<1>4. ASSUME NEW x \in 0 .. Highest'
      PROVE  \/ \E u \in Senders : x \in Held(own'[u], pc'[u])
             \/ Pos(x) <= Last(State(IndexOf(x)))'
  <2>0. /\ x \in Int /\ State(IndexOf(x)) \in Locations /\ Pos(x) \in Int
        /\ Last(State(IndexOf(x))) \in Nat /\ Last(State(IndexOf(x)))' \in Nat
        /\ Last(State(IndexOf(x))) <= Last(State(IndexOf(x)))'
    <3>1. x \in Int /\ State(IndexOf(x)) \in Locations /\ Pos(x) \in Int
      BY <1>0, PosType DEF Locations
    <3>2. Last(State(IndexOf(x))) \in Nat
      BY <1>0, <3>1, MemoryTypes
    <3>3. Last(State(IndexOf(x)))' \in Nat
      BY <1>0, <3>1 DEF MemoryOK
    <3> QED
      BY <1>0, <3>1, <3>2, <3>3 DEF Grows
  <2>1. CASE x <= Highest /\ Pos(x) <= Last(State(IndexOf(x)))
    BY <2>0, <2>1
  <2>2. ASSUME NEW u \in Senders, x \in Holds(u)
        PROVE  x \in Held(own'[u], pc'[u]) \/ Pos(x) <= Last(State(IndexOf(x)))'
    <3>1. CASE UNCHANGED <<pc, own>>
      BY <2>2, <3>1
    <3>2. CASE ~UNCHANGED <<pc, own>>
      <4>1. ASSUME NEW r \in Receivers, ReceiverStep(r) PROVE FALSE
        BY <3>2, <4>1, ReceiverLocals
      <4>2. PICK s \in Senders : SenderStep(s)
        BY <3>2, <4>1 DEF Next, Terminated, vars, senderVars
      <4>3. CASE u # s
        BY <2>2, <4>2, <4>3, SenderLocals
      <4>4. CASE u = s
        <5>1. x \in Held(own'[s], pc'[s]) \/ (PublishSlot(s) /\ x = own[s].nxt)
          BY <2>2, <4>2, <4>4, HoldsStep
        <5>2. ASSUME PublishSlot(s), x = own[s].nxt PROVE Pos(x) <= Last(State(IndexOf(x)))'
          <6>1. PICK l : l = State(IndexOf(x))
            OBVIOUS
          <6>2. Appends(hist, hist', l, [flag |-> AvailableFlag(x), down |-> FALSE],
                        [rel[s] EXCEPT ![l] = Last(l) + 1])
            BY <5>2, <6>1, PublishEffect
          <6>3. Len(hist'[l]) = Last(l) + 1
            BY <6>2 DEF Appends
          <6>4. Last(State(IndexOf(x))) = Pos(x) - 1
            BY <2>2, <4>4 DEF IndInv, WriterSound
          <6> QED
            BY <2>0, <6>1, <6>3, <6>4
        <5> QED
          BY <4>4, <5>1, <5>2
      <4> QED
        BY <4>3, <4>4
    <3> QED
      BY <3>1, <3>2
  <2>3. CASE Highest < x
    <3>1. PICK s \in Senders : CasClaim(s)
      BY <1>0, <2>0, <2>3, HighestGrows
    <3>2. SenderStep(s)
      BY <3>1 DEF SenderStep
    <3> QED
      BY <1>0, <2>0, <2>3, <3>1, <3>2, HoldsStep
  <2>4. x <= Highest => (\E u \in Senders : x \in Holds(u)) \/ Pos(x) <= Last(State(IndexOf(x)))
    BY <1>0, <2>0 DEF HoldsSound
  <2> QED
    BY <1>0, <2>0, <2>1, <2>2, <2>3, <2>4
<1> QED
  BY <1>1, <1>2, <1>3, <1>4 DEF HoldsSound

\* The writes of a slot follow the laps of its sequences.
LEMMA WrittenKept ==
  ASSUME TypeOK, IndInv, [Next]_vars
  PROVE  WrittenSound'
<1>0. MemoryOK /\ MemoryOK' /\ Highest \in Int /\ Highest' \in Int /\ Highest <= Highest'
  BY MemoryKept, HighestGrows DEF TypeOK
<1>1. SUFFICES ASSUME NEW i \in Slots, NEW k \in 2 .. Len(hist'[Written(i)])
               PROVE  /\ IndexOf(hist'[Written(i)][k].val) = i
                      /\ Pos(hist'[Written(i)][k].val) = k
                      /\ hist'[Written(i)][k].val \in 0 .. Highest'
  BY DEF WrittenSound
<1>2. Written(i) \in Locations /\ Last(Written(i)) \in Nat /\ Last(Written(i)) >= 1
  BY <1>0, MemoryTypes DEF Locations
<1>3. ASSUME k \in 2 .. Last(Written(i)), hist'[Written(i)][k] = hist[Written(i)][k]
      PROVE  /\ IndexOf(hist'[Written(i)][k].val) = i
             /\ Pos(hist'[Written(i)][k].val) = k
             /\ hist'[Written(i)][k].val \in 0 .. Highest'
  <2>1. /\ IndexOf(hist[Written(i)][k].val) = i /\ Pos(hist[Written(i)][k].val) = k
        /\ hist[Written(i)][k].val \in 0 .. Highest
    BY <1>3 DEF IndInv, WrittenSound
  <2> QED
    BY <1>0, <1>3, <2>1
<1>4. CASE hist'[Written(i)] = hist[Written(i)]
  BY <1>2, <1>3, <1>4
<1>5. CASE hist'[Written(i)] # hist[Written(i)]
  <2>1. ~UNCHANGED vars
    BY <1>5 DEF vars, memVars
  <2>2. ASSUME NEW r \in Receivers, ReceiverStep(r) PROVE FALSE
    BY <1>2, <1>5, <2>2, ReceiverHist DEF Written, ReadBy, Consumed
  <2>3. PICK s \in Senders : SenderStep(s)
    BY <2>1, <2>2 DEF Next, Terminated
  <2>4. Written(i) = Written(IndexOf(own[s].nxt)) /\ FillSlot(s)
    BY <1>2, <1>5, <2>3, SenderHist DEF Claimed, Refs, Written, State
  <2>5. PICK x, l : x = own[s].nxt /\ l = Written(IndexOf(x))
    OBVIOUS
  <2>6. l = Written(i) /\ IndexOf(x) = i
    BY <2>4, <2>5 DEF Written
  <2>7. \E w \in Views : Appends(hist, hist', l, x, w)
    BY <2>4, <2>5, FillEffect
  <2>8. /\ Len(hist'[l]) = Last(l) + 1 /\ \A j \in 1 .. Last(l) : hist'[l][j] = hist[l][j]
        /\ hist'[l][Last(l) + 1].val = x
    BY <2>7 DEF Appends
  <2>9. /\ pc[s] = "write" /\ own[s].nxt <= own[s].hi
        /\ own[s].lo \in Int /\ own[s].hi \in Int /\ own[s].nxt \in Int
    BY <2>4 DEF FillSlot, TypeOK, LocalsOK
  <2>10. own[s].lo <= own[s].nxt
    BY <2>9 DEF IndInv, WriterSound
  <2>11. x \in own[s].nxt .. own[s].hi /\ x \in Holds(s)
    BY <2>5, <2>9, <2>10 DEF Held
  <2>12. x \in 0 .. Highest /\ Last(Written(i)) = Pos(x) - 1
    BY <2>6, <2>9, <2>11 DEF IndInv, WriterSound, HoldsSound
  <2>13. x \in Int /\ Pos(x) \in Int
    BY <2>12, <1>0, PosType
  <2>14. CASE k = Last(l) + 1
    BY <1>0, <1>2, <2>6, <2>8, <2>12, <2>13, <2>14
  <2>15. CASE k # Last(l) + 1
    BY <1>2, <1>3, <2>6, <2>8, <2>15
  <2> QED
    BY <2>14, <2>15
<1> QED
  BY <1>4, <1>5

\* The sequence a sender writes or publishes next is one it holds.
LEMMA NextIsHeld ==
  ASSUME TypeOK, IndInv, NEW s \in Senders, FillSlot(s) \/ PublishSlot(s), NEW x, x = own[s].nxt
  PROVE  /\ x \in Holds(s) /\ x \in Int /\ x \in 0 .. Highest /\ x \in own[s].nxt .. own[s].hi
         /\ IndexOf(x) \in Slots /\ Pos(x) \in Int /\ Pos(x) >= 2
         /\ Last(State(IndexOf(x))) = Pos(x) - 1
         /\ FillSlot(s) => pc[s] = "write" /\ Last(Written(IndexOf(x))) = Pos(x) - 1
         /\ PublishSlot(s) => pc[s] = "publish" /\ rel[s][Written(IndexOf(x))] >= Pos(x)
<1>1. /\ pc[s] \in {"write", "publish"}
      /\ FillSlot(s) => pc[s] = "write" /\ x <= own[s].hi
      /\ PublishSlot(s) => pc[s] = "publish"
      /\ own[s].lo \in Int /\ own[s].hi \in Int /\ own[s].nxt \in Int
  BY DEF FillSlot, PublishSlot, TypeOK, LocalsOK
<1>2. own[s].lo <= own[s].nxt /\ own[s].nxt <= own[s].hi
  BY <1>1 DEF IndInv, WriterSound
<1>3. x \in own[s].nxt .. own[s].hi /\ x \in Holds(s) /\ x \in Int
  BY <1>1, <1>2 DEF Held
<1>4. x \in 0 .. Highest
  BY <1>3 DEF IndInv, HoldsSound
<1>5. IndexOf(x) \in Slots /\ Pos(x) \in Int /\ Pos(x) >= 2
  BY <1>3, <1>4, PosType
<1>6. Last(State(IndexOf(x))) = Pos(x) - 1
  BY <1>3 DEF IndInv, WriterSound
<1>7. FillSlot(s) => Last(Written(IndexOf(x))) = Pos(x) - 1
  BY <1>1, <1>3 DEF IndInv, WriterSound
<1>8. PublishSlot(s) => rel[s][Written(IndexOf(x))] >= Pos(x)
  BY <1>1, <1>3 DEF IndInv, WriterSound
<1> QED
  BY <1>1, <1>3, <1>4, <1>5, <1>6, <1>7, <1>8

\* A state word that carries a write is about the sequence of its position.
LEMMA WordOfWrite ==
  ASSUME TypeOK, IndInv, NEW i \in Slots, NEW k \in 2 .. Last(State(i)), CarriesWrite(i, k)
  PROVE  \E x \in 0 .. Highest :
           /\ IndexOf(x) = i /\ Pos(x) = k /\ hist[Written(i)][k].val = x
           /\ k <= Last(Written(i))
           /\ ~hist[State(i)][k].val.down /\ hist[State(i)][k].val.flag = AvailableFlag(x)
           /\ hist[State(i)][k].view[Written(i)] >= k
<1>1. /\ ~hist[State(i)][k].val.down /\ k <= Last(Written(i))
      /\ hist[State(i)][k].val.flag = AvailableFlag(hist[Written(i)][k].val)
      /\ hist[State(i)][k].view[Written(i)] >= k
  BY DEF CarriesWrite
<1>2. Last(Written(i)) \in Nat
  BY MemoryTypes DEF TypeOK, Locations
<1>3. k \in 2 .. Last(Written(i))
  BY <1>1, <1>2
<1>4. /\ IndexOf(hist[Written(i)][k].val) = i /\ Pos(hist[Written(i)][k].val) = k
      /\ hist[Written(i)][k].val \in 0 .. Highest
  BY <1>3 DEF IndInv, WrittenSound
<1> QED
  BY <1>1, <1>4

\* While the last sender closes, nothing is held: each slot's newest word is that
\* of its last claimed sequence, or the word it was built with.
LEMMA AllPublished ==
  ASSUME TypeOK, IndInv, NEW s \in Senders, pc[s] \in {"cload", "cscan", "cmark"},
         NEW y \in (Highest - Capacity + 1) .. Highest, NEW i, i = IndexOf(y)
  PROVE  /\ y \in Int /\ i \in Slots /\ Last(State(i)) = Pos(y) /\ Pos(y) >= 1
         /\ y >= 0 => /\ Pos(y) >= 2 /\ ~Newest(State(i)).val.down
                      /\ Newest(State(i)).val.flag = AvailableFlag(y)
                      /\ Newest(State(i)).view[Written(i)] >= Pos(y)
         /\ y < 0 => Last(State(i)) = 1
<1>1. Highest \in Int /\ -1 <= Highest
  <2>1. Last(Claimed) \in 1 .. Last(Claimed) /\ Highest \in Int
    BY NewestTypes, WordTypes DEF Locations, TypeOK
  <2> QED
    BY <2>1 DEF IndInv, ClaimsSound, Highest
<1>2. y \in Int /\ i \in Slots /\ Pos(y) \in Int /\ State(i) \in Locations
  BY <1>1, PosType, CapacityAssumption DEF Locations
<1>3. Last(State(i)) \in Nat /\ Last(State(i)) >= 1
  BY <1>2, MemoryTypes DEF TypeOK
<1>4. \A u \in Senders : Holds(u) = {}
  <2>1. \A u \in Senders : pc[u] \notin {"write", "publish"}
    BY DEF IndInv, CloserSound
  <2> QED
    BY <2>1 DEF IndInv, HoldsSound, Held, NoClaim
<1>5. Last(State(i)) >= 2 => CarriesWrite(i, Last(State(i)))
  <2>1. PICK k : k = Last(State(i))
    OBVIOUS
  <2>2. k >= 2 => CarriesWrite(i, k)
    <3>1. ASSUME k >= 2, CarriesShutdown(i, k) PROVE FALSE
      BY <3>1 DEF CarriesShutdown
    <3>2. k >= 2 => k \in 2 .. Last(State(i))
      BY <1>3, <2>1
    <3> QED
      BY <1>2, <3>1, <3>2 DEF IndInv, StateSound
  <2> QED
    BY <2>1, <2>2 DEF CarriesWrite
<1>6. PICK k : k = Last(State(i))
  OBVIOUS
<1>7. ASSUME k >= 2
      PROVE  \E x \in 0 .. Highest :
               /\ IndexOf(x) = i /\ Pos(x) = k
               /\ ~hist[State(i)][k].val.down /\ hist[State(i)][k].val.flag = AvailableFlag(x)
               /\ hist[State(i)][k].view[Written(i)] >= k
  <2>1. k \in 2 .. Last(State(i)) /\ CarriesWrite(i, k)
    BY <1>3, <1>5, <1>6, <1>7 DEF CarriesWrite
  <2> QED
    BY <1>2, <2>1, WordOfWrite
<1>8. CASE y >= 0
  <2>1. y \in 0 .. Highest /\ Pos(y) >= 2
    BY <1>1, <1>2, <1>8, PosType
  <2>2. Pos(y) <= k
    BY <1>4, <1>6, <2>1 DEF IndInv, HoldsSound
  <2>3. k >= 2
    BY <1>2, <1>3, <1>6, <2>1, <2>2
  <2>4. PICK x \in 0 .. Highest :
          /\ IndexOf(x) = i /\ Pos(x) = k
          /\ ~hist[State(i)][k].val.down /\ hist[State(i)][k].val.flag = AvailableFlag(x)
          /\ hist[State(i)][k].view[Written(i)] >= k
    BY <1>7, <2>3
  <2>5. x = y
    <3>1. /\ x \in Int /\ (x < y <=> Pos(x) < Pos(y)) /\ (y < x => y + Capacity <= x)
      BY <1>1, <1>2, <2>4, PosOrder
    <3> QED
      BY <1>1, <1>2, <1>3, <1>6, <2>2, <2>4, <3>1, CapacityAssumption
  <2> QED
    BY <1>2, <1>6, <1>8, <2>1, <2>4, <2>5
<1>9. CASE y < 0
  <2>1. y + Capacity \in 0 .. (Capacity - 1)
    BY <1>1, <1>2, <1>9, CapacityAssumption
  <2>2. Pos(y) = 1
    <3>1. Pos(y + Capacity) = 2 /\ Pos(y + Capacity) = Pos(y) + 1
      BY <1>2, <2>1, PosFirstLap, PosShift
    <3> QED
      BY <1>2, <3>1
  <2>3. ~(k >= 2)
    <3>1. SUFFICES ASSUME k >= 2 PROVE FALSE
      OBVIOUS
    <3>2. PICK x \in 0 .. Highest : IndexOf(x) = i
      BY <1>7, <3>1
    <3>3. x \in Int /\ (y < x => y + Capacity <= x)
      BY <1>1, <1>2, <3>2, PosOrder
    <3> QED
      BY <1>1, <1>2, <1>9, <3>2, <3>3, CapacityAssumption
  <2>4. k = 1
    <3>1. k \in Nat /\ k >= 1
      BY <1>3, <1>6
    <3> QED
      BY <2>3, <3>1
  <2> QED
    BY <1>2, <1>6, <1>9, <2>2, <2>4
<1> QED
  BY <1>2, <1>8, <1>9

\* Once the shutdown bit is set, no sender does more than end its close.
LEMMA ClosedStays ==
  ASSUME TypeOK, IndInv, [Next]_vars, Closed
  PROVE  /\ Closed' /\ Highest' = Highest
         /\ \A i \in Slots : hist'[State(i)] = hist[State(i)]
<1>1. CASE UNCHANGED <<pc, hist>>
  BY <1>1 DEF Closed, Highest
<1>2. ASSUME NEW r \in Receivers, ReceiverStep(r)
      PROVE  /\ Closed' /\ Highest' = Highest
             /\ \A i \in Slots : hist'[State(i)] = hist[State(i)]
  <2>1. Claimed \in Locations /\ \A i \in Slots : State(i) \in Locations
    BY DEF Locations
  <2>2. hist'[Claimed] = hist[Claimed] /\ \A i \in Slots : hist'[State(i)] = hist[State(i)]
    BY <1>2, <2>1, ReceiverHist DEF Claimed, State, ReadBy, Consumed
  <2>3. pc' = pc
    BY <1>2, ReceiverLocals
  <2> QED
    BY <2>2, <2>3 DEF Closed, Highest
<1>3. ASSUME NEW s \in Senders, SenderStep(s)
      PROVE  /\ Closed' /\ Highest' = Highest
             /\ \A i \in Slots : hist'[State(i)] = hist[State(i)]
  <2>1. pc[s] \in {"cstore", "dropped"}
    BY DEF Closed
  <2>2. CloseStore(s)
    BY <1>3, <2>1 DEF SenderStep, StartClaim, LoadConsumed, CasClaim, CasRetry, FillSlot,
       StartPublish, PublishSlot, DropSender, CloseLoad, CloseScan, CloseMark
  <2>3. pc'[s] = "dropped" /\ Highest' = Highest
    BY <2>2, CloseStoreFacts
  <2>4. \A u \in Senders \ {s} : pc'[u] = pc[u]
    BY <1>3, SenderLocals
  <2>5. \E w \in Views :
          Appends(hist, hist', Claimed, [seq |-> cl[s].val, down |-> cl[s].val # -1], w)
    BY <2>2, CloseStoreEffect
  <2>6. \A i \in Slots : hist'[State(i)] = hist[State(i)]
    BY <2>5 DEF Appends, Locations, State, Claimed
  <2> QED
    BY <2>3, <2>4, <2>6 DEF Closed
<1> QED
  BY <1>1, <1>2, <1>3 DEF Next, Terminated, vars, memVars, senderVars

\* Each state word hands on the write of its sequence, or is the shutdown bit.
LEMMA StateKept ==
  ASSUME TypeOK, IndInv, [Next]_vars
  PROVE  StateSound'
<1>0. /\ MemoryOK /\ MemoryOK' /\ Grows /\ StateSound /\ Highest \in Int
      /\ \A i \in Slots : /\ State(i) \in Locations /\ Written(i) \in Locations
                          /\ Last(State(i)) \in Nat /\ Last(State(i)) >= 1
                          /\ Last(Written(i)) \in Nat /\ Len(hist'[Written(i)]) \in Nat
                          /\ Len(hist'[State(i)]) \in Nat
  <2>1. MemoryOK /\ MemoryOK' /\ Grows /\ StateSound /\ Highest \in Int
    BY MemoryKept, HighestGrows DEF TypeOK, IndInv
  <2>2. \A i \in Slots : State(i) \in Locations /\ Written(i) \in Locations
    BY DEF Locations
  <2>3. \A l \in Locations : Last(l) \in Nat /\ Last(l) >= 1
    BY <2>1, MemoryTypes
  <2>4. \A l \in Locations : Len(hist'[l]) \in Nat
    BY <2>1 DEF MemoryOK
  <2> QED
    BY <2>1, <2>2, <2>3, <2>4
<1>1. SUFFICES ASSUME NEW i \in Slots
               PROVE  /\ hist'[State(i)][1].val = [flag |-> EmptyFlag, down |-> FALSE]
                      /\ \A k \in 2 .. Len(hist'[State(i)]) :
                           CarriesWrite(i, k)' \/ CarriesShutdown(i, k)'
  BY DEF StateSound, CarriesWrite, CarriesShutdown
<1>2. hist'[State(i)][1].val = [flag |-> EmptyFlag, down |-> FALSE]
  <2>1. 1 \in 1 .. Last(State(i))
    BY <1>0
  <2>2. hist'[State(i)][1] = hist[State(i)][1]
    BY <1>0, <2>1 DEF Grows
  <2> QED
    BY <1>0, <2>2 DEF StateSound
<1>3. ASSUME NEW k \in 2 .. Last(State(i)), CarriesWrite(i, k)
      PROVE  CarriesWrite(i, k)'
  <2>1. /\ ~hist[State(i)][k].val.down /\ k <= Last(Written(i))
        /\ hist[State(i)][k].val.flag = AvailableFlag(hist[Written(i)][k].val)
        /\ hist[State(i)][k].view[Written(i)] >= k
    BY <1>3 DEF CarriesWrite
  <2>2. hist'[State(i)][k] = hist[State(i)][k]
    BY <1>0 DEF Grows
  <2>3. k <= Len(hist'[Written(i)]) /\ hist'[Written(i)][k] = hist[Written(i)][k]
    BY <1>0, <2>1 DEF Grows
  <2> QED
    BY <2>1, <2>2, <2>3 DEF CarriesWrite
<1>4. ASSUME NEW k \in 2 .. Last(State(i)), CarriesShutdown(i, k)
      PROVE  CarriesShutdown(i, k)'
  <2>1. Closed
    BY <1>4 DEF CarriesShutdown, Closed
  <2>2. Closed' /\ Highest' = Highest /\ hist'[State(i)] = hist[State(i)]
    BY <2>1, ClosedStays
  <2> QED
    BY <1>4, <2>2 DEF CarriesShutdown, Closed
<1>5. ASSUME hist'[State(i)] # hist[State(i)]
      PROVE  /\ Len(hist'[State(i)]) = Last(State(i)) + 1
             /\ \A k : k = Last(State(i)) + 1 => CarriesWrite(i, k)' \/ CarriesShutdown(i, k)'
  <2>1. ~UNCHANGED vars
    BY <1>5 DEF vars, memVars
  <2>2. ASSUME NEW r \in Receivers, ReceiverStep(r) PROVE FALSE
    BY <1>0, <1>5, <2>2, ReceiverHist DEF State, ReadBy, Consumed
  <2>3. PICK s \in Senders : SenderStep(s)
    BY <2>1, <2>2 DEF Next, Terminated
  <2>4. \/ PublishSlot(s) /\ State(i) = State(IndexOf(own[s].nxt))
        \/ CloseMark(s) /\ State(i) = State(IndexOf(cl[s].pos))
    BY <1>0, <1>5, <2>3, SenderHist DEF Claimed, Refs, Written, State
  <2>5. CASE PublishSlot(s) /\ State(i) = State(IndexOf(own[s].nxt))
    <3>1. PICK x, l : x = own[s].nxt /\ l = State(IndexOf(x))
      OBVIOUS
    <3>2. l = State(i) /\ IndexOf(x) = i
      BY <2>5, <3>1 DEF State
    <3>3. /\ Appends(hist, hist', l, [flag |-> AvailableFlag(x), down |-> FALSE],
                     [rel[s] EXCEPT ![l] = Last(l) + 1])
          /\ rel[s] \in Views
      BY <2>5, <3>1, PublishEffect
    <3>4. /\ x \in 0 .. Highest /\ x \in Int /\ Pos(x) \in Int /\ Pos(x) >= 2
          /\ Last(State(i)) = Pos(x) - 1 /\ rel[s][Written(i)] >= Pos(x)
      BY <2>5, <3>1, <3>2, NextIsHeld
    <3>5. PICK k : k = Pos(x)
      OBVIOUS
    <3>6. k <= Last(Written(i)) /\ k \in 2 .. Last(Written(i))
      <4>1. rel[s][Written(i)] \in 1 .. cur[s][Written(i)] /\ cur[s][Written(i)] \in 1 .. Last(Written(i))
        BY <1>0, MemoryTypes DEF Threads
      <4> QED
        BY <1>0, <3>4, <3>5, <4>1
    <3>7. hist[Written(i)][k].val = x
      <4>1. PICK z : z = hist[Written(i)][k].val
        OBVIOUS
      <4>2. IndexOf(z) = i /\ Pos(z) = k /\ z \in 0 .. Highest
        BY <3>6, <4>1 DEF IndInv, WrittenSound
      <4>3. z = x
        <5>1. z \in Int
          BY <1>0, <4>2
        <5> QED
          BY <3>2, <3>4, <3>5, <4>2, <5>1, PosOrder
      <4> QED
        BY <4>1, <4>3
    <3>8. /\ Len(hist'[State(i)]) = k
          /\ hist'[State(i)][k] = [val |-> [flag |-> AvailableFlag(x), down |-> FALSE],
                                   view |-> [rel[s] EXCEPT ![l] = k]]
      <4>1. Last(l) + 1 = k
        BY <1>0, <3>2, <3>4, <3>5
      <4> QED
        BY <3>2, <3>3, <4>1 DEF Appends
    <3>9. hist'[State(i)][k].view[Written(i)] = rel[s][Written(i)]
      <4>1. Written(i) # l
        BY <3>2 DEF Written, State
      <4> QED
        BY <1>0, <3>3, <3>8, <4>1 DEF Views
    <3>10. k <= Len(hist'[Written(i)]) /\ hist'[Written(i)][k].val = x
      BY <1>0, <3>6, <3>7 DEF Grows
    <3>11. CarriesWrite(i, k)'
      BY <3>4, <3>5, <3>8, <3>9, <3>10 DEF CarriesWrite
    <3>12. Last(State(i)) + 1 = k
      BY <1>0, <3>4, <3>5
    <3> QED
      BY <3>8, <3>11, <3>12 DEF CarriesWrite
  <2>6. CASE CloseMark(s) /\ State(i) = State(IndexOf(cl[s].pos))
    <3>1. PICK x, l : x = cl[s].pos /\ l = State(IndexOf(x))
      OBVIOUS
    <3>2. l = State(i) /\ IndexOf(x) = i
      BY <2>6, <3>1 DEF State
    <3>3. PICK w \in Views :
            /\ Appends(hist, hist', l, [flag |-> Newest(l).val.flag, down |-> TRUE], w)
            /\ \A m \in Locations : w[m] >= Newest(l).view[m]
      BY <2>6, <3>1, MarkEffect
    <3>4. pc[s] = "cmark" /\ pc'[s] = "cstore"
      BY <2>6 DEF CloseMark, Go, TypeOK, LocalsOK
    <3>5. x = Highest + 1 /\ \A u \in Senders \ {s} : pc[u] = "dropped"
      BY <3>1, <3>4 DEF IndInv, CloserSound
    <3>6. PICK y : y = x - Capacity
      OBVIOUS
    <3>7. /\ y \in (Highest - Capacity + 1) .. Highest /\ y \in Int
          /\ IndexOf(y) = i /\ Pos(x) = Pos(y) + 1 /\ Pos(x) \in Int
      <4>1. x \in Int /\ y \in Int /\ y \in (Highest - Capacity + 1) .. Highest
        BY <1>0, <3>5, <3>6, CapacityAssumption
      <4> QED
        BY <3>2, <3>6, <4>1, PosShift, PosType
    <3>8. /\ Last(State(i)) = Pos(y)
          /\ y >= 0 => ~Newest(State(i)).val.down /\ Newest(State(i)).view[Written(i)] >= Pos(y)
          /\ y < 0 => Last(State(i)) = 1
      BY <3>4, <3>7, AllPublished
    <3>9. PICK k : k = Last(State(i)) + 1
      OBVIOUS
    <3>10. /\ ~hist[State(i)][k - 1].val.down /\ hist[State(i)][k - 1].view[Written(i)] >= k - 1
      <4>1. k - 1 = Last(State(i))
        BY <1>0, <3>9
      <4>2. CASE y >= 0
        BY <3>8, <4>1, <4>2
      <4>3. CASE y < 0
        <5>1. k - 1 = 1
          BY <3>8, <4>1, <4>3
        <5>2. 1 \in 1 .. Last(State(i))
          BY <1>0
        <5>3. hist[State(i)][1].view[Written(i)] \in 1 .. Last(Written(i))
          BY <1>0, <5>2, MemoryTypes
        <5> QED
          BY <1>0, <5>1, <5>3 DEF StateSound
      <4> QED
        BY <3>7, <4>2, <4>3
    <3>11. /\ Len(hist'[State(i)]) = k /\ k - 1 = Last(State(i))
           /\ hist'[State(i)][k] = [val |-> [flag |-> Newest(l).val.flag, down |-> TRUE], view |-> w]
           /\ hist'[State(i)][k - 1] = hist[State(i)][k - 1]
      BY <1>0, <3>2, <3>3, <3>9 DEF Appends
    <3>12. w[Written(i)] >= k - 1
      <4>1. w[Written(i)] >= hist[State(i)][k - 1].view[Written(i)]
        BY <1>0, <3>2, <3>3, <3>11
      <4>2. w[Written(i)] \in Int /\ k - 1 \in Int /\ hist[State(i)][k - 1].view[Written(i)] \in Int
        <5>1. k - 1 \in 1 .. Last(State(i)) /\ k - 1 \in Int
          BY <1>0, <3>11
        <5>2. hist[State(i)][k - 1].view[Written(i)] \in 1 .. Last(Written(i))
          BY <1>0, <5>1, MemoryTypes
        <5> QED
          BY <1>0, <5>1, <5>2 DEF Views
      <4> QED
        BY <3>10, <4>1, <4>2
    <3>13. Highest' = Highest
      BY <3>2, <3>3 DEF Appends, Highest, Locations, Claimed, State
    <3>14. \A u \in Senders : pc'[u] \in {"cstore", "dropped"}
      BY <2>3, <3>4, <3>5, SenderLocals
    <3>15. Pos(Highest + 1) = k /\ IndexOf(Highest + 1) = i
      BY <1>0, <3>2, <3>5, <3>7, <3>8, <3>9
    <3>16. CarriesShutdown(i, k)'
      BY <3>2, <3>10, <3>11, <3>12, <3>13, <3>14, <3>15 DEF CarriesShutdown
    <3> QED
      BY <3>9, <3>11, <3>16 DEF CarriesShutdown
  <2> QED
    BY <2>4, <2>5, <2>6
<1>6. ASSUME NEW k \in 2 .. Last(State(i)) PROVE CarriesWrite(i, k)' \/ CarriesShutdown(i, k)'
  BY <1>0, <1>3, <1>4 DEF StateSound
<1>7. CASE hist'[State(i)] = hist[State(i)]
  BY <1>2, <1>6, <1>7 DEF CarriesWrite, CarriesShutdown
<1>8. CASE hist'[State(i)] # hist[State(i)]
  <2>1. ASSUME NEW k \in 2 .. Len(hist'[State(i)])
        PROVE  CarriesWrite(i, k)' \/ CarriesShutdown(i, k)'
    <3>1. CASE k = Last(State(i)) + 1
      BY <1>5, <1>8, <3>1 DEF CarriesWrite, CarriesShutdown
    <3>2. CASE k # Last(State(i)) + 1
      <4>1. k \in 2 .. Last(State(i))
        BY <1>0, <1>5, <1>8, <3>2
      <4> QED
        BY <1>6, <4>1 DEF CarriesWrite, CarriesShutdown
    <3> QED
      BY <3>1, <3>2
  <2> QED
    BY <1>2, <2>1 DEF CarriesWrite, CarriesShutdown
<1> QED
  BY <1>7, <1>8

\* A wider view knows of the reads that a smaller cursor stands for.
LEMMA KnowsReadsLess ==
  ASSUME MemoryOK, NEW r \in Receivers,
         NEW v \in Views, NEW w \in Views, \A l \in Locations : v[l] <= w[l],
         NEW c \in Int, NEW d \in Int, d <= c, KnowsReads(hist, v, r, c)
  PROVE  KnowsReads(hist, w, r, d)
<1>1. ASSUME NEW i \in Slots, NEW j \in 1 .. Len(hist[ReadBy(i, r)]), hist[ReadBy(i, r)][j].val <= d
      PROVE  j <= w[ReadBy(i, r)]
  <2>1. hist[ReadBy(i, r)][j].val \in Int
    BY <1>1, WordTypes
  <2>2. j <= v[ReadBy(i, r)]
    BY <1>1, <2>1 DEF KnowsReads
  <2>3. ReadBy(i, r) \in Locations /\ Last(ReadBy(i, r)) \in Nat
    BY MemoryTypes DEF Locations
  <2>4. v[ReadBy(i, r)] \in Int /\ w[ReadBy(i, r)] \in Int /\ v[ReadBy(i, r)] <= w[ReadBy(i, r)] /\ j \in Int
    BY <2>3 DEF Views
  <2> QED
    BY <2>2, <2>4
<1> QED
  BY <1>1 DEF KnowsReads

\* The gate's load of one cursor joins what that cursor stands for to what is known.
LEMMA GateKept ==
  ASSUME TypeOK, IndInv, [Next]_vars, NEW s \in Senders, LoadConsumed(s), pc'[s] \in {"gate", "cas"},
         NEW g, g = att'[s].gmin
  PROVE  /\ att'[s].want >= 1 /\ att'[s].last \in -1 .. Highest' /\ g <= SHUTDOWN_OPEN
         /\ \A q \in Receivers : q < att'[s].gi \/ pc'[s] = "cas" =>
              KnowsReads(hist', cur'[s], q, g) /\ g <= Cursor(q)'
         /\ g # SHUTDOWN_OPEN =>
              /\ g \in -1 .. Highest' /\ Covers(cur'[s], g)
              /\ \A u \in Senders : \A x \in Held(own'[u], pc'[u]) : g < x
         /\ pc'[s] = "cas" => HasRoom(att'[s].last, g)
<1>1. PICK k \in 1 .. Last(Consumed(att[s].gi)) :
        LET m == hist[Consumed(att[s].gi)][k]
            gmin == MinOf(att[s].gmin, m.val)
        IN /\ MemoryOK' /\ Grows /\ hist' = hist
           /\ \A l \in Locations : cur'[s][l] >= m.view[l]
           /\ \A u \in Threads \ {s} : cur'[u] = cur[u] /\ acq'[u] = acq[u]
           /\ \/ /\ att[s].gi + 1 < NumReceivers /\ UNCHANGED pc
                 /\ att' = [att EXCEPT ![s].gi = att[s].gi + 1, ![s].gmin = gmin]
              \/ /\ att[s].gi + 1 = NumReceivers /\ HasRoom(att[s].last, gmin)
                 /\ att' = [att EXCEPT ![s].gmin = gmin]
                 /\ pc' = [pc EXCEPT ![s] = "cas"]
              \/ /\ att' = [att EXCEPT ![s] = NoAttempt]
                 /\ pc' = [pc EXCEPT ![s] = "idle"]
  BY SenderLoads
<1>2. PICK r \in Receivers : r = att[s].gi
  BY DEF TypeOK, LocalsOK
<1>3. PICK view, val : view = hist[Consumed(r)][k].view /\ val = hist[Consumed(r)][k].val
  OBVIOUS
<1>4. /\ MemoryOK /\ MemoryOK' /\ Grows /\ hist' = hist
      /\ att \in [Senders -> [want : Nat, last : Int, gi : Receivers, gmin : Int]]
      /\ pc \in [Senders -> SenderPlaces] /\ pc[s] = "gate" /\ SHUTDOWN_OPEN \in Nat
      /\ \A q \in Receivers : q \in Nat
  <2>1. pc[s] = "gate"
    BY DEF LoadConsumed
  <2> QED
    <3>1. \A q \in Receivers : q \in Nat
      BY ThreadsAssumption DEF Receivers
    <3>2. MemoryOK /\ LocalsOK
      BY DEF TypeOK
    <3> QED
      BY <1>1, <2>1, <3>1, <3>2, OpenAssumption DEF LocalsOK
<1>5. /\ view \in Views /\ val \in Int /\ Consumed(r) \in Locations /\ k \in 1 .. Last(Consumed(r))
      /\ KnowsReads(hist, view, r, val) /\ val <= Cursor(r)
      /\ val # SHUTDOWN_OPEN => CursorKnown(view, val)
      /\ \A l \in Locations : view[l] <= cur'[s][l]
  <2>1. Consumed(r) \in Locations /\ k \in 1 .. Last(Consumed(r))
    BY <1>1, <1>2 DEF Locations
  <2>2. view \in Views /\ \A l \in Locations : view[l] \in Int
    <3>1. view \in Views
      BY <1>3, <1>4, <2>1, MemoryTypes
    <3> QED
      BY <3>1 DEF Views
  <2>3. val \in Int
    BY <1>3, <1>4, <2>1, WordTypes
  <2>4. /\ KnowsReads(hist, view, r, val) /\ val <= Cursor(r)
        /\ val # SHUTDOWN_OPEN => CursorKnown(view, val)
    BY <1>3, <2>1 DEF IndInv, CursorSound
  <2>5. \A l \in Locations : cur'[s][l] >= view[l]
    BY <1>1, <1>2, <1>3
  <2>6. \A l \in Locations : cur'[s][l] \in Int
    BY <1>4 DEF MemoryOK, Views, Threads
  <2> QED
    BY <2>1, <2>2, <2>3, <2>4, <2>5, <2>6
<1>6. /\ cur[s] \in Views /\ cur'[s] \in Views /\ \A l \in Locations : cur[s][l] <= cur'[s][l]
  BY <1>4 DEF MemoryOK, Grows, Threads
<1>7. /\ att[s].want >= 1 /\ att[s].last \in -1 .. Highest /\ att[s].gmin <= SHUTDOWN_OPEN
      /\ att[s].gmin \in Int /\ att[s].last \in Int
      /\ \A q \in Receivers : q < r => KnowsReads(hist, cur[s], q, att[s].gmin) /\ att[s].gmin <= Cursor(q)
      /\ att[s].gmin # SHUTDOWN_OPEN => CursorKnown(cur[s], att[s].gmin)
  BY <1>2, <1>4 DEF IndInv, AttemptSound
<1>8. /\ g = MinOf(att[s].gmin, val)
      /\ att'[s].want = att[s].want /\ att'[s].last = att[s].last
      /\ \A q \in Receivers : q < att'[s].gi \/ pc'[s] = "cas" => q <= r
      /\ pc'[s] = "cas" => HasRoom(att'[s].last, g)
  <2>1. \/ /\ att[s].gi + 1 < NumReceivers /\ UNCHANGED pc
           /\ att' = [att EXCEPT ![s].gi = att[s].gi + 1, ![s].gmin = MinOf(att[s].gmin, val)]
        \/ /\ att[s].gi + 1 = NumReceivers /\ HasRoom(att[s].last, MinOf(att[s].gmin, val))
           /\ att' = [att EXCEPT ![s].gmin = MinOf(att[s].gmin, val)]
           /\ pc' = [pc EXCEPT ![s] = "cas"]
        \/ pc' = [pc EXCEPT ![s] = "idle"]
    BY <1>1, <1>2, <1>3
  <2>2. ~(pc' = [pc EXCEPT ![s] = "idle"])
    BY <1>4
  <2>3. CASE /\ att[s].gi + 1 < NumReceivers /\ UNCHANGED pc
             /\ att' = [att EXCEPT ![s].gi = att[s].gi + 1, ![s].gmin = MinOf(att[s].gmin, val)]
    <3>1. /\ att'[s].gmin = MinOf(att[s].gmin, val) /\ att'[s].gi = r + 1
          /\ att'[s].want = att[s].want /\ att'[s].last = att[s].last
      BY <1>2, <1>4, <2>3
    <3> QED
      BY <1>2, <1>4, <2>3, <3>1
  <2>4. CASE /\ att[s].gi + 1 = NumReceivers /\ HasRoom(att[s].last, MinOf(att[s].gmin, val))
             /\ att' = [att EXCEPT ![s].gmin = MinOf(att[s].gmin, val)]
             /\ pc' = [pc EXCEPT ![s] = "cas"]
    <3>1. /\ att'[s].gmin = MinOf(att[s].gmin, val) /\ att'[s].gi = r
          /\ att'[s].want = att[s].want /\ att'[s].last = att[s].last
      BY <1>2, <1>4, <2>4
    <3>2. \A q \in Receivers : q <= r
      BY <1>2, <2>4, ThreadsAssumption DEF Receivers
    <3>3. HasRoom(att'[s].last, g)
      BY <2>4, <3>1
    <3> QED
      BY <3>1, <3>2, <3>3
  <2> QED
    BY <2>1, <2>2, <2>3, <2>4
<1>9. g \in Int /\ g <= att[s].gmin /\ g <= val /\ g <= SHUTDOWN_OPEN /\ (g = att[s].gmin \/ g = val)
  BY <1>4, <1>5, <1>7, <1>8 DEF MinOf
<1>10. \A q \in Receivers : Cursor(q) \in Int /\ Cursor(q)' = Cursor(q)
  BY <1>4, WordTypes
<1>11. ASSUME NEW q \in Receivers, q < att'[s].gi \/ pc'[s] = "cas"
       PROVE  KnowsReads(hist', cur'[s], q, g) /\ g <= Cursor(q)'
  <2>1. q < r \/ q = r
    BY <1>4, <1>8, <1>11
  <2>2. CASE q < r
    <3>1. KnowsReads(hist, cur[s], q, att[s].gmin) /\ att[s].gmin <= Cursor(q)
      BY <1>7, <2>2
    <3>2. KnowsReads(hist, cur'[s], q, g)
      <4>1. PICK c : c = att[s].gmin
        OBVIOUS
      <4>2. c \in Int /\ g \in Int /\ g <= c /\ MemoryOK /\ KnowsReads(hist, cur[s], q, c)
        BY <1>4, <1>7, <1>9, <3>1, <4>1
      <4> QED
        BY <1>6, <4>2, KnowsReadsLess
    <3>3. g <= Cursor(q)'
      <4>1. g \in Int /\ att[s].gmin \in Int /\ Cursor(q) \in Int /\ Cursor(q)' = Cursor(q)
        BY <1>7, <1>9, <1>10
      <4>2. g <= att[s].gmin
        BY <1>9
      <4> QED
        BY <3>1, <4>1, <4>2
    <3>4. hist' = hist
      BY <1>4
    <3> QED
      BY <3>2, <3>3, <3>4
  <2>3. CASE q = r
    <3>1. KnowsReads(hist, cur'[s], r, g)
      <4>1. MemoryOK /\ view \in Views /\ KnowsReads(hist, view, r, val)
        BY <1>4, <1>5
      <4>2. g \in Int /\ val \in Int /\ g <= val
        BY <1>5, <1>9
      <4>3. cur'[s] \in Views /\ \A l \in Locations : view[l] <= cur'[s][l]
        BY <1>5, <1>6
      <4> QED
        BY <4>1, <4>2, <4>3, KnowsReadsLess
    <3>2. g <= Cursor(r)'
      <4>1. g \in Int /\ val \in Int /\ Cursor(r) \in Int /\ Cursor(r)' = Cursor(r)
        BY <1>5, <1>9, <1>10
      <4>2. g <= val /\ val <= Cursor(r)
        BY <1>5, <1>9
      <4> QED
        BY <4>1, <4>2
    <3>3. hist' = hist
      BY <1>4
    <3> QED
      BY <2>3, <3>1, <3>2, <3>3
  <2> QED
    BY <2>1, <2>2, <2>3
<1>12. ASSUME g # SHUTDOWN_OPEN
       PROVE  /\ g \in -1 .. Highest' /\ Covers(cur'[s], g)
              /\ \A u \in Senders : \A x \in Held(own'[u], pc'[u]) : g < x
  <2>1. CASE g = att[s].gmin
    BY <1>6, <1>7, <1>12, <2>1, CursorStaysKnown
  <2>2. CASE g = val
    BY <1>5, <1>6, <1>12, <2>2, CursorStaysKnown
  <2> QED
    BY <1>9, <2>1, <2>2
<1>13. Highest' = Highest
  BY <1>4 DEF Highest
<1> QED
  BY <1>7, <1>8, <1>9, <1>11, <1>12, <1>13

\* What an attempt knows stays known, and what it learns it is entitled to.
LEMMA AttemptKept ==
  ASSUME TypeOK, IndInv, [Next]_vars
  PROVE  AttemptSound'
<1> SUFFICES ASSUME NEW u \in Senders, pc'[u] \in {"gate", "cas"}
             PROVE  /\ att'[u].want >= 1 /\ att'[u].last \in -1 .. Highest'
                    /\ att'[u].gmin <= SHUTDOWN_OPEN
                    /\ \A q \in Receivers : q < att'[u].gi \/ pc'[u] = "cas" =>
                         KnowsReads(hist', cur'[u], q, att'[u].gmin) /\ att'[u].gmin <= Cursor(q)'
                    /\ att'[u].gmin # SHUTDOWN_OPEN =>
                         /\ att'[u].gmin \in -1 .. Highest' /\ Covers(cur'[u], att'[u].gmin)
                         /\ \A t \in Senders : \A x \in Held(own'[t], pc'[t]) : att'[u].gmin < x
                    /\ pc'[u] = "cas" => HasRoom(att'[u].last, att'[u].gmin)
  BY DEF AttemptSound, CursorKnown
<1>0. /\ MemoryOK /\ MemoryOK' /\ Grows /\ Highest \in Int /\ Highest' \in Int /\ Highest <= Highest'
      /\ SHUTDOWN_OPEN \in Nat /\ u \in Threads /\ att[u].gmin \in Int /\ att[u].want \in Nat
      /\ att[u].last \in Int
  <2>1. MemoryOK /\ LocalsOK
    BY DEF TypeOK
  <2> QED
    BY <2>1, MemoryKept, HighestGrows, OpenAssumption DEF LocalsOK, Threads
<1>1. CASE pc'[u] = pc[u] /\ att'[u] = att[u]
  <2>1. PICK g : g = att[u].gmin
    OBVIOUS
  <2>2. /\ att[u].want >= 1 /\ att[u].last \in -1 .. Highest /\ g <= SHUTDOWN_OPEN /\ g \in Int
        /\ \A q \in Receivers : q < att[u].gi \/ pc[u] = "cas" =>
             KnowsReads(hist, cur[u], q, g) /\ g <= Cursor(q)
        /\ g # SHUTDOWN_OPEN => CursorKnown(cur[u], g)
        /\ pc[u] = "cas" => HasRoom(att[u].last, g)
    BY <1>0, <1>1, <2>1 DEF IndInv, AttemptSound
  <2>3. cur[u] \in Views /\ cur'[u] \in Views /\ \A l \in Locations : cur[u][l] <= cur'[u][l]
    BY <1>0 DEF MemoryOK, Grows
  <2>4. ASSUME NEW q \in Receivers, q < att[u].gi \/ pc[u] = "cas"
        PROVE  KnowsReads(hist', cur'[u], q, g) /\ g <= Cursor(q)'
    <3>1. KnowsReads(hist, cur[u], q, g) /\ g <= Cursor(q)
      BY <2>2, <2>4
    <3>2. KnowsReads(hist', cur'[u], q, g)
      BY <2>2, <2>3, <3>1, ReadsStayKnown
    <3> QED
      BY <2>2, <3>1, <3>2, CursorGrows
  <2>5. ASSUME g # SHUTDOWN_OPEN
        PROVE  /\ g \in -1 .. Highest' /\ Covers(cur'[u], g)
               /\ \A t \in Senders : \A x \in Held(own'[t], pc'[t]) : g < x
    BY <2>2, <2>3, <2>5, CursorStaysKnown
  <2> QED
    BY <1>0, <1>1, <2>1, <2>2, <2>4, <2>5
<1>2. CASE ~(pc'[u] = pc[u] /\ att'[u] = att[u])
  <2>1. ASSUME NEW r \in Receivers, ReceiverStep(r) PROVE FALSE
    BY <1>2, <2>1, ReceiverLocals
  <2>2. PICK s \in Senders : SenderStep(s)
    BY <1>2, <2>1 DEF Next, Terminated, vars, senderVars
  <2>3. u = s
    BY <1>2, <2>2, SenderLocals
  <2>4. CASE LoadConsumed(s)
    <3>1. PICK g : g = att'[s].gmin
      OBVIOUS
    <3> QED
      BY <2>3, <2>4, <3>1, GateKept
  <2>5. ASSUME NEW n \in Nat, n >= 1, NEW q \in -1 .. Highest, att'[s] = Attempt(n, q), pc'[s] = "gate"
        PROVE  /\ att'[u].want >= 1 /\ att'[u].last \in -1 .. Highest'
               /\ att'[u].gmin = SHUTDOWN_OPEN /\ att'[u].gi = 0 /\ pc'[u] = "gate"
    BY <1>0, <2>3, <2>5 DEF Attempt
  <2>6. \/ LoadConsumed(s)
        \/ \E n \in Nat, q \in -1 .. Highest : n >= 1 /\ att'[s] = Attempt(n, q) /\ pc'[s] = "gate"
    <3>1. \A k \in Readable(s, Claimed) : hist[Claimed][k].val.seq \in -1 .. Highest
      <4>1. Claimed \in Locations /\ s \in Threads
        BY DEF Locations, Threads
      <4>2. cur[s][Claimed] \in 1 .. Last(Claimed) /\ Last(Claimed) \in Nat
        BY <1>0, <4>1, MemoryTypes
      <4> QED
        BY <4>2 DEF Readable, IndInv, ClaimsSound
    <3>2. /\ att \in [Senders -> AttemptType] /\ pc \in [Senders -> SenderPlaces]
          /\ pc'[s] \in {"gate", "cas"}
      BY <2>3 DEF TypeOK, LocalsOK, AttemptType
    <3>3. ASSUME NEW n \in Limits, StartClaim(s, n)
          PROVE  \E q \in -1 .. Highest : n \in Nat /\ n >= 1 /\ att'[s] = Attempt(n, q) /\ pc'[s] = "gate"
      <4>1. PICK k \in Readable(s, Claimed) :
              /\ att' = [att EXCEPT ![s] = Attempt(n, hist[Claimed][k].val.seq)]
              /\ pc' = [pc EXCEPT ![s] = "gate"]
        BY <3>3 DEF StartClaim, Go
      <4>2. n \in Nat /\ n >= 1
        BY CallsAssumption, CapacityAssumption
      <4> QED
        BY <3>1, <3>2, <4>1, <4>2
    <3>4. ASSUME CasRetry(s)
          PROVE  \E n \in Nat, q \in -1 .. Highest : n >= 1 /\ att'[s] = Attempt(n, q) /\ pc'[s] = "gate"
      <4>1. PICK k \in Readable(s, Claimed) :
              \/ pc' = [pc EXCEPT ![s] = "idle"]
              \/ /\ att' = [att EXCEPT ![s] = Attempt(att[s].want, hist[Claimed][k].val.seq)]
                 /\ pc' = [pc EXCEPT ![s] = "gate"]
        BY <3>4 DEF CasRetry, Go
      <4>2. pc[s] = "cas"
        BY <3>4 DEF CasRetry
      <4>3. att[s].want \in Nat /\ att[s].want >= 1
        BY <1>0, <2>3, <4>2 DEF IndInv, AttemptSound
      <4> QED
        BY <3>1, <3>2, <4>1, <4>3
    <3>5. ASSUME CasClaim(s) \/ FillSlot(s) \/ StartPublish(s) \/ PublishSlot(s) PROVE FALSE
      <4>1. ~CasClaim(s)
        BY <3>2, ClaimFacts
      <4>2. FillSlot(s) \/ StartPublish(s) \/ PublishSlot(s)
        BY <3>5, <4>1
      <4> QED
        BY <3>2, <4>2 DEF FillSlot, StartPublish, PublishSlot, Go
    <3>6. ASSUME DropSender(s) \/ CloseLoad(s) \/ CloseScan(s) \/ CloseMark(s) \/ CloseStore(s) PROVE FALSE
      BY <3>2, <3>6 DEF DropSender, CloseLoad, CloseScan, CloseMark, CloseStore, Go
    <3> QED
      BY <2>2, <3>3, <3>4, <3>5, <3>6 DEF SenderStep
  <2>7. CASE ~LoadConsumed(s)
    <3>1. /\ att'[u].want >= 1 /\ att'[u].last \in -1 .. Highest'
          /\ att'[u].gmin = SHUTDOWN_OPEN /\ att'[u].gi = 0 /\ pc'[u] = "gate"
      BY <2>5, <2>6, <2>7
    <3>2. \A q \in Receivers : ~(q < 0)
      BY ThreadsAssumption DEF Receivers
    <3> QED
      BY <1>0, <3>1, <3>2
  <2> QED
    BY <2>4, <2>7
<1> QED
  BY <1>1, <1>2

\* Each sequence of a new claim is the next of its slot, and its sender knows of the
\* last write, the last publication and all reads there (pub_mul.rs:139-148: the gate
\* met cursors that are at most a ring behind).
LEMMA ClaimIsFresh ==
  ASSUME TypeOK, IndInv, [Next]_vars, NEW s \in Senders, CasClaim(s),
         NEW x \in (Highest + 1) .. Highest', NEW i, i = IndexOf(x)
  PROVE  /\ x \in Int /\ i \in Slots
         /\ Knows(s, State(i)) /\ Last(State(i)) = Pos(x) - 1
         /\ Knows(s, Written(i)) /\ Last(Written(i)) = Pos(x) - 1
         /\ \A r \in Receivers : Knows(s, ReadBy(i, r))
<1>1. PICK g : g = att[s].gmin
  OBVIOUS
<1>2. /\ MemoryOK /\ Highest \in Int /\ Highest' \in Int /\ g \in -1 .. Highest /\ Highest' <= g + Capacity
      /\ pc[s] = "cas" /\ CursorKnown(cur[s], g)
      /\ \A r \in Receivers : KnowsReads(hist, cur[s], r, g)
  <2>1. /\ g \in -1 .. Highest /\ Highest' <= g + Capacity
        /\ pc[s] = "cas" /\ CursorKnown(cur[s], g)
        /\ \A r \in Receivers : KnowsReads(hist, cur[s], r, g)
    BY <1>1, ClaimFacts
  <2> QED
    BY <2>1, HighestGrows DEF TypeOK
<1>3. /\ x \in Int /\ i \in Slots /\ Pos(x) \in Int /\ Pos(x) >= 2 /\ Capacity \in Nat \ {0}
      /\ Highest < x /\ x <= g + Capacity /\ x >= 0 /\ g \in Int
  <2>1. x \in Int /\ Highest < x /\ x <= g + Capacity /\ x >= 0 /\ g \in Int /\ Capacity \in Nat \ {0}
    BY <1>2, CapacityAssumption
  <2> QED
    BY <2>1, PosType
<1>4. /\ State(i) \in Locations /\ Written(i) \in Locations /\ s \in Threads
      /\ \A r \in Receivers : ReadBy(i, r) \in Locations
  BY <1>3 DEF Locations, Threads
<1>5. \A l \in Locations : Last(l) \in Nat /\ Last(l) >= 1 /\ cur[s][l] \in 1 .. Last(l)
  BY <1>2, <1>4, MemoryTypes
<1>6. cur[s][Written(i)] >= Pos(x) - 1 /\ cur[s][State(i)] >= Pos(x) - 1
  <2>1. PICK z : z = x - Capacity
    OBVIOUS
  <2>2. z \in Int /\ z <= g /\ IndexOf(z) = i /\ Pos(z) = Pos(x) - 1
    BY <1>3, <2>1, PosShift
  <2>3. CASE z >= 0
    <3>1. z \in 0 .. g
      BY <1>3, <2>2, <2>3
    <3> QED
      BY <1>2, <2>2, <3>1 DEF CursorKnown, Covers
  <2>4. CASE z < 0
    <3>1. Pos(x) = 2
      BY <1>3, <2>1, <2>4, PosFirstLap
    <3> QED
      BY <1>4, <1>5, <3>1
  <2> QED
    BY <2>2, <2>3, <2>4
<1>7. Last(Written(i)) <= Pos(x) - 1
  <2>1. CASE Last(Written(i)) < 2
    BY <1>3, <1>4, <1>5, <2>1
  <2>2. CASE Last(Written(i)) >= 2
    <3>1. PICK y : y = hist[Written(i)][Last(Written(i))].val
      OBVIOUS
    <3>2. IndexOf(y) = i /\ Pos(y) = Last(Written(i)) /\ y \in 0 .. Highest
      BY <1>3, <1>4, <1>5, <2>2, <3>1 DEF IndInv, WrittenSound
    <3>3. y \in Int /\ y < x
      BY <1>2, <1>3, <3>2
    <3>4. Pos(y) < Pos(x)
      BY <1>3, <3>2, <3>3, PosOrder
    <3> QED
      BY <1>3, <1>4, <1>5, <3>2, <3>4
  <2> QED
    BY <1>4, <1>5, <2>1, <2>2
<1>8. Last(State(i)) <= Pos(x) - 1
  <2>1. CASE Last(State(i)) < 2
    BY <1>3, <1>4, <1>5, <2>1
  <2>2. CASE Last(State(i)) >= 2
    <3>1. PICK k : k = Last(State(i))
      OBVIOUS
    <3>2. k \in 2 .. Last(State(i))
      BY <1>4, <1>5, <2>2, <3>1
    <3>3. ~CarriesShutdown(i, k)
      BY <1>2 DEF CarriesShutdown
    <3>4. CarriesWrite(i, k)
      BY <1>3, <3>2, <3>3 DEF IndInv, StateSound
    <3>5. k <= Last(Written(i))
      BY <3>4 DEF CarriesWrite
    <3> QED
      BY <1>3, <1>4, <1>5, <1>7, <3>1, <3>5
  <2> QED
    BY <1>4, <1>5, <2>1, <2>2
<1>9. ASSUME NEW r \in Receivers PROVE Knows(s, ReadBy(i, r))
  <2>1. PICK j : j = Last(ReadBy(i, r))
    OBVIOUS
  <2>2. j \in Nat /\ j >= 1 /\ cur[s][ReadBy(i, r)] \in 1 .. j
    BY <1>4, <1>5, <2>1
  <2>3. CASE j = 1
    BY <2>1, <2>2, <2>3 DEF Knows
  <2>4. CASE j >= 2
    <3>1. PICK y : y = hist[ReadBy(i, r)][j].val
      OBVIOUS
    <3>2. IndexOf(y) = i /\ y \in 0 .. Highest
      <4>1. j \in 2 .. Last(ReadBy(i, r))
        BY <2>1, <2>2, <2>4
      <4> QED
        BY <1>3, <3>1, <4>1 DEF IndInv, ReadsSound
    <3>3. y \in Int /\ y < x
      BY <1>2, <1>3, <3>2
    <3>4. y + Capacity <= x
      BY <1>3, <3>2, <3>3, PosOrder
    <3>5. y <= g
      BY <1>3, <3>3, <3>4
    <3>6. j <= cur[s][ReadBy(i, r)]
      BY <1>2, <1>3, <2>1, <2>2, <3>1, <3>5 DEF KnowsReads
    <3> QED
      BY <2>1, <2>2, <3>6 DEF Knows
  <2> QED
    BY <2>2, <2>3, <2>4
<1>10. Knows(s, State(i)) /\ Last(State(i)) = Pos(x) - 1
  BY <1>3, <1>4, <1>5, <1>6, <1>8 DEF Knows
<1>11. Knows(s, Written(i)) /\ Last(Written(i)) = Pos(x) - 1
  BY <1>3, <1>4, <1>5, <1>6, <1>7 DEF Knows
<1> QED
  BY <1>3, <1>9, <1>10, <1>11

\* A claim leaves every word but `claimed` as it was.
LEMMA ClaimLeaves ==
  ASSUME TypeOK, IndInv, NEW s \in Senders, CasClaim(s), NEW l \in Locations, l # Claimed
  PROVE  hist'[l] = hist[l]
<1>1. SenderStep(s)
  BY DEF SenderStep
<1>2. ~CloseStore(s) /\ ~DropSender(s) /\ ~FillSlot(s) /\ ~PublishSlot(s) /\ ~CloseMark(s)
  BY DEF CasClaim, CloseStore, DropSender, FillSlot, PublishSlot, CloseMark
<1> QED
  BY <1>1, <1>2, SenderHist

\* What a sender has claimed and not published keeps its state word: only the
\* sender itself may publish there.
LEMMA HeldStateStays ==
  ASSUME TypeOK, IndInv, [Next]_vars, NEW u \in Senders, NEW x \in Holds(u),
         x \in Held(own'[u], pc'[u])
  PROVE  hist'[State(IndexOf(x))] = hist[State(IndexOf(x))]
<1>1. SUFFICES ASSUME hist'[State(IndexOf(x))] # hist[State(IndexOf(x))] PROVE FALSE
  OBVIOUS
<1>2. x \in 0 .. Highest /\ x \in Int /\ IndexOf(x) \in Slots /\ State(IndexOf(x)) \in Locations
  BY HighestGrows, PosType DEF IndInv, HoldsSound, Locations
<1>3. ~UNCHANGED vars
  BY <1>1 DEF vars, memVars
<1>4. ASSUME NEW r \in Receivers, ReceiverStep(r) PROVE FALSE
  BY <1>1, <1>2, <1>4, ReceiverHist DEF State, ReadBy, Consumed
<1>5. PICK s \in Senders : SenderStep(s)
  BY <1>3, <1>4 DEF Next, Terminated
<1>6. \/ PublishSlot(s) /\ State(IndexOf(x)) = State(IndexOf(own[s].nxt))
      \/ CloseMark(s)
  BY <1>1, <1>2, <1>5, SenderHist DEF Claimed, Refs, Written, State
<1>7. CASE CloseMark(s)
  <2>1. \A t \in Senders : pc[t] \notin {"write", "publish"}
    BY <1>7 DEF CloseMark, IndInv, CloserSound
  <2> QED
    BY <2>1 DEF IndInv, HoldsSound, Held, NoClaim
<1>8. CASE PublishSlot(s) /\ State(IndexOf(x)) = State(IndexOf(own[s].nxt))
  <2>1. PICK y : y = own[s].nxt
    OBVIOUS
  <2>2. y \in Holds(s) /\ y \in Int /\ IndexOf(x) = IndexOf(y)
    BY <1>8, <2>1, NextIsHeld DEF State
  <2>3. x - y < Capacity /\ y - x < Capacity /\ (s # u => x # y)
    BY <2>2 DEF IndInv, HoldsSound
  <2>4. x = y
    BY <1>2, <2>2, <2>3, IndexUnique
  <2>5. s = u
    BY <2>3, <2>4
  <2>6. y \notin Held(own'[s], pc'[s])
    BY <1>5, <1>8, <2>1, HoldsStep
  <2> QED
    BY <2>4, <2>5, <2>6
<1> QED
  BY <1>6, <1>7, <1>8

\* No claim is the value -1 the word is built with.
LEMMA HighestIsBound ==
  ASSUME TypeOK, IndInv
  PROVE  Highest \in Int /\ -1 <= Highest
<1>1. Last(Claimed) \in 1 .. Last(Claimed) /\ Highest \in Int
  BY NewestTypes, WordTypes DEF Locations, TypeOK
<1> QED
  BY <1>1 DEF IndInv, ClaimsSound, Highest

\* Where a sender is in its claim.
LEMMA WriterOrder ==
  ASSUME TypeOK, IndInv, [Next]_vars, NEW u \in Senders
  PROVE  /\ pc'[u] \in {"write", "publish"} =>
              0 <= own'[u].lo /\ own'[u].lo <= own'[u].nxt /\ own'[u].lo <= own'[u].hi
         /\ pc'[u] = "write" => own'[u].nxt <= own'[u].hi + 1
         /\ pc'[u] = "publish" => own'[u].nxt <= own'[u].hi
<1>1. /\ own[u].lo \in Int /\ own[u].hi \in Int /\ own[u].nxt \in Int
      /\ Highest \in Int /\ Highest' \in Int
      /\ pc[u] \in {"write", "publish"} => 0 <= own[u].lo /\ own[u].lo <= own[u].nxt /\ own[u].lo <= own[u].hi
      /\ pc[u] = "write" => own[u].nxt <= own[u].hi + 1
      /\ pc[u] = "publish" => own[u].nxt <= own[u].hi
  <2>1. LocalsOK
    BY DEF TypeOK
  <2>2. own[u].lo \in Int /\ own[u].hi \in Int /\ own[u].nxt \in Int
    BY <2>1 DEF LocalsOK
  <2> QED
    BY <2>2, HighestGrows DEF IndInv, WriterSound
<1>2. CASE own'[u] = own[u] /\ pc'[u] = pc[u]
  BY <1>1, <1>2
<1>3. CASE ~(own'[u] = own[u] /\ pc'[u] = pc[u])
  <2>1. ASSUME NEW r \in Receivers, ReceiverStep(r) PROVE FALSE
    BY <1>3, <2>1, ReceiverLocals
  <2>2. PICK s \in Senders : SenderStep(s)
    BY <1>3, <2>1 DEF Next, Terminated, vars, senderVars
  <2>3. u = s
    BY <1>3, <2>2, SenderLocals
  <2>4. CASE CasClaim(s)
    <3>1. own'[s] = [lo |-> Highest + 1, hi |-> Highest', nxt |-> Highest + 1] /\ pc'[s] = "write"
      BY <2>4, ClaimFacts
    <3>2. Highest < Highest'
      BY <2>4, ClaimFacts
    <3>3. own'[s].lo = Highest + 1 /\ own'[s].hi = Highest' /\ own'[s].nxt = Highest + 1
      BY <3>1
    <3>4. -1 <= Highest
      BY HighestIsBound
    <3>5. /\ 0 <= own'[s].lo /\ own'[s].lo <= own'[s].nxt /\ own'[s].lo <= own'[s].hi
          /\ own'[s].nxt <= own'[s].hi + 1
      <4>1. \A a, b \in Int : -1 <= a /\ a < b => 0 <= a + 1 /\ a + 1 <= b /\ a + 1 <= b + 1
        OBVIOUS
      <4>2. 0 <= Highest + 1 /\ Highest + 1 <= Highest' /\ Highest + 1 <= Highest' + 1
        BY <1>1, <3>2, <3>4, <4>1
      <4>3. Highest + 1 <= Highest + 1
        BY <1>1
      <4> QED
        BY <3>3, <4>2, <4>3
    <3> QED
      BY <2>3, <3>1, <3>5
  <2>5. CASE ~CasClaim(s)
    <3>1. CASE /\ FillSlot(s) /\ pc[s] = "write" /\ pc'[s] = "write" /\ own[s].nxt <= own[s].hi
               /\ own'[s] = [lo |-> own[s].lo, hi |-> own[s].hi, nxt |-> own[s].nxt + 1]
      <4>1. own'[s].lo = own[s].lo /\ own'[s].hi = own[s].hi /\ own'[s].nxt = own[s].nxt + 1
        BY <3>1
      <4> QED
        BY <1>1, <2>3, <3>1, <4>1
    <3>2. CASE /\ pc[s] = "write" /\ pc'[s] = "publish"
               /\ own'[s] = [lo |-> own[s].lo, hi |-> own[s].hi, nxt |-> own[s].lo]
      <4>1. own'[s].lo = own[s].lo /\ own'[s].hi = own[s].hi /\ own'[s].nxt = own[s].lo
        BY <3>2
      <4> QED
        BY <1>1, <2>3, <3>2, <4>1
    <3>3. CASE /\ pc[s] = "publish" /\ own[s].nxt < own[s].hi /\ pc'[s] = "publish"
               /\ own'[s] = [lo |-> own[s].lo, hi |-> own[s].hi, nxt |-> own[s].nxt + 1]
      <4>1. own'[s].lo = own[s].lo /\ own'[s].hi = own[s].hi /\ own'[s].nxt = own[s].nxt + 1
        BY <3>3
      <4> QED
        BY <1>1, <2>3, <3>3, <4>1
    <3>4. CASE pc'[s] \notin {"write", "publish"}
      BY <2>3, <3>4
    <3> QED
      BY <2>2, <2>5, <3>1, <3>2, <3>3, <3>4, OwnStep
  <2> QED
    BY <2>4, <2>5
<1> QED
  BY <1>2, <1>3

\* A sender knows the newest word of every slot it still has to publish.
LEMMA WriterStates ==
  ASSUME TypeOK, IndInv, [Next]_vars, NEW u \in Senders, NEW x \in Held(own'[u], pc'[u]),
         NEW i, i = IndexOf(x)
  PROVE  cur'[u][State(i)] = Len(hist'[State(i)]) /\ Len(hist'[State(i)]) = Pos(x) - 1
<1>0. MemoryOK /\ MemoryOK' /\ Grows /\ u \in Threads /\ Highest \in Int
  BY MemoryKept, HighestGrows DEF TypeOK, Threads
<1>1. CASE x \in Holds(u)
  <2>1. x \in Int /\ i \in Slots /\ State(i) \in Locations
    <3>1. x \in Int
      BY <1>0, <1>1 DEF IndInv, HoldsSound
    <3> QED
      BY <3>1, PosType DEF Locations
  <2>2. Knows(u, State(i)) /\ Last(State(i)) = Pos(x) - 1
    BY <1>1 DEF IndInv, WriterSound
  <2>3. hist'[State(i)] = hist[State(i)]
    BY <1>1, HeldStateStays
  <2> QED
    BY <1>0, <2>1, <2>2, <2>3, NewestStaysKnown
<1>2. CASE x \notin Holds(u)
  <2>1. ASSUME NEW r \in Receivers, ReceiverStep(r) PROVE FALSE
    BY <1>2, <2>1, ReceiverLocals
  <2>2. PICK s \in Senders : SenderStep(s)
    BY <1>2, <2>1 DEF Next, Terminated, vars, senderVars
  <2>3. u = s
    BY <1>2, <2>2, SenderLocals
  <2>4. CasClaim(s) /\ Highest < x /\ x <= Highest'
    BY <1>2, <2>2, <2>3, HoldsStep
  <2>5. x \in (Highest + 1) .. Highest'
    <3>1. x \in Int
      <4>1. LocalsOK'
        BY LocalsKept DEF IndInv
      <4>2. own'[u].lo \in Int /\ own'[u].hi \in Int
        BY <4>1 DEF LocalsOK
      <4> QED
        BY <4>2 DEF Held
    <3> QED
      BY <1>0, <2>4, <3>1, HighestGrows
  <2>6. /\ x \in Int /\ i \in Slots /\ Knows(s, State(i)) /\ Last(State(i)) = Pos(x) - 1
    BY <2>4, <2>5, ClaimIsFresh
  <2>7. State(i) \in Locations /\ State(i) # Claimed
    BY <2>6 DEF Locations, State, Claimed
  <2>8. hist'[State(i)] = hist[State(i)]
    BY <2>4, <2>7, ClaimLeaves
  <2> QED
    BY <1>0, <2>3, <2>6, <2>7, <2>8, NewestStaysKnown
<1> QED
  BY <1>1, <1>2

\* How a claim comes to be in hand to write, or to publish.
LEMMA WriterCases ==
  ASSUME TypeOK, IndInv, [Next]_vars, NEW u \in Senders
  PROVE  /\ own[u].lo \in Int /\ own[u].hi \in Int /\ own[u].nxt \in Int
         /\ own'[u].lo \in Int /\ own'[u].hi \in Int /\ own'[u].nxt \in Int
         /\ pc'[u] = "write" =>
              \/ pc[u] = "write" /\ own'[u] = own[u]
              \/ CasClaim(u)
              \/ /\ FillSlot(u) /\ pc[u] = "write" /\ own'[u].lo = own[u].lo
                 /\ own'[u].hi = own[u].hi /\ own'[u].nxt = own[u].nxt + 1
         /\ pc'[u] = "publish" =>
              \/ pc[u] = "publish" /\ own'[u] = own[u] /\ rel'[u] = rel[u]
              \/ /\ pc[u] = "write" /\ own[u].nxt > own[u].hi /\ rel'[u] = cur[u]
                 /\ own'[u].lo = own[u].lo /\ own'[u].hi = own[u].hi /\ own'[u].nxt = own[u].lo
              \/ /\ pc[u] = "publish" /\ rel'[u] = rel[u]
                 /\ own'[u].hi = own[u].hi /\ own'[u].nxt = own[u].nxt + 1
         /\ CasClaim(u) => pc'[u] = "write" /\ own'[u].lo = Highest + 1
                           /\ own'[u].hi = Highest' /\ own'[u].nxt = Highest + 1
<1>1. /\ own[u].lo \in Int /\ own[u].hi \in Int /\ own[u].nxt \in Int
      /\ own'[u].lo \in Int /\ own'[u].hi \in Int /\ own'[u].nxt \in Int
  <2>1. LocalsOK /\ LocalsOK'
    BY LocalsKept DEF TypeOK, IndInv
  <2> QED
    BY <2>1 DEF LocalsOK
<1>2. ASSUME CasClaim(u)
      PROVE  pc'[u] = "write" /\ own'[u].lo = Highest + 1 /\ own'[u].hi = Highest'
             /\ own'[u].nxt = Highest + 1
  <2>1. own'[u] = [lo |-> Highest + 1, hi |-> Highest', nxt |-> Highest + 1] /\ pc'[u] = "write"
    BY <1>2, ClaimFacts
  <2> QED
    BY <2>1
<1>3. CASE UNCHANGED <<pc, own, rel>>
  BY <1>1, <1>2, <1>3
<1>4. CASE ~UNCHANGED <<pc, own, rel>>
  <2>1. ASSUME NEW r \in Receivers, ReceiverStep(r) PROVE FALSE
    BY <1>4, <2>1, ReceiverLocals
  <2>2. PICK s \in Senders : SenderStep(s)
    BY <1>4, <2>1 DEF Next, Terminated, vars, memVars, senderVars
  <2>3. CASE u # s
    <3>1. own'[u] = own[u] /\ pc'[u] = pc[u] /\ rel'[u] = rel[u]
      <4>1. u \in Threads \ {s}
        BY <2>3 DEF Threads
      <4> QED
        BY <2>2, <2>3, <4>1, SenderLocals
    <3> QED
      BY <1>1, <1>2, <3>1
  <2>4. CASE u = s
    <3>1. PublishSlot(s) => rel' = rel
      BY DEF PublishSlot
    <3>2. CASE CasClaim(s)
      BY <1>1, <1>2, <2>4, <3>2
    <3>3. CASE /\ FillSlot(s) /\ pc[s] = "write" /\ pc'[s] = "write"
               /\ own'[s] = [lo |-> own[s].lo, hi |-> own[s].hi, nxt |-> own[s].nxt + 1]
      <4>1. own'[s].lo = own[s].lo /\ own'[s].hi = own[s].hi /\ own'[s].nxt = own[s].nxt + 1
        BY <3>3
      <4> QED
        BY <1>1, <1>2, <2>4, <3>3, <4>1
    <3>4. CASE /\ pc[s] = "write" /\ pc'[s] = "publish" /\ own[s].nxt > own[s].hi /\ rel'[s] = cur[s]
               /\ own'[s] = [lo |-> own[s].lo, hi |-> own[s].hi, nxt |-> own[s].lo]
      <4>1. own'[s].lo = own[s].lo /\ own'[s].hi = own[s].hi /\ own'[s].nxt = own[s].lo
        BY <3>4
      <4> QED
        BY <1>1, <1>2, <2>4, <3>4, <4>1
    <3>5. CASE /\ PublishSlot(s) /\ pc[s] = "publish" /\ pc'[s] = "publish"
               /\ own'[s] = [lo |-> own[s].lo, hi |-> own[s].hi, nxt |-> own[s].nxt + 1]
      <4>1. own'[s].lo = own[s].lo /\ own'[s].hi = own[s].hi /\ own'[s].nxt = own[s].nxt + 1
        BY <3>5
      <4> QED
        BY <1>1, <1>2, <2>4, <3>1, <3>5, <4>1
    <3>6. CASE pc'[s] \notin {"write", "publish"}
      BY <1>1, <1>2, <2>4, <3>6
    <3> QED
      BY <2>2, <3>2, <3>3, <3>4, <3>5, <3>6, OwnStep
  <2> QED
    BY <2>3, <2>4
<1> QED
  BY <1>3, <1>4

\* What a sender has written of its claim, it has seen.
LEMMA WriterFilled ==
  ASSUME TypeOK, IndInv, [Next]_vars, NEW u \in Senders, pc'[u] = "write",
         NEW x \in own'[u].lo .. (own'[u].nxt - 1), NEW i, i = IndexOf(x)
  PROVE  cur'[u][Written(i)] >= Pos(x)
<1>0. /\ MemoryOK /\ MemoryOK' /\ Grows /\ u \in Threads
      /\ own[u].lo \in Int /\ own[u].hi \in Int /\ own[u].nxt \in Int
      /\ own'[u].lo \in Int /\ own'[u].hi \in Int /\ own'[u].nxt \in Int /\ x \in Int
  <2>1. /\ own[u].lo \in Int /\ own[u].hi \in Int /\ own[u].nxt \in Int
        /\ own'[u].lo \in Int /\ own'[u].hi \in Int /\ own'[u].nxt \in Int
    BY WriterCases
  <2> QED
    BY <2>1, MemoryKept DEF TypeOK, Threads, IndInv
<1>1. /\ i \in Slots /\ Written(i) \in Locations /\ Pos(x) \in Int
  BY <1>0, PosType DEF Locations
<1>2. cur[u][Written(i)] \in Int /\ cur'[u][Written(i)] \in Int
      /\ cur[u][Written(i)] <= cur'[u][Written(i)]
  BY <1>0, <1>1 DEF MemoryOK, Views, Grows
<1>3. ASSUME pc[u] = "write", x \in own[u].lo .. (own[u].nxt - 1)
      PROVE  cur'[u][Written(i)] >= Pos(x)
  <2>1. cur[u][Written(i)] >= Pos(x)
    BY <1>3 DEF IndInv, WriterSound
  <2> QED
    BY <1>1, <1>2, <2>1
<1>4. CASE pc[u] = "write" /\ own'[u] = own[u]
  BY <1>3, <1>4
<1>5. CASE CasClaim(u)
  <2>1. own'[u].lo = own'[u].nxt
    BY <1>5, WriterCases
  <2> QED
    BY <1>0, <2>1
<1>6. CASE FillSlot(u) /\ pc[u] = "write" /\ own'[u].lo = own[u].lo /\ own'[u].nxt = own[u].nxt + 1
  <2>1. CASE x = own[u].nxt
    <3>1. PICK l : l = Written(IndexOf(x))
      OBVIOUS
    <3>2. cur'[u] = [cur[u] EXCEPT ![l] = Last(l) + 1]
      BY <1>6, <2>1, <3>1, FillEffect
    <3>3. Last(l) = Pos(x) - 1
      BY <1>6, <2>1, <3>1, NextIsHeld
    <3>4. cur'[u][l] = Last(l) + 1
      BY <1>0, <1>1, <3>1, <3>2 DEF MemoryOK, Views
    <3> QED
      BY <1>1, <3>1, <3>3, <3>4
  <2>2. CASE x # own[u].nxt
    BY <1>0, <1>3, <1>6, <2>2
  <2> QED
    BY <2>1, <2>2
<1> QED
  BY <1>4, <1>5, <1>6, WriterCases

\* Nobody writes, or reads, a slot that a sender has still to write: the other
\* claims are in other slots, and a guard is behind the claim by then
\* (ringbuffer.rs:17-28).
LEMMA AheadStays ==
  ASSUME TypeOK, IndInv, [Next]_vars, NEW u \in Senders, pc[u] = "write",
         NEW x \in own[u].nxt .. own[u].hi, ~(FillSlot(u) /\ x = own[u].nxt),
         NEW i, i = IndexOf(x)
  PROVE  /\ hist'[Written(i)] = hist[Written(i)]
         /\ \A r \in Receivers : hist'[ReadBy(i, r)] = hist[ReadBy(i, r)]
<1>0. own[u].lo \in Int /\ own[u].hi \in Int /\ own[u].nxt \in Int /\ own[u].lo <= own[u].nxt
  <2>1. own[u].lo <= own[u].nxt
    BY DEF IndInv, WriterSound
  <2> QED
    BY <2>1, WriterCases
<1>1. x \in Holds(u) /\ x \in Int /\ x \in 0 .. Highest
  <2>1. x \in Holds(u) /\ x \in Int
    BY <1>0 DEF Held
  <2> QED
    BY <2>1 DEF IndInv, HoldsSound
<1>2. i \in Slots /\ Written(i) \in Locations /\ \A r \in Receivers : ReadBy(i, r) \in Locations
  BY <1>1, PosType DEF Locations
<1>3. ASSUME hist'[Written(i)] # hist[Written(i)] PROVE FALSE
  <2>1. ~UNCHANGED vars
    BY <1>3 DEF vars, memVars
  <2>2. ASSUME NEW r \in Receivers, ReceiverStep(r) PROVE FALSE
    BY <1>2, <1>3, <2>2, ReceiverHist DEF Written, ReadBy, Consumed
  <2>3. PICK s \in Senders : SenderStep(s)
    BY <2>1, <2>2 DEF Next, Terminated
  <2>4. Written(i) = Written(IndexOf(own[s].nxt)) /\ FillSlot(s)
    BY <1>2, <1>3, <2>3, SenderHist DEF Claimed, Refs, Written, State
  <2>5. PICK y : y = own[s].nxt
    OBVIOUS
  <2>6. y \in Holds(s) /\ y \in Int /\ IndexOf(x) = IndexOf(y)
    BY <2>4, <2>5, NextIsHeld DEF Written
  <2>7. x - y < Capacity /\ y - x < Capacity /\ (s # u => x # y)
    BY <1>1, <2>6 DEF IndInv, HoldsSound
  <2>8. x = y
    BY <1>1, <2>6, <2>7, IndexUnique
  <2> QED
    BY <2>4, <2>5, <2>7, <2>8
<1>4. ASSUME NEW q \in Receivers, hist'[ReadBy(i, q)] # hist[ReadBy(i, q)] PROVE FALSE
  <2>1. ~UNCHANGED vars
    BY <1>4 DEF vars, memVars
  <2>2. ASSUME NEW s \in Senders, SenderStep(s) PROVE FALSE
    BY <1>2, <1>4, <2>2, SenderHist DEF Claimed, Refs, Written, State, ReadBy
  <2>3. PICK r \in Receivers : ReceiverStep(r)
    BY <2>1, <2>2 DEF Next, Terminated
  <2>4. ReadBy(i, q) = ReadBy(IndexOf(rd[r].pos), r) /\ ReadItem(r)
    BY <1>2, <1>4, <2>3, ReceiverHist DEF ReadBy, Consumed
  <2>5. PICK y, l : y = rd[r].pos /\ l = ReadBy(IndexOf(y), r)
    OBVIOUS
  <2>6. IndexOf(y) = IndexOf(x)
    BY <2>4, <2>5 DEF ReadBy
  <2>7. PICK top : top = rd[r].top
    OBVIOUS
  <2>8. /\ y \in Int /\ Cursor(r) < y /\ y <= top /\ Covers(cur[r], top) /\ top \in Int
        /\ Highest <= Cursor(r) + Capacity
    BY <2>4, <2>5, <2>7, ReadFacts
  <2>9. top < x
    <3>1. r \in Threads
      BY DEF Threads
    <3> QED
      BY <1>1, <2>8, <3>1, HeldIsBeyond
  <2>10. Cursor(r) \in Int /\ Highest \in Int /\ Capacity \in Nat
    BY CursorGrows, HighestIsBound, CapacityAssumption
  <2>11. y + Capacity <= x
    BY <1>1, <2>6, <2>8, <2>9, PosOrder
  <2> QED
    BY <1>1, <2>8, <2>10, <2>11
<1> QED
  BY <1>3, <1>4

\* What is still to be written has its earlier writes and reads known to its sender.
LEMMA WriterAhead ==
  ASSUME TypeOK, IndInv, [Next]_vars, NEW u \in Senders, pc'[u] = "write",
         NEW x \in own'[u].nxt .. own'[u].hi, NEW i, i = IndexOf(x)
  PROVE  /\ cur'[u][Written(i)] = Len(hist'[Written(i)]) /\ Len(hist'[Written(i)]) = Pos(x) - 1
         /\ \A r \in Receivers : cur'[u][ReadBy(i, r)] = Len(hist'[ReadBy(i, r)])
<1>0. /\ MemoryOK /\ MemoryOK' /\ Grows /\ u \in Threads /\ Highest \in Int /\ Highest' \in Int
      /\ own[u].lo \in Int /\ own[u].hi \in Int /\ own[u].nxt \in Int
      /\ own'[u].lo \in Int /\ own'[u].hi \in Int /\ own'[u].nxt \in Int /\ x \in Int
  <2>1. /\ own[u].lo \in Int /\ own[u].hi \in Int /\ own[u].nxt \in Int
        /\ own'[u].lo \in Int /\ own'[u].hi \in Int /\ own'[u].nxt \in Int
    BY WriterCases
  <2> QED
    BY <2>1, MemoryKept, HighestGrows DEF TypeOK, Threads, IndInv
<1>1. /\ i \in Slots /\ Written(i) \in Locations /\ \A r \in Receivers : ReadBy(i, r) \in Locations
  BY <1>0, PosType DEF Locations
<1>2. ASSUME Knows(u, Written(i)), Last(Written(i)) = Pos(x) - 1, hist'[Written(i)] = hist[Written(i)],
             \A r \in Receivers : Knows(u, ReadBy(i, r)) /\ hist'[ReadBy(i, r)] = hist[ReadBy(i, r)]
      PROVE  /\ cur'[u][Written(i)] = Len(hist'[Written(i)]) /\ Len(hist'[Written(i)]) = Pos(x) - 1
             /\ \A r \in Receivers : cur'[u][ReadBy(i, r)] = Len(hist'[ReadBy(i, r)])
  <2>1. cur'[u][Written(i)] = Len(hist'[Written(i)])
    BY <1>0, <1>1, <1>2, NewestStaysKnown
  <2>2. \A r \in Receivers : cur'[u][ReadBy(i, r)] = Len(hist'[ReadBy(i, r)])
    BY <1>0, <1>1, <1>2, NewestStaysKnown
  <2> QED
    BY <1>2, <2>1, <2>2
<1>3. CASE CasClaim(u)
  <2>1. x \in (Highest + 1) .. Highest'
    BY <1>3, WriterCases
  <2>2. /\ Knows(u, Written(i)) /\ Last(Written(i)) = Pos(x) - 1
        /\ \A r \in Receivers : Knows(u, ReadBy(i, r))
    BY <1>3, <2>1, ClaimIsFresh
  <2>3. hist'[Written(i)] = hist[Written(i)]
    BY <1>1, <1>3, ClaimLeaves DEF Written, Claimed
  <2>4. \A r \in Receivers : hist'[ReadBy(i, r)] = hist[ReadBy(i, r)]
    BY <1>1, <1>3, ClaimLeaves DEF ReadBy, Claimed
  <2> QED
    BY <1>2, <2>2, <2>3, <2>4
<1>4. ASSUME pc[u] = "write", x \in own[u].nxt .. own[u].hi, ~(FillSlot(u) /\ x = own[u].nxt)
      PROVE  /\ cur'[u][Written(i)] = Len(hist'[Written(i)]) /\ Len(hist'[Written(i)]) = Pos(x) - 1
             /\ \A r \in Receivers : cur'[u][ReadBy(i, r)] = Len(hist'[ReadBy(i, r)])
  <2>1. /\ Knows(u, Written(i)) /\ Last(Written(i)) = Pos(x) - 1
        /\ \A r \in Receivers : Knows(u, ReadBy(i, r))
    BY <1>4 DEF IndInv, WriterSound
  <2>2. /\ hist'[Written(i)] = hist[Written(i)]
        /\ \A r \in Receivers : hist'[ReadBy(i, r)] = hist[ReadBy(i, r)]
    BY <1>4, AheadStays
  <2> QED
    BY <1>2, <2>1, <2>2
<1>5. CASE pc[u] = "write" /\ own'[u] = own[u]
  <2>1. ~FillSlot(u)
    <3>1. ASSUME FillSlot(u) PROVE FALSE
      <4>1. own' = [own EXCEPT ![u].nxt = own[u].nxt + 1]
        BY <3>1 DEF FillSlot
      <4>2. own'[u].nxt = own[u].nxt + 1
        BY <4>1 DEF TypeOK, LocalsOK
      <4> QED
        BY <1>0, <1>5, <4>2
    <3> QED
      BY <3>1
  <2> QED
    BY <1>4, <1>5, <2>1
<1>6. CASE /\ FillSlot(u) /\ pc[u] = "write" /\ own'[u].hi = own[u].hi
           /\ own'[u].nxt = own[u].nxt + 1
  BY <1>0, <1>4, <1>6
<1> QED
  BY <1>3, <1>5, <1>6, WriterCases

\* The release fence at the head of publish hands on every write of the claim
\* (slot_states.rs:131-136).
LEMMA WriterFence ==
  ASSUME TypeOK, IndInv, [Next]_vars, NEW u \in Senders, pc'[u] = "publish",
         NEW x \in own'[u].nxt .. own'[u].hi, NEW i, i = IndexOf(x)
  PROVE  rel'[u][Written(i)] >= Pos(x)
<1>0. /\ own[u].lo \in Int /\ own[u].hi \in Int /\ own[u].nxt \in Int
      /\ own'[u].nxt \in Int /\ own'[u].hi \in Int
      /\ pc[u] = "write" => own[u].nxt <= own[u].hi + 1
  <2>1. pc[u] = "write" => own[u].nxt <= own[u].hi + 1
    BY DEF IndInv, WriterSound
  <2> QED
    BY <2>1, WriterCases
<1>1. CASE pc[u] = "publish" /\ own'[u] = own[u] /\ rel'[u] = rel[u]
  BY <1>1 DEF IndInv, WriterSound
<1>2. CASE /\ pc[u] = "write" /\ own[u].nxt > own[u].hi /\ rel'[u] = cur[u]
           /\ own'[u].hi = own[u].hi /\ own'[u].nxt = own[u].lo
  <2>1. x \in own[u].lo .. (own[u].nxt - 1)
    BY <1>0, <1>2
  <2> QED
    BY <1>2, <2>1 DEF IndInv, WriterSound
<1>3. CASE /\ pc[u] = "publish" /\ rel'[u] = rel[u]
           /\ own'[u].hi = own[u].hi /\ own'[u].nxt = own[u].nxt + 1
  <2>1. x \in own[u].nxt .. own[u].hi
    BY <1>0, <1>3
  <2> QED
    BY <1>3, <2>1 DEF IndInv, WriterSound
<1> QED
  BY <1>1, <1>2, <1>3, WriterCases

\* Writing and publishing keep to the claim, and to what its sender knows.
LEMMA WriterKept ==
  ASSUME TypeOK, IndInv, [Next]_vars
  PROVE  WriterSound'
<1>1. ASSUME NEW u \in Senders, NEW x \in Held(own'[u], pc'[u])
      PROVE  /\ cur'[u][State(IndexOf(x))] = Len(hist'[State(IndexOf(x))])
             /\ Len(hist'[State(IndexOf(x))]) = Pos(x) - 1
  BY <1>1, WriterStates
<1>2. ASSUME NEW u \in Senders, pc'[u] = "write", NEW x \in own'[u].lo .. (own'[u].nxt - 1)
      PROVE  cur'[u][Written(IndexOf(x))] >= Pos(x)
  BY <1>2, WriterFilled
<1>3. ASSUME NEW u \in Senders, pc'[u] = "write", NEW x \in own'[u].nxt .. own'[u].hi
      PROVE  /\ cur'[u][Written(IndexOf(x))] = Len(hist'[Written(IndexOf(x))])
             /\ Len(hist'[Written(IndexOf(x))]) = Pos(x) - 1
             /\ \A r \in Receivers : cur'[u][ReadBy(IndexOf(x), r)] = Len(hist'[ReadBy(IndexOf(x), r)])
  BY <1>3, WriterAhead
<1>4. ASSUME NEW u \in Senders, pc'[u] = "publish", NEW x \in own'[u].nxt .. own'[u].hi
      PROVE  rel'[u][Written(IndexOf(x))] >= Pos(x)
  BY <1>4, WriterFence
<1>5. \A u \in Senders :
        /\ pc'[u] \in {"write", "publish"} =>
             0 <= own'[u].lo /\ own'[u].lo <= own'[u].nxt /\ own'[u].lo <= own'[u].hi
        /\ pc'[u] = "write" => own'[u].nxt <= own'[u].hi + 1
        /\ pc'[u] = "publish" => own'[u].nxt <= own'[u].hi
  BY WriterOrder
<1> QED
  BY <1>1, <1>2, <1>3, <1>4, <1>5 DEF WriterSound, Knows
===============================================================================
