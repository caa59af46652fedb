------------------------------- MODULE LogProofs -------------------------------
(***************************************************************************)
(* Proofs that a guard shows what was sent, that the channel implements    *)
(* FanoutLog, and that a shutdown by dropping the senders loses nothing:   *)
(* receivers are told Disconnected only once they have consumed all that   *)
(* was ever claimed, and are told nothing else from then on.               *)
(***************************************************************************)
EXTENDS EnsoChannelProofs

-------------------------------------------------------------------------------
(* Claims are filled before they are published. *)

LEMMA InitFillInv ==
  ASSUME Init
  PROVE  FillInv
BY DEF Init, FillInv, WriteOrder, PublishedFilled, MarksSound, Closing

\* Two sequences that are held, or held and in a live window, have slots of
\* their own.
LEMMA HeldSlots ==
  ASSUME IndInv, NEW s \in Senders, NEW x \in held[s]
  PROVE  /\ x \in Int /\ IndexOf(x) \in Slots
         /\ \A t \in Senders \ {s} : \A y \in held[t] : IndexOf(y) # IndexOf(x)
         /\ \A r \in Receivers : Open(r) =>
              \A y \in published : y > consumed[r] => IndexOf(y) # IndexOf(x)
<1>0. x \in Int /\ \A r \in Receivers : Open(r) => consumed[r] \in Int
  BY Types DEF IndInv
<1>1. IndexOf(x) \in Slots
  BY <1>0, CapacityAssumption DEF IndexOf, Slots
<1>2. ASSUME NEW t \in Senders \ {s}, NEW y \in held[t], IndexOf(x) = IndexOf(y) PROVE FALSE
  <2>1. x # y /\ x - y < Capacity /\ y - x < Capacity /\ y \in Int
    BY Types DEF IndInv, HeldApart
  <2> QED
    BY <1>0, <1>2, <2>1, IndexUnique
<1>3. ASSUME NEW r \in Receivers, Open(r), NEW y \in published, y > consumed[r],
             IndexOf(x) = IndexOf(y)
      PROVE  FALSE
  <2>1. y \in Int /\ consumed[r] \in Int /\ y <= consumed[r] + Capacity
    BY <1>0, <1>3 DEF IndInv, TypeOK, PublishedSound
  <2>2. y \in Window(r)
    BY <1>3, <2>1, CapacityAssumption DEF Window
  <2>3. x # y
    BY <1>3, <2>2 DEF IndInv, PublishedSound, FlagsSound, Settled
  <2>4. x \in Window(r)
    BY <1>3 DEF IndInv, HeldInWindow
  <2>5. x - y < Capacity /\ y - x < Capacity
    BY <1>0, <2>1, <2>2, <2>4, CapacityAssumption DEF Window
  <2> QED
    BY <1>0, <1>3, <2>1, <2>3, <2>5, IndexUnique
<1> QED
  BY <1>0, <1>1, <1>2, <1>3

\* Only filling writes a slot, the next one of a claim.
LEMMA FillEffect ==
  ASSUME IndInv, FillInv, NEW s \in Senders, FillSlot(s)
  PROVE  /\ nxt[s] \in held[s] /\ nxt[s] \in Int
         /\ ring' = [ring EXCEPT ![IndexOf(nxt[s])] = nxt[s]]
         /\ \A x \in held[s] : x # nxt[s] => IndexOf(x) # IndexOf(nxt[s])
<1>1. /\ nxt[s] \in held[s]
      /\ ring' = [ring EXCEPT ![IndexOf(nxt[s])] = nxt[s]]
  BY DEF FillSlot, FillInv, WriteOrder
<1>2. nxt[s] \in Int /\ IndexOf(nxt[s]) \in Slots
  BY <1>1, HeldSlots
<1>3. ASSUME NEW x \in held[s], x # nxt[s], IndexOf(x) = IndexOf(nxt[s]) PROVE FALSE
  <2>1. PICK lo \in held[s], hi \in held[s] : held[s] = lo .. hi /\ hi - lo < Capacity
    BY DEF FillSlot, FillInv, WriteOrder
  <2>2. lo \in Int /\ hi \in Int /\ x \in Int
    BY HeldSlots
  <2>3. x - nxt[s] < Capacity /\ nxt[s] - x < Capacity
    BY <1>1, <1>2, <2>1, <2>2, CapacityAssumption
  <2> QED
    BY <1>2, <1>3, <2>2, <2>3, IndexUnique
<1> QED
  BY <1>1, <1>2, <1>3

LEMMA RingShapes ==
  ASSUME Next
  PROVE  UNCHANGED ring \/ \E s \in Senders : FillSlot(s)
<1>1. ASSUME NEW s \in Senders, SenderStep(s) PROVE UNCHANGED ring \/ FillSlot(s)
  BY <1>1 DEF SenderStep, LoadConsumed, CasClaim, CasRetry, PublishSlot, CloseLoad, CloseScan,
              CloseMark, CloseStore
<1>2. ASSUME NEW s \in Senders,
             \/ \E o \in Ops, k \in Limits : StartClaim(s, o, k)
             \/ CommitPanic(s) \/ SlotPermitPanic(s) \/ ForgetSlotPermit(s) \/ Abandon(s) \/ DropSender(s)
             \/ \E t \in Senders : CloneSender(s, t)
      PROVE  UNCHANGED ring
  BY <1>2 DEF StartClaim, CommitPanic, SlotPermitPanic, ForgetSlotPermit, Abandon, DropSender, CloneSender
<1>3. ASSUME NEW g \in Readers, ReaderStep(g) \/ ForgetGuard(g) PROVE UNCHANGED ring
  BY <1>3 DEF ReaderStep, StartRecv, ScanSlot, FinishGuard, ForgetGuard
<1>4. ASSUME NEW r \in Receivers, DropReceiver(r) PROVE UNCHANGED ring
  BY <1>4 DEF DropReceiver
<1>5. Terminated => UNCHANGED ring
  BY DEF Terminated, vars
<1> QED
  BY <1>1, <1>2, <1>3, <1>4, <1>5 DEF Next, SenderNext

\* Nothing that was written is overwritten while it is held, or published and
\* still to be read.
LEMMA FilledStays ==
  ASSUME IndInv, FillInv, Next, NEW x, Filled(x),
         \/ \E u \in Senders : x \in held[u]
         \/ \E r \in Receivers : Open(r) /\ x \in published /\ x > consumed[r]
  PROVE  Filled(x)'
<1>1. CASE UNCHANGED ring
  BY <1>1 DEF Filled
<1>2. ASSUME NEW s \in Senders, FillSlot(s) PROVE Filled(x)'
  <2>1. ring' = [ring EXCEPT ![IndexOf(nxt[s])] = nxt[s]] /\ nxt[s] \in held[s]
    BY <1>2, FillEffect
  <2>2. IndexOf(nxt[s]) \in Slots /\ ring \in [Slots -> Int]
    BY <2>1, HeldSlots DEF IndInv, TypeOK
  <2>3. CASE x = nxt[s]
    BY <2>1, <2>2, <2>3 DEF Filled
  <2>4. CASE x # nxt[s]
    <3>1. IndexOf(x) # IndexOf(nxt[s])
      <4>1. CASE x \in held[s]
        BY <1>2, <2>4, <4>1, FillEffect
      <4>2. ASSUME NEW u \in Senders, u # s, x \in held[u] PROVE IndexOf(x) # IndexOf(nxt[s])
        BY <2>1, <4>2, HeldSlots
      <4>3. ASSUME NEW r \in Receivers, Open(r), x \in published, x > consumed[r]
            PROVE  IndexOf(x) # IndexOf(nxt[s])
        BY <2>1, <4>3, HeldSlots
      <4> QED
        BY <4>1, <4>2, <4>3
    <3> QED
      BY <2>1, <2>2, <3>1 DEF Filled
  <2> QED
    BY <2>3, <2>4
<1> QED
  BY <1>1, <1>2, RingShapes

\* What a step of another sender, of a reader or of a receiver does to a sender.
LEMMA OthersStep ==
  ASSUME TypeOK, Next, NEW u \in Senders, ~SenderNext(u)
  PROVE  \/ /\ pc'[u] = pc[u] /\ att'[u] = att[u] /\ held'[u] = held[u]
            /\ nxt'[u] = nxt[u] /\ cl'[u] = cl[u]
         \/ pc[u] = "none" /\ pc'[u] = "idle" /\ held'[u] = held[u]
<1>1. ASSUME NEW s \in Senders \ {u}, SenderNext(s)
      PROVE  \/ /\ pc'[u] = pc[u] /\ att'[u] = att[u] /\ held'[u] = held[u]
                /\ nxt'[u] = nxt[u] /\ cl'[u] = cl[u]
             \/ pc[u] = "none" /\ pc'[u] = "idle" /\ held'[u] = held[u]
  <2>1. CASE \E o \in Ops, k \in Limits : StartClaim(s, o, k)
    BY <2>1 DEF StartClaim, TypeOK
  <2>2. CASE LoadConsumed(s) \/ CasClaim(s) \/ CasRetry(s)
    BY <2>2 DEF LoadConsumed, CasClaim, CasRetry, GiveUp, TypeOK
  <2>3. CASE FillSlot(s) \/ CommitPanic(s) \/ SlotPermitPanic(s) \/ ForgetSlotPermit(s) \/ Abandon(s)
    BY <2>3 DEF FillSlot, CommitPanic, SlotPermitPanic, ForgetSlotPermit, Abandon, TypeOK
  <2>4. CASE \E x \in held[s] : PublishSlot(s, x)
    BY <2>4 DEF PublishSlot, TypeOK
  <2>5. CASE CloseLoad(s) \/ CloseScan(s) \/ CloseMark(s) \/ CloseStore(s)
    BY <2>5 DEF CloseLoad, CloseScan, CloseMark, CloseStore, TypeOK
  <2>6. CASE DropSender(s)
    BY <2>6 DEF DropSender, TypeOK
  <2>7. CASE \E t \in Senders : CloneSender(s, t)
    BY <2>7 DEF CloneSender, TypeOK
  <2> QED
    BY <1>1, <2>1, <2>2, <2>3, <2>4, <2>5, <2>6, <2>7 DEF SenderNext, SenderStep
<1>2. ASSUME NEW g \in Readers, ReaderStep(g) \/ ForgetGuard(g) PROVE UNCHANGED senderVars
  BY <1>2 DEF ReaderStep, StartRecv, ScanSlot, FinishGuard, ForgetGuard
<1>3. ASSUME NEW r \in Receivers, DropReceiver(r) PROVE UNCHANGED senderVars
  BY <1>3 DEF DropReceiver
<1>4. Terminated => UNCHANGED senderVars
  BY DEF Terminated, vars
<1>5. UNCHANGED senderVars => /\ pc'[u] = pc[u] /\ att'[u] = att[u] /\ held'[u] = held[u]
                              /\ nxt'[u] = nxt[u] /\ cl'[u] = cl[u]
  BY DEF senderVars
<1> QED
  BY <1>1, <1>2, <1>3, <1>4, <1>5 DEF Next

LEMMA RunLength ==
  ASSUME NEW lo \in Int, NEW hi \in Int, lo < hi, hi <= lo + Capacity
  PROVE  hi - lo \in 1 .. Capacity /\ lo + (hi - lo) = hi /\ hi - (lo + 1) < Capacity
BY CapacityAssumption

\* Every claim is a run within a ring that is filled from the bottom up.
LEMMA WriteOrderStep ==
  ASSUME IndInv, FillInv, LimitsFit, NoSkippedSlot, Next, NEW u \in Senders
  PROVE  WriteOrder(u)'
<1> USE DEF WriteOrder, Closing
<1>0. /\ TypeOK /\ WriteOrder(u)
      /\ \A x \in held[u] : Filled(x) => Filled(x)'
  <2>1. ASSUME NEW x \in held[u], Filled(x) PROVE Filled(x)'
    BY <2>1, FilledStays
  <2> QED
    BY <2>1 DEF IndInv, FillInv
<1>1. CASE ~SenderNext(u)
  BY <1>0, <1>1, OthersStep
<1>2. ASSUME NEW o \in Ops, NEW k \in Limits, StartClaim(u, o, k) PROVE WriteOrder(u)'
  <2>1. CutLimit(k) <= Capacity
    BY LimitsAssumption, WidthAssumption, CapacityAssumption DEF CutLimit, MinOf, AsI64
  <2> QED
    BY <1>0, <1>2, <2>1 DEF StartClaim, TypeOK
<1>3. CASE LoadConsumed(u) \/ CasRetry(u)
  BY <1>0, <1>3 DEF LoadConsumed, CasRetry, GiveUp, TypeOK, AttemptType
<1>4. CASE CasClaim(u)
  <2>1. /\ claimed' = ClaimEnd(att[u]) /\ att[u] \in AttemptType /\ att[u].want <= Capacity
        /\ HasRoom(att[u].last, att[u].gmin) /\ att[u].want >= 1
    BY <1>0, <1>4 DEF CasClaim, IndInv, AttemptSound, TypeOK
  <2>2. claimed \in Int /\ claimed' \in Int /\ claimed < claimed' /\ claimed' <= claimed + Capacity
    <3>1. claimed \in Int /\ claimed' \in Int /\ claimed < claimed' /\ claimed = att[u].last
      BY <1>4, CasClaimEffect, Types DEF IndInv
    <3>2. att[u].gmin \in Int /\ att[u].want \in Int
      BY <2>1, ClaimArithmetic DEF AttemptType
    <3>3. AvailableSlots(claimed, att[u].gmin) \in Int
      BY <3>1, <3>2, CapacityAssumption DEF AvailableSlots
    <3>4. MinOf(AvailableSlots(claimed, att[u].gmin), att[u].want) <= Capacity
      BY <2>1, <3>2, <3>3, CapacityAssumption DEF MinOf
    <3>5. MinOf(AvailableSlots(claimed, att[u].gmin), att[u].want) \in Int
      BY <3>2, <3>3 DEF MinOf
    <3> QED
      BY <2>1, <3>1, <3>4, <3>5, CapacityAssumption DEF ClaimEnd
  <2>3. held'[u] = (claimed + 1) .. claimed' /\ nxt'[u] = claimed + 1 /\ pc'[u] = "write"
    BY <1>0, <1>4, CasClaimEffect DEF CasClaim, TypeOK
  <2>4. claimed + 1 \in held'[u] /\ claimed' \in held'[u] /\ claimed' - (claimed + 1) < Capacity
    <3>1. claimed' - (claimed + 1) < Capacity
      BY <2>2, RunLength
    <3>2. claimed + 1 \in (claimed + 1) .. claimed' /\ claimed' \in (claimed + 1) .. claimed'
      BY <2>2
    <3> QED
      BY <2>3, <3>1, <3>2
  <2>5. \A x \in held'[u] : ~(x < nxt'[u])
    BY <2>2, <2>3
  <2> QED
    BY <2>2, <2>3, <2>4, <2>5
<1>5. CASE FillSlot(u)
  <2>1. /\ nxt[u] \in held[u] /\ nxt[u] \in Int /\ IndexOf(nxt[u]) \in Slots
        /\ ring'[IndexOf(nxt[u])] = nxt[u] /\ held' = held /\ nxt'[u] = nxt[u] + 1
        /\ pc'[u] = IF nxt[u] + 1 \in held[u] THEN "write" ELSE "publish"
    BY <1>0, <1>5, FillEffect, HeldSlots DEF FillSlot, AfterFill, TypeOK
  <2>2. \A x : x = nxt[u] => Filled(x)'
    BY <2>1, <1>5 DEF Filled, FillSlot
  <2>3. \A x \in held[u] : x \in Int /\ (x < nxt[u] => Filled(x)')
    BY <1>0, <1>5, HeldSlots DEF FillSlot
  <2>4. PICK lo \in held[u], hi \in held[u] : held[u] = lo .. hi /\ hi - lo < Capacity
    BY <1>0, <1>5 DEF FillSlot
  <2>5. \A x \in held[u] : x < nxt[u] + 1 => Filled(x)'
    <3>1. \A x \in held[u] : x < nxt[u] + 1 => x < nxt[u] \/ x = nxt[u]
      BY <2>1, <2>3
    <3> QED
      BY <2>2, <2>3, <3>1
  <2>6. CASE nxt[u] + 1 \in held[u]
    BY <2>1, <2>4, <2>5, <2>6
  <2>7. CASE nxt[u] + 1 \notin held[u]
    <3>1. \A x \in held[u] : x < nxt[u] + 1
      BY <2>1, <2>3, <2>4, <2>7
    <3> QED
      BY <2>1, <2>5, <2>7, <3>1
  <2> QED
    BY <2>6, <2>7
<1>6. CASE CommitPanic(u) \/ Abandon(u) \/ DropSender(u)
  BY <1>0, <1>6 DEF CommitPanic, Abandon, DropSender, TypeOK
<1>7. ASSUME NEW x \in held[u], PublishSlot(u, x) PROVE WriteOrder(u)'
  <2>1. /\ held'[u] = held[u] \ {x} /\ ring' = ring /\ pc[u] = "publish"
        /\ pc'[u] \in {"idle", "publish"} /\ (held[u] = {x} => pc'[u] = "idle")
        /\ (held[u] # {x} => pc'[u] = "publish")
    BY <1>0, <1>7 DEF PublishSlot, TypeOK
  <2>2. \A y \in held'[u] : Filled(y)'
    BY <1>0, <2>1
  <2> QED
    BY <2>1, <2>2
<1>8. CASE CloseLoad(u) \/ CloseScan(u) \/ CloseMark(u) \/ CloseStore(u)
  BY <1>0, <1>8 DEF CloseLoad, CloseScan, CloseMark, CloseStore, TypeOK, CloseType
<1>9. ASSUME NEW t \in Senders, CloneSender(u, t) PROVE WriteOrder(u)'
  BY <1>0, <1>9 DEF CloneSender, Alive, TypeOK
<1>10. ~SlotPermitPanic(u) /\ ~ForgetSlotPermit(u)
  BY DEF SlotPermitPanic, ForgetSlotPermit, NoSkippedSlot
<1> QED
  BY <1>1, <1>2, <1>3, <1>4, <1>5, <1>6, <1>7, <1>8, <1>9, <1>10 DEF SenderNext, SenderStep

\* A step moves the cursor of a receiver that stays open forward, if at all.
LEMMA OpenReceiverStep ==
  ASSUME IndInv, OneGuardPerReceiver, Next, NEW r \in Receivers, consumed'[r] # SHUTDOWN_OPEN
  PROVE  Open(r) /\ consumed[r] \in Int /\ consumed'[r] \in Int /\ consumed[r] <= consumed'[r]
<1>0. TypeOK /\ (Open(r) => consumed[r] \in Int)
  BY Types DEF IndInv
<1>1. CASE consumed' = consumed
  BY <1>0, <1>1 DEF Open
<1>2. ASSUME NEW g \in Readers, FinishGuard(g) PROVE Open(r) /\ consumed'[r] \in Int /\ consumed[r] <= consumed'[r]
  <2>1. CASE r = rxOf[g]
    BY <1>0, <1>2, <2>1, FinishGuardEffect DEF TypeOK
  <2>2. CASE r # rxOf[g]
    BY <1>0, <1>2, <2>2, FinishGuardEffect DEF TypeOK, Open
  <2> QED
    BY <2>1, <2>2
<1>3. ASSUME NEW q \in Receivers, DropReceiver(q) PROVE Open(r) /\ consumed'[r] = consumed[r]
  BY <1>3 DEF DropReceiver, TypeOK, IndInv, Open
<1>4. (\E s \in Senders : CasClaim(s) \/ CloseStore(s)) => consumed' = consumed
  BY DEF CasClaim, CloseStore
<1> QED
  BY <1>0, <1>1, <1>2, <1>3, <1>4, StepShapes, HeldShrinks

\* What is published and still to be read stays in its slot.
LEMMA PublishedFilledStep ==
  ASSUME IndInv, FillInv, OneGuardPerReceiver, LimitsFit, Next
  PROVE  PublishedFilled'
<1> SUFFICES ASSUME NEW r \in Receivers, consumed'[r] # SHUTDOWN_OPEN,
                    NEW y \in published', y > consumed'[r]
             PROVE  Filled(y)'
  BY DEF PublishedFilled, Open
<1>1. Open(r) /\ consumed[r] \in Int /\ consumed'[r] \in Int /\ consumed[r] <= consumed'[r]
  BY OpenReceiverStep
<1>2. CASE y \in published
  <2>1. y > consumed[r]
    BY <1>1, <1>2 DEF IndInv, TypeOK
  <2>2. Filled(y)
    BY <1>1, <1>2, <2>1 DEF FillInv, PublishedFilled
  <2> QED
    BY <1>1, <1>2, <2>1, <2>2, FilledStays
<1>3. CASE y \notin published
  <2>1. (\E s \in Senders : CasClaim(s) \/ CommitPanic(s) \/ Abandon(s) \/ CloseStore(s))
          \/ (\E g \in Readers : FinishGuard(g)) \/ (\E q \in Receivers : DropReceiver(q))
        => published' = published
    BY DEF CasClaim, CommitPanic, Abandon, CloseStore, FinishGuard, DropReceiver
  <2>2. PICK s \in Senders : \E x \in held[s] : PublishSlot(s, x)
    BY <1>3, <2>1, StepShapes
  <2>3. \A x : PublishSlot(s, x) => published' = published \cup {x}
    BY DEF PublishSlot
  <2>4. y \in held[s] /\ PublishSlot(s, y)
    BY <1>3, <2>2, <2>3
  <2>5. Filled(y)
    BY <2>4 DEF PublishSlot, FillInv, WriteOrder
  <2> QED
    BY <2>4, <2>5, FilledStays
<1> QED
  BY <1>2, <1>3

\* Only the mark of a close sets a shutdown bit.
LEMMA MarksComeFromClose ==
  ASSUME IndInv, Next, NEW i \in Slots, shut'[i], ~shut[i]
  PROVE  \E s \in Senders : CloseMark(s)
<1>0. shut \in [Slots -> BOOLEAN]
  BY DEF IndInv, TypeOK
<1>1. ASSUME NEW s \in Senders, SenderStep(s) PROVE CloseMark(s)
  <2>1. CASE \E x \in held[s] : PublishSlot(s, x)
    BY <1>0, <2>1 DEF PublishSlot
  <2>2. CASE LoadConsumed(s) \/ CasClaim(s) \/ CasRetry(s) \/ FillSlot(s) \/ CloseLoad(s)
               \/ CloseScan(s) \/ CloseStore(s)
    BY <2>2 DEF LoadConsumed, CasClaim, CasRetry, FillSlot, CloseLoad, CloseScan, CloseStore, slotVars
  <2> QED
    BY <1>1, <2>1, <2>2 DEF SenderStep
<1>2. ASSUME NEW s \in Senders,
             \/ \E o \in Ops, k \in Limits : StartClaim(s, o, k)
             \/ CommitPanic(s) \/ SlotPermitPanic(s) \/ ForgetSlotPermit(s) \/ Abandon(s) \/ DropSender(s)
             \/ \E t \in Senders : CloneSender(s, t)
      PROVE  FALSE
  BY <1>2 DEF StartClaim, CommitPanic, SlotPermitPanic, ForgetSlotPermit, Abandon, DropSender, CloneSender, slotVars
<1>3. ASSUME NEW g \in Readers, ReaderStep(g) \/ ForgetGuard(g) PROVE FALSE
  BY <1>3 DEF ReaderStep, StartRecv, ScanSlot, FinishGuard, ForgetGuard, slotVars
<1>4. ASSUME NEW r \in Receivers, DropReceiver(r) PROVE FALSE
  BY <1>4 DEF DropReceiver, slotVars
<1>5. ~Terminated
  BY DEF Terminated, vars, slotVars
<1> QED
  BY <1>1, <1>2, <1>3, <1>4, <1>5 DEF Next, SenderNext

\* A step of one sender leaves the others where they are, but for one it clones.
LEMMA PlacesStep ==
  ASSUME TypeOK, NEW s \in Senders, SenderNext(s)
  PROVE  \/ \A t \in Senders \ {s} : pc'[t] = pc[t]
         \/ \E t \in Senders : CloneSender(s, t)
<1>1. CASE \E o \in Ops, k \in Limits : StartClaim(s, o, k)
  BY <1>1 DEF StartClaim, TypeOK
<1>2. CASE LoadConsumed(s) \/ CasClaim(s) \/ CasRetry(s)
  BY <1>2 DEF LoadConsumed, CasClaim, CasRetry, GiveUp, TypeOK
<1>3. CASE FillSlot(s) \/ CommitPanic(s) \/ SlotPermitPanic(s) \/ ForgetSlotPermit(s) \/ Abandon(s)
  BY <1>3 DEF FillSlot, CommitPanic, SlotPermitPanic, ForgetSlotPermit, Abandon, TypeOK
<1>4. CASE \E x \in held[s] : PublishSlot(s, x)
  BY <1>4 DEF PublishSlot, TypeOK
<1>5. CASE CloseLoad(s) \/ CloseScan(s) \/ CloseMark(s) \/ CloseStore(s) \/ DropSender(s)
  BY <1>5 DEF CloseLoad, CloseScan, CloseMark, CloseStore, DropSender, TypeOK
<1> QED
  BY <1>1, <1>2, <1>3, <1>4, <1>5 DEF SenderNext, SenderStep

\* Only a mark reaches "cstore", only a store leaves it, and a sender goes away by
\* a drop that leaves others behind or by that store.
LEMMA EndShapes ==
  ASSUME IndInv, FillInv, NoSkippedSlot, NEW s \in Senders, SenderNext(s), ~CloseStore(s)
  PROVE  /\ claimedDown' = claimedDown /\ Alive(s)
         /\ pc[s] = "cstore" => pc'[s] = "cstore"
         /\ pc'[s] = "cstore" => pc[s] = "cstore" \/ CloseMark(s)
         /\ Alive(s)' \/ \E t \in Senders \ {s} : Alive(t) /\ pc'[t] = pc[t]
<1> USE DEF Alive
<1>0. TypeOK
  BY DEF IndInv
<1>1. CASE \E o \in Ops, k \in Limits : StartClaim(s, o, k)
  BY <1>0, <1>1 DEF StartClaim, TypeOK, claimVars
<1>2. CASE LoadConsumed(s) \/ CasClaim(s) \/ CasRetry(s)
  BY <1>0, <1>2 DEF LoadConsumed, CasClaim, CasRetry, GiveUp, TypeOK, claimVars
<1>3. CASE FillSlot(s) \/ CommitPanic(s) \/ Abandon(s)
  BY <1>0, <1>3 DEF FillSlot, AfterFill, CommitPanic, Abandon, TypeOK, claimVars
<1>4. CASE \E x \in held[s] : PublishSlot(s, x)
  BY <1>0, <1>4 DEF PublishSlot, TypeOK, claimVars
<1>5. CASE CloseLoad(s) \/ CloseScan(s) \/ CloseMark(s)
  BY <1>0, <1>5 DEF CloseLoad, CloseScan, CloseMark, TypeOK, claimVars
<1>6. CASE DropSender(s)
  BY <1>0, <1>6 DEF DropSender, DropCloses, TypeOK, claimVars
<1>7. CASE \E t \in Senders : CloneSender(s, t)
  BY <1>0, <1>7 DEF CloneSender, TypeOK, claimVars
<1>8. ~SlotPermitPanic(s) /\ ~ForgetSlotPermit(s)
  BY DEF SlotPermitPanic, ForgetSlotPermit, NoSkippedSlot
<1> QED
  BY <1>1, <1>2, <1>3, <1>4, <1>5, <1>6, <1>7, <1>8 DEF SenderNext, SenderStep

\* A close that stores its value has announced the end, and it stays announced.
LEMMA StoreKeepsOver ==
  ASSUME IndInv, NEW s \in Senders, CloseStore(s)
  PROVE  Over /\ Over'
<1>0. TypeOK /\ pc[s] = "cstore"
  BY DEF IndInv, CloseStore
<1>1. CASE cl[s].ret = "dropped"
  <2>1. \A t \in Senders \ {s} : ~Alive(t)
    BY <1>0, <1>1 DEF IndInv, CloseSound, Closing
  <2>2. pc' = [pc EXCEPT ![s] = "dropped"]
    BY <1>1 DEF CloseStore
  <2> QED
    BY <1>0, <2>1, <2>2 DEF Over, Alive, TypeOK
<1>2. CASE cl[s].ret # "dropped"
  <2>1. cl[s].val \in Int /\ cl[s].val >= 0
    BY <1>0, <1>2 DEF IndInv, CloseSound, Closing, TypeOK, CloseType
  <2>2. claimedDown'
    <3>1. cl[s].val # -1
      BY <2>1
    <3> QED
      BY <3>1 DEF CloseStore, DownAfterClose
  <2> QED
    BY <1>0, <2>2 DEF Over
<1> QED
  BY <1>1, <1>2

\* The end is announced by a mark, and never taken back.
LEMMA OverStep ==
  ASSUME IndInv, FillInv, NoSkippedSlot, Next
  PROVE  Over' = Over \/ \E s \in Senders : CloseMark(s) /\ Over'
<1> USE DEF Alive
<1>0. TypeOK
  BY DEF IndInv
<1>1. CASE UNCHANGED <<claimedDown, pc>>
  BY <1>1 DEF Over
<1>2. ASSUME NEW s \in Senders, CloseStore(s) PROVE Over' = Over
  BY <1>2, StoreKeepsOver DEF Over
<1>3. ASSUME NEW s \in Senders, NEW t \in Senders, CloneSender(s, t) PROVE Over' = Over
  BY <1>0, <1>3 DEF CloneSender, Over, TypeOK, claimVars
<1>4. ASSUME NEW s \in Senders, CloseMark(s) PROVE Over'
  BY <1>0, <1>4 DEF CloseMark, Over, TypeOK
<1>5. ASSUME NEW s \in Senders, SenderNext(s), ~CloseStore(s), ~CloseMark(s),
             \A t \in Senders \ {s} : pc'[t] = pc[t]
      PROVE  Over' = Over
  <2>1. /\ claimedDown' = claimedDown /\ Alive(s)
        /\ (pc[s] = "cstore") <=> (pc'[s] = "cstore")
        /\ Alive(s)' \/ \E t \in Senders \ {s} : Alive(t) /\ pc'[t] = pc[t]
    BY <1>5, EndShapes
  <2>2. (\E t \in Senders : pc'[t] = "cstore") <=> (\E t \in Senders : pc[t] = "cstore")
    BY <1>5, <2>1
  <2>3. \E t \in Senders : Alive(t)'
    BY <1>5, <2>1
  <2> QED
    BY <2>1, <2>2, <2>3 DEF Over
<1>6. ASSUME NEW g \in Readers, ReaderStep(g) \/ ForgetGuard(g) PROVE UNCHANGED <<claimedDown, pc>>
  BY <1>6 DEF ReaderStep, StartRecv, ScanSlot, FinishGuard, ForgetGuard, claimVars, senderVars
<1>7. ASSUME NEW r \in Receivers, DropReceiver(r) PROVE UNCHANGED <<claimedDown, pc>>
  BY <1>7 DEF DropReceiver, claimVars, senderVars
<1>8. Terminated => UNCHANGED <<claimedDown, pc>>
  BY DEF Terminated, vars, claimVars, senderVars
<1> QED
  BY <1>0, <1>1, <1>2, <1>3, <1>4, <1>5, <1>6, <1>7, <1>8, PlacesStep DEF Next

\* A slot is marked by a close that has announced the end, and a scan begins
\* without a verdict.
LEMMA MarksSoundStep ==
  ASSUME IndInv, FillInv, LimitsFit, NoSkippedSlot, Next
  PROVE  MarksSound'
<1>0. /\ TypeOK /\ MarksSound
      /\ rpc \in [Readers -> {"idle", "scan", "guard"}] /\ rd \in [Readers -> ScanType]
  BY DEF IndInv, FillInv, TypeOK
<1>1. ASSUME NEW i \in Slots, shut'[i] PROVE Over'
  <2>1. CASE shut[i]
    BY <1>0, <2>1, OverStep DEF MarksSound
  <2>2. CASE ~shut[i]
    <3>1. PICK s \in Senders : CloseMark(s)
      BY <1>1, <2>2, MarksComeFromClose
    <3> QED
      BY <1>0, <3>1 DEF CloseMark, Over, TypeOK
  <2> QED
    BY <2>1, <2>2
<1>2. ASSUME NEW g \in Readers, rpc'[g] = "scan", rd'[g].pos = rd'[g].base + 1
      PROVE  ~rd'[g].sd
  <2>1. CASE rpc'[g] = rpc[g] /\ rd'[g] = rd[g]
    BY <1>0, <1>2, <2>1 DEF MarksSound
  <2>2. CASE \E k \in Limits : StartRecv(g, k)
    BY <1>0, <2>2 DEF StartRecv
  <2>3. CASE ScanSlot(g)
    <3>1. rpc[g] = "scan" /\ rd[g].base < rd[g].pos /\ rd[g].base \in Int /\ rd[g].pos \in Int
      BY <1>0, <2>3 DEF ScanSlot, IndInv, ReaderSound, ScanType
    <3>2. rd'[g].base = rd[g].base /\ rd'[g].pos = rd[g].pos + 1
      BY <1>0, <1>2, <2>3 DEF ScanSlot
    <3> QED
      BY <1>2, <3>1, <3>2
  <2> QED
    BY <1>0, <1>2, <2>1, <2>2, <2>3, ReaderShapes
<1> QED
  BY <1>1, <1>2 DEF MarksSound

LEMMA FillInvNext ==
  ASSUME OneGuardPerReceiver, LimitsFit, NoSkippedSlot, IndInv, FillInv, [Next]_vars
  PROVE  FillInv'
<1>1. CASE Next
  <2>1. \A u \in Senders : WriteOrder(u)'
    BY <1>1, WriteOrderStep
  <2>2. PublishedFilled'
    BY <1>1, PublishedFilledStep
  <2>3. MarksSound'
    BY <1>1, MarksSoundStep
  <2> QED
    BY <2>1, <2>2, <2>3 DEF FillInv
<1>2. CASE UNCHANGED vars
  <2>1. MarksSound'
    BY <1>2 DEF vars, claimVars, slotVars, senderVars, readerVars, FillInv, MarksSound, Over, Alive
  <2>2. (\A u \in Senders : WriteOrder(u)') /\ PublishedFilled'
    BY <1>2 DEF vars, claimVars, slotVars, senderVars, readerVars, FillInv, WriteOrder,
                PublishedFilled, Filled, Open
  <2> QED
    BY <2>1, <2>2 DEF FillInv
<1> QED
  BY <1>1, <1>2

-------------------------------------------------------------------------------
(* What a guard shows.                                                         *)

\* What a guard covers is published, still to be read, and in the window of its
\* receiver.
LEMMA GuardCovers ==
  ASSUME IndInv, FillInv, NEW g \in Readers, rpc[g] = "guard"
  PROVE  LET r == rxOf[g] IN
         /\ r \in Receivers /\ Open(r) /\ consumed[r] \in Int /\ rd[g].top \in Int
         /\ consumed[r] < rd[g].top /\ rd[g].top <= consumed[r] + Capacity
         /\ GuardRange(g) = (consumed[r] + 1) .. rd[g].top
         /\ \A y \in GuardRange(g) : y \in published /\ y > consumed[r] /\ Filled(y)
<1> DEFINE r == rxOf[g]
<1>1. /\ r \in Receivers /\ Open(r) /\ rd[g].base = consumed[r]
      /\ rd[g].base < rd[g].top /\ rd[g].top <= rd[g].base + Capacity
      /\ \A y \in (rd[g].base + 1) .. rd[g].top : flag[IndexOf(y)] = AvailableFlag(y)
  BY LocalTypes DEF IndInv, ReaderSound
<1>2. consumed[r] \in Int /\ rd[g].top \in Int
  BY <1>1, Types DEF IndInv, ScanType
<1>3. GuardRange(g) = (consumed[r] + 1) .. rd[g].top
  BY <1>1 DEF GuardRange
<1>4. ASSUME NEW y \in GuardRange(g) PROVE y \in published /\ y > consumed[r] /\ Filled(y)
  <2>1. y > consumed[r] /\ y \in Window(r)
    BY <1>1, <1>2, <1>3, CapacityAssumption DEF Window
  <2>2. y \in published
    BY <1>1, <1>3, <2>1 DEF IndInv, FlagsSound, Settled
  <2> QED
    BY <1>1, <2>1, <2>2 DEF FillInv, PublishedFilled
<1> QED
  BY <1>1, <1>2, <1>3, <1>4

\* The second strengthening: what is claimed is filled before it is published, and
\* stays in its slot until every live receiver is past it (guards of permit.rs).
THEOREM FillInvariant ==
  ASSUME OneGuardPerReceiver, LimitsFit, NoSkippedSlot
  PROVE  Spec => []FillInv
<1>1. Init => FillInv
  BY InitFillInv
<1>2. IndInv /\ FillInv /\ [Next]_vars => FillInv'
  BY FillInvNext
<1> QED
  BY <1>1, <1>2, Invariant, PTL DEF Spec

\* What a guard shows at a sequence is what the claim of that sequence wrote, for
\* as long as the guard lives (guards.rs, ringbuffer.rs:54-76).
THEOREM GuardsShowClaims ==
  ASSUME OneGuardPerReceiver, LimitsFit, NoSkippedSlot
  PROVE  Spec => []GuardShowsItsClaims
<1>1. IndInv /\ FillInv => GuardShowsItsClaims
  <2> SUFFICES ASSUME IndInv, FillInv, NEW g \in Readers, NEW y \in GuardRange(g)
               PROVE  Filled(y)
    BY DEF GuardShowsItsClaims, Filled
  <2>1. rpc[g] = "guard"
    BY DEF GuardRange
  <2> QED
    BY <2>1, GuardCovers
<1> QED
  BY <1>1, Invariant, FillInvariant, PTL

-------------------------------------------------------------------------------
(* The channel implements FanoutLog.                                           *)

\* What readers see when every slot holds the item of its sequence.
View == [g \in Readers |-> [y \in GuardRange(g) |-> y]]

LEMMA ShownIsView ==
  ASSUME IndInv, FillInv
  PROVE  Shown = View
<1>1. ASSUME NEW g \in Readers, NEW y \in GuardRange(g) PROVE ring[IndexOf(y)] = y
  <2>1. rpc[g] = "guard"
    BY DEF GuardRange
  <2> QED
    BY <2>1, GuardCovers DEF Filled
<1> QED
  BY <1>1 DEF Shown, View

LEMMA ViewKept ==
  ASSUME \A g \in Readers : GuardRange(g)' = GuardRange(g)
  PROVE  View' = View
BY DEF View

\* A step of one reader changes only what it sees itself.
LEMMA ViewChanged ==
  ASSUME NEW g \in Readers, NEW G, GuardRange(g)' = G,
         \A h \in Readers \ {g} : rpc'[h] = rpc[h] /\ rd'[h] = rd[h]
  PROVE  View' = [View EXCEPT ![g] = [y \in G |-> y]]
<1>1. \A h \in Readers \ {g} : GuardRange(h)' = GuardRange(h)
  BY DEF GuardRange
<1>2. \A h \in Readers : View'[h] = IF h = g THEN [y \in G |-> y] ELSE View[h]
  BY <1>1 DEF View
<1> QED
  BY <1>2 DEF View

\* A reader without a guard sees nothing.
LEMMA NothingSeen ==
  ASSUME NEW g \in Readers, rpc[g] # "guard"
  PROVE  View[g] = Log!NoBatch
<1>1. GuardRange(g) = {}
  BY DEF GuardRange
<1> QED
  BY <1>1 DEF View, Log!NoBatch

\* What stays when a sender only works on its own locals, on the slots or on
\* their state words.
LEMMA LogKept ==
  ASSUME Shown = View, Shown' = View', Over' = Over,
         UNCHANGED <<claimed, claimedDown, held, published, consumed, rpc, rd, rres>>
  PROVE  UNCHANGED Log!logVars
<1>1. View' = View
  BY ViewKept DEF GuardRange
<1>2. Tail' = Tail /\ Owned' = Owned
  BY DEF Tail, Owned
<1> QED
  BY <1>1, <1>2 DEF Log!logVars

LEMMA InitLog ==
  ASSUME Init
  PROVE  Log!Init
<1>1. Tail = -1 /\ Owned = {} /\ Over = FALSE
  BY DEF Init, Tail, Owned, Over, Alive
<1>2. Shown = [g \in Readers |-> Log!NoBatch]
  <2>1. \A g \in Readers : GuardRange(g) = {}
    BY DEF Init, GuardRange
  <2> QED
    BY <2>1 DEF Shown, Log!NoBatch
<1> QED
  BY <1>1, <1>2 DEF Init, Log!Init

LEMMA OwnedGrows ==
  ASSUME IndInv, FillInv, NEW s \in Senders, CasClaim(s)
  PROVE  Owned' = Owned \cup ((claimed + 1) .. claimed')
<1>1. held[s] = {}
  BY DEF CasClaim, FillInv, WriteOrder
<1>2. held' = [held EXCEPT ![s] = (claimed + 1) .. claimed'] /\ held \in [Senders -> SUBSET Int]
  BY CasClaimEffect DEF IndInv, TypeOK
<1>3. \A t \in Senders : held'[t] = IF t = s THEN (claimed + 1) .. claimed' ELSE held[t]
  BY <1>2
<1> QED
  BY <1>1, <1>3 DEF Owned

\* A successful compare_exchange gives out the next sequences of the log.
LEMMA CasIsClaim ==
  ASSUME IndInv, FillInv, Shown = View, Shown' = View', Over' = Over, NEW s \in Senders, CasClaim(s)
  PROVE  \E n \in 1 .. Capacity : Log!Claim(n)
<1> DEFINE n == claimed' - claimed
<1>1. /\ ~claimedDown /\ ~claimedDown' /\ claimed \in Int /\ claimed' \in Int
      /\ claimed < claimed' /\ claimed' <= claimed + Capacity
      /\ \A r \in Receivers : Open(r) => claimed' <= consumed[r] + Capacity
  <2>1. claimed \in Int /\ \A r \in Receivers : Open(r) => consumed[r] \in Int
    BY Types DEF IndInv
  <2> QED
    BY <2>1, CasClaimEffect, CapacityAssumption
<1>2. Tail = claimed /\ Tail' = claimed'
  BY <1>1 DEF Tail
<1>3. Owned' = Owned \cup ((claimed + 1) .. claimed')
  BY OwnedGrows
<1>4. View' = View
  BY ViewKept DEF GuardRange, CasClaim, readerVars
<1>5. n \in 1 .. Capacity /\ claimed + n = claimed'
  BY <1>1, RunLength
<1>6. \A r \in Receivers : Log!Live(r) => Tail + n <= consumed[r] + Capacity
  BY <1>1, <1>2, <1>5 DEF Log!Live, Open
<1>7. Log!Claim(n)
  BY <1>1, <1>2, <1>3, <1>4, <1>5, <1>6 DEF Log!Claim, CasClaim, readerVars
<1> QED
  BY <1>5, <1>7

\* What a sender gives up or publishes is nobody else's.
LEMMA OwnedShrinks ==
  ASSUME IndInv, NEW s \in Senders, NEW X \in SUBSET held[s],
         held' = [held EXCEPT ![s] = held[s] \ X]
  PROVE  Owned' = Owned \ X /\ X \in SUBSET Owned
<1>1. held \in [Senders -> SUBSET Int]
  BY DEF IndInv, TypeOK
<1>2. \A t \in Senders : held'[t] = IF t = s THEN held[s] \ X ELSE held[t]
  BY <1>1
<1>3. \A t \in Senders \ {s} : held[t] \cap X = {}
  BY DEF IndInv, HeldApart
<1> QED
  BY <1>2, <1>3 DEF Owned

LEMMA PublishIsPublish ==
  ASSUME IndInv, FillInv, Shown = View, Shown' = View', Over' = Over,
         NEW s \in Senders, NEW x \in held[s], PublishSlot(s, x)
  PROVE  \E y \in Owned : Log!Publish(y)
<1>1. held' = [held EXCEPT ![s] = held[s] \ {x}] /\ {x} \in SUBSET held[s]
  BY DEF PublishSlot, IndInv, TypeOK
<1>2. Owned' = Owned \ {x} /\ x \in Owned
  <2>1. Owned' = Owned \ {x} /\ {x} \in SUBSET Owned
    BY <1>1, OwnedShrinks
  <2> QED
    BY <2>1
<1>3. View' = View /\ Tail' = Tail
  BY ViewKept DEF GuardRange, PublishSlot, readerVars, Tail, claimVars
<1> QED
  BY <1>2, <1>3 DEF Log!Publish, PublishSlot, claimVars, readerVars

LEMMA LoseIsLose ==
  ASSUME IndInv, FillInv, Shown = View, Shown' = View', Over' = Over,
         NEW s \in Senders, CommitPanic(s) \/ Abandon(s)
  PROVE  \E X \in SUBSET Owned : Log!Lose(X)
<1>1. held' = [held EXCEPT ![s] = held[s] \ held[s]]
  BY DEF CommitPanic, Abandon
<1>2. Owned' = Owned \ held[s] /\ held[s] \in SUBSET Owned
  <2>1. held[s] \in SUBSET held[s]
    OBVIOUS
  <2> QED
    BY <1>1, <2>1, OwnedShrinks
<1>3. View' = View /\ Tail' = Tail
  BY ViewKept DEF GuardRange, CommitPanic, Abandon, readerVars, Tail, claimVars
<1>4. Log!Lose(held[s])
  BY <1>2, <1>3 DEF Log!Lose, CommitPanic, Abandon, claimVars, readerVars
<1> QED
  BY <1>2, <1>4

LEMMA CloseIsShutdown ==
  ASSUME IndInv, FillInv, Shown = View, Shown' = View', Over' = Over, NEW s \in Senders, CloseStore(s)
  PROVE  Log!Shutdown \/ UNCHANGED Log!logVars
<1>1. UNCHANGED <<held, published, consumed, rpc, rd, rres>>
  BY DEF CloseStore, readerVars
<1>2. CASE UNCHANGED <<claimed, claimedDown>>
  BY <1>1, <1>2, LogKept
<1>3. CASE claimedDown'
  <2>1. Tail' = -1 /\ Owned' = Owned /\ View' = View
    BY <1>1, <1>3, ViewKept DEF Tail, Owned, GuardRange
  <2> QED
    BY <1>1, <1>3, <2>1, StoreKeepsOver DEF Log!Shutdown
<1> QED
  BY <1>2, <1>3, CloseStoreEffect

\* A scan that found items shows the next ones; one that found none was right.
LEMMA ScanIsAnswer ==
  ASSUME IndInv, FillInv, Shown = View, Shown' = View', Over' = Over, NEW g \in Readers, ScanSlot(g)
  PROVE  \/ \E n \in 1 .. Capacity : Log!Show(g, n)
         \/ \E answer \in {"Empty", "Disconnected"} : Log!Miss(g, answer)
         \/ UNCHANGED Log!logVars
<1> DEFINE r == rxOf[g]
           d == rd[g]
           last == IF SlotReady(d.pos) THEN d.pos ELSE d.pos - 1
           outcome == ScanOutcome(d.base, last, d.sd \/ shut[IndexOf(d.pos)])
<1>0. /\ UNCHANGED <<claimed, claimedDown, held, published, consumed>>
      /\ Tail' = Tail /\ Owned' = Owned
  BY DEF ScanSlot, claimVars, senderVars, Tail, Owned
<1>1. /\ r \in Receivers /\ Open(r) /\ d.base = consumed[r] /\ d.base \in Int
      /\ d.pos \in Int /\ d.top \in Int /\ last \in Int
      /\ d.base < d.pos /\ d.pos <= d.top /\ d.top <= d.base + Capacity
      /\ \A y \in (d.base + 1) .. (d.pos - 1) : flag[IndexOf(y)] = AvailableFlag(y)
      /\ rpc[g] = "scan" /\ rpc \in [Readers -> {"idle", "scan", "guard"}]
      /\ rd \in [Readers -> ScanType] /\ rres \in [Readers -> Outcomes]
  <2>1. rpc[g] = "scan"
    BY DEF ScanSlot
  <2>2. d \in ScanType
    BY DEF IndInv, TypeOK
  <2> QED
    BY <2>1, <2>2, LocalTypes DEF IndInv, TypeOK, ReaderSound, ScanType
<1>2. View[g] = Log!NoBatch
  BY <1>1, NothingSeen
<1>3. CASE SlotReady(d.pos) /\ d.pos < d.top
  <2>1. rpc' = rpc /\ rres' = rres /\ \A h \in Readers \ {g} : rd'[h] = rd[h]
    BY <1>1, <1>3 DEF ScanSlot
  <2>2. \A h \in Readers : GuardRange(h)' = GuardRange(h)
    BY <1>1, <2>1 DEF GuardRange
  <2>3. View' = View
    BY <2>2, ViewKept
  <2> QED
    BY <1>0, <2>1, <2>3 DEF Log!logVars
<1>4. CASE ~(SlotReady(d.pos) /\ d.pos < d.top) /\ outcome = "Ok"
  <2>1. /\ rres' = [rres EXCEPT ![g] = "Ok"] /\ rpc' = [rpc EXCEPT ![g] = "guard"]
        /\ rd' = [rd EXCEPT ![g] = [base |-> d.base, top |-> last, pos |-> 0, sd |-> FALSE]]
    BY <1>4 DEF ScanSlot
  <2>2. last > d.base /\ last <= d.base + Capacity
    BY <1>1, <1>4, CapacityAssumption DEF ScanOutcome
  <2> DEFINE n == last - d.base
  <2>3. n \in 1 .. Capacity /\ d.base + n = last
    BY <1>1, <2>2, RunLength
  <2>4. Log!NextBatch(g, n) = (d.base + 1) .. last
    BY <1>1, <2>3 DEF Log!NextBatch
  <2>5. ASSUME NEW y \in (d.base + 1) .. last PROVE y \in published
    <3>1. flag[IndexOf(y)] = AvailableFlag(y)
      BY <1>1 DEF SlotReady
    <3>2. y \in Window(r)
      BY <1>1, <2>2, CapacityAssumption DEF Window
    <3> QED
      BY <1>1, <3>1, <3>2 DEF IndInv, FlagsSound, Settled
  <2>6. GuardRange(g)' = (d.base + 1) .. last
    BY <1>1, <2>1 DEF GuardRange
  <2>7. View' = [View EXCEPT ![g] = [y \in (d.base + 1) .. last |-> y]]
    <3>1. \A h \in Readers \ {g} : rpc'[h] = rpc[h] /\ rd'[h] = rd[h]
      BY <1>1, <2>1
    <3> HIDE DEF last
    <3> QED
      BY <2>6, <3>1, ViewChanged
  <2>8. Log!Live(r)
    BY <1>1 DEF Log!Live, Open
  <2>9. Log!Show(g, n)
    <3> HIDE DEF n, last
    <3> QED
      BY <1>0, <1>2, <2>1, <2>4, <2>5, <2>7, <2>8 DEF Log!Show
  <2> QED
    BY <2>3, <2>9
<1>5. CASE ~(SlotReady(d.pos) /\ d.pos < d.top) /\ outcome # "Ok"
  <2>1. /\ rres' = [rres EXCEPT ![g] = outcome] /\ rpc' = [rpc EXCEPT ![g] = "idle"]
        /\ \A h \in Readers \ {g} : rd'[h] = rd[h]
    BY <1>1, <1>5 DEF ScanSlot
  <2>2. outcome \in {"Empty", "Disconnected"} /\ ~(last > d.base)
    BY <1>5 DEF ScanOutcome
  <2>3. ~SlotReady(d.pos) /\ d.pos = consumed[r] + 1
    BY <1>1, <2>2
  <2>4. consumed[r] + 1 \notin published
    <3>1. \A y \in published : y > consumed[r] => flag[IndexOf(y)] = AvailableFlag(y)
      BY <1>1 DEF IndInv, PublishedSound
    <3> QED
      BY <1>1, <2>3, <3>1 DEF SlotReady
  <2>5. \A h \in Readers : GuardRange(h)' = GuardRange(h)
    BY <1>1, <2>1 DEF GuardRange
  <2>6. View' = View
    BY <2>5, ViewKept
  <2>7. outcome = "Disconnected" => Over
    <3>1. d.pos = d.base + 1 => ~d.sd
      BY <1>1 DEF FillInv, MarksSound
    <3>2. outcome = "Disconnected" => shut[IndexOf(d.pos)]
      BY <1>1, <2>3, <3>1 DEF ScanOutcome
    <3>3. IndexOf(d.pos) \in Slots
      BY <1>1, RingTypes
    <3> QED
      BY <3>2, <3>3 DEF FillInv, MarksSound
  <2>8. Log!Miss(g, outcome)
    <3> HIDE DEF outcome
    <3> QED
      BY <1>0, <1>1, <1>2, <2>1, <2>2, <2>4, <2>6, <2>7 DEF Log!Miss, Log!Live, Open
  <2> QED
    BY <2>2, <2>8
<1> QED
  BY <1>3, <1>4, <1>5

LEMMA FinishIsDone ==
  ASSUME IndInv, FillInv, Shown = View, Shown' = View', Over' = Over, NEW g \in Readers, FinishGuard(g)
  PROVE  \E n \in 1 .. Capacity : Log!Done(g, n)
<1> DEFINE r == rxOf[g]
           n == rd[g].top - consumed[r]
<1>1. /\ r \in Receivers /\ Open(r) /\ consumed[r] \in Int /\ rd[g].top \in Int
      /\ consumed[r] < rd[g].top /\ rd[g].top <= consumed[r] + Capacity
      /\ GuardRange(g) = (consumed[r] + 1) .. rd[g].top
  BY GuardCovers DEF FinishGuard
<1>2. n \in 1 .. Capacity /\ consumed[r] + n = rd[g].top
  BY <1>1, RunLength
<1>3. View[g] = [y \in Log!NextBatch(g, n) |-> y]
  BY <1>1, <1>2 DEF View, Log!NextBatch
<1>4. /\ consumed' = [consumed EXCEPT ![r] = rd[g].top] /\ rpc' = [rpc EXCEPT ![g] = "idle"]
      /\ rd' = [rd EXCEPT ![g] = NoScan] /\ rres' = rres /\ published' = published
      /\ claimedDown' = claimedDown /\ Tail' = Tail /\ Owned' = Owned
      /\ rpc \in [Readers -> {"idle", "scan", "guard"}] /\ rd \in [Readers -> ScanType]
  BY DEF FinishGuard, Committed, Tail, Owned, claimVars, senderVars, IndInv, TypeOK
<1>5. View' = [View EXCEPT ![g] = Log!NoBatch]
  <2>1. GuardRange(g)' = {}
    BY <1>4 DEF GuardRange
  <2>2. \A h \in Readers \ {g} : rpc'[h] = rpc[h] /\ rd'[h] = rd[h]
    BY <1>4
  <2>3. View' = [View EXCEPT ![g] = [y \in {} |-> y]]
    BY <2>1, <2>2, ViewChanged
  <2> QED
    BY <2>3 DEF Log!NoBatch
<1>6. consumed' = [consumed EXCEPT ![r] = consumed[r] + n]
  BY <1>2, <1>4
<1>7. Log!Done(g, n)
  <2> HIDE DEF n
  <2> QED
    BY <1>1, <1>3, <1>4, <1>5, <1>6 DEF Log!Done, Log!Live, Open
<1> QED
  BY <1>2, <1>7

LEMMA ForgetIsLetGo ==
  ASSUME IndInv, FillInv, Shown = View, Shown' = View', Over' = Over, NEW g \in Readers, ForgetGuard(g)
  PROVE  Log!LetGo(g)
<1>1. /\ rpc' = [rpc EXCEPT ![g] = "idle"] /\ rd' = [rd EXCEPT ![g] = NoScan]
      /\ UNCHANGED <<claimedDown, consumed, published, rres>> /\ Tail' = Tail /\ Owned' = Owned
      /\ rpc \in [Readers -> {"idle", "scan", "guard"}] /\ rd \in [Readers -> ScanType]
  BY DEF ForgetGuard, Tail, Owned, claimVars, senderVars, IndInv, TypeOK
<1>2. GuardRange(g)' = {} /\ \A h \in Readers \ {g} : rpc'[h] = rpc[h] /\ rd'[h] = rd[h]
  BY <1>1 DEF GuardRange
<1>3. View' = [View EXCEPT ![g] = [y \in {} |-> y]]
  BY <1>2, ViewChanged
<1> QED
  BY <1>1, <1>3 DEF Log!LetGo, Log!NoBatch

LEMMA DropIsLeave ==
  ASSUME IndInv, FillInv, Shown = View, Shown' = View', Over' = Over, NEW r \in Receivers, DropReceiver(r)
  PROVE  Log!Leave(r)
<1>1. View' = View /\ Tail' = Tail /\ Owned' = Owned
  BY ViewKept DEF GuardRange, DropReceiver, readerVars, Tail, Owned, claimVars, senderVars
<1>2. \A g \in Readers : rxOf[g] = r => View[g] = Log!NoBatch
  BY NothingSeen DEF DropReceiver
<1> QED
  BY <1>1, <1>2 DEF Log!Leave, DropReceiver, claimVars, readerVars

\* The mark of a close announces the end, the first time.
LEMMA MarkIsAnnounce ==
  ASSUME IndInv, FillInv, Shown = View, Shown' = View', NEW s \in Senders, CloseMark(s), Over'
  PROVE  Log!Announce
<1>1. UNCHANGED <<claimed, claimedDown, held, published, consumed, rpc, rd, rres>>
  BY DEF CloseMark, claimVars, readerVars
<1>2. View' = View /\ Tail' = Tail /\ Owned' = Owned
  BY <1>1, ViewKept DEF GuardRange, Tail, Owned
<1> QED
  BY <1>1, <1>2 DEF Log!Announce

\* Every step of the channel is a step of the log, or none at all.
LEMMA LogStep ==
  ASSUME IndInv, FillInv, Shown = View, Shown' = View', LimitsFit, NoSkippedSlot, [Next]_vars
  PROVE  [Log!Next]_(Log!logVars)
<1> USE DEF Log!Next
<1>1. CASE UNCHANGED vars
  <2>1. Over' = Over
    BY <1>1 DEF vars, claimVars, senderVars, Over, Alive
  <2> QED
    BY <1>1, <2>1, LogKept DEF vars, claimVars, senderVars, readerVars
<1>2. ASSUME NEW s \in Senders, SenderStep(s), Over' = Over PROVE [Log!Next]_(Log!logVars)
  <2>1. CASE LoadConsumed(s) \/ CasRetry(s) \/ FillSlot(s) \/ CloseLoad(s) \/ CloseScan(s) \/ CloseMark(s)
    BY <1>2, <2>1, LogKept DEF LoadConsumed, CasRetry, FillSlot, CloseLoad, CloseScan, CloseMark,
                               claimVars, readerVars
  <2> QED
    BY <1>2, <2>1, CasIsClaim, PublishIsPublish, CloseIsShutdown DEF SenderStep
<1>3. ASSUME NEW s \in Senders, SenderNext(s), ~SenderStep(s), Over' = Over
      PROVE  [Log!Next]_(Log!logVars)
  <2>1. CASE (\E o \in Ops, k \in Limits : StartClaim(s, o, k)) \/ DropSender(s)
               \/ (\E t \in Senders : CloneSender(s, t))
    BY <1>3, <2>1, LogKept DEF StartClaim, DropSender, CloneSender, claimVars, readerVars
  <2>2. ~SlotPermitPanic(s) /\ ~ForgetSlotPermit(s)
    BY DEF SlotPermitPanic, ForgetSlotPermit, NoSkippedSlot
  <2> QED
    BY <1>3, <2>1, <2>2, LoseIsLose DEF SenderNext
<1>4. ASSUME NEW g \in Readers, ReaderStep(g) \/ ForgetGuard(g), Over' = Over
      PROVE  [Log!Next]_(Log!logVars)
  <2>1. ASSUME NEW k \in Limits, StartRecv(g, k) PROVE UNCHANGED Log!logVars
    <3>1. /\ rpc[g] = "idle" /\ rpc' = [rpc EXCEPT ![g] = "scan"]
          /\ \A h \in Readers \ {g} : rd'[h] = rd[h]
          /\ UNCHANGED <<claimedDown, consumed, published, rres>>
          /\ Tail' = Tail /\ Owned' = Owned
          /\ rpc \in [Readers -> {"idle", "scan", "guard"}]
      BY <2>1 DEF StartRecv, Tail, Owned, claimVars, senderVars, IndInv, TypeOK
    <3>2. \A h \in Readers : GuardRange(h)' = GuardRange(h)
      BY <3>1 DEF GuardRange
    <3> QED
      BY <1>4, <3>1, <3>2, ViewKept DEF Log!logVars
  <2> QED
    BY <1>4, <2>1, ScanIsAnswer, FinishIsDone, ForgetIsLetGo DEF ReaderStep
<1>5. ASSUME NEW r \in Receivers, DropReceiver(r), Over' = Over PROVE [Log!Next]_(Log!logVars)
  BY <1>5, DropIsLeave
<1>6. Terminated => UNCHANGED vars
  BY DEF Terminated
<1>7. CASE Next /\ Over' = Over
  BY <1>1, <1>2, <1>3, <1>4, <1>5, <1>6, <1>7 DEF Next
<1>8. CASE \E s \in Senders : CloseMark(s) /\ Over'
  BY <1>8, MarkIsAnnounce
<1> QED
  BY <1>1, <1>7, <1>8, OverStep

\* The ring, its flags and its cursors implement the log: senders are given the
\* next sequences within reach of every receiver, every receiver reads all that
\* was published, in sequence and with its content (lib.rs:262-320).
THEOREM ChannelImplementsLog ==
  ASSUME OneGuardPerReceiver, LimitsFit, NoSkippedSlot
  PROVE  Spec => ImplementsLog
<1>1. Init => Log!Init
  BY InitLog
<1>2. IndInv /\ FillInv => Shown = View
  BY ShownIsView
<1>3. IndInv /\ FillInv /\ Shown = View /\ (Shown = View)' /\ [Next]_vars
        => [Log!Next]_(Log!logVars)
  BY LogStep
<1> QED
  BY <1>1, <1>2, <1>3, Invariant, FillInvariant, PTL DEF Spec, ImplementsLog, Log!Spec
-------------------------------------------------------------------------------
(* What only holds once every sender was dropped.                                *)

LEMMA InitDrainInv ==
  ASSUME Init
  PROVE  DrainInv
<1>1. ClaimsKept
  BY DEF Init, ClaimsKept
<1>2. ClosedByTheLast
  BY DEF Init, ClosedByTheLast, Closing
<1>3. VerdictSound
  BY DEF Init, VerdictSound
<1> QED
  BY <1>1, <1>2, <1>3 DEF DrainInv

\* Nothing is being written any more once every sender is gone.
LEMMA NothingHeld ==
  ASSUME FillInv, SendersGone
  PROVE  Owned = {}
BY DEF FillInv, WriteOrder, SendersGone, Alive, Owned

\* Nobody comes back.
LEMMA GoneStays ==
  ASSUME IndInv, DrainInv, LimitsFit, Next, SendersGone
  PROVE  SendersGone'
<1> SUFFICES ASSUME NEW t \in Senders, Alive(t)' PROVE pc'[t] = "cstore"
  BY DEF SendersGone
<1>0. TypeOK
  BY DEF IndInv
<1>1. ~\E s \in Senders : CloneSender(s, t)
  <2> SUFFICES ASSUME NEW s \in Senders, CloneSender(s, t) PROVE FALSE
    OBVIOUS
  <2>1. Alive(s) /\ cl[s].ret # "dropped"
    BY DEF CloneSender
  <2>2. pc[s] = "cstore"
    BY <2>1 DEF SendersGone
  <2> QED
    BY <2>1, <2>2 DEF DrainInv, ClosedByTheLast, Closing
<1>2. Alive(t)
  BY <1>0, <1>1, OnlyClonesWake
<1>3. pc[t] = "cstore" /\ cl[t].ret = "dropped"
  BY <1>2 DEF SendersGone, DrainInv, ClosedByTheLast, Closing
<1>4. CASE ~SenderNext(t)
  BY <1>0, <1>3, <1>4, OthersStep
<1>5. CASE CloseStore(t)
  BY <1>0, <1>3, <1>5 DEF CloseStore, Alive, TypeOK
<1>6. CASE \E u \in Senders : CloneSender(t, u)
  BY <1>3, <1>6 DEF CloneSender
<1>7. ~LoadConsumed(t) /\ ~CasClaim(t) /\ ~CasRetry(t) /\ ~FillSlot(t) /\ ~CloseLoad(t)
      /\ ~CloseScan(t) /\ ~CloseMark(t) /\ ~\E x \in held[t] : PublishSlot(t, x)
  BY <1>3 DEF LoadConsumed, CasClaim, CasRetry, FillSlot, CloseLoad, CloseScan, CloseMark,
              PublishSlot
<1>8. /\ ~\E o \in Ops, k \in Limits : StartClaim(t, o, k)
      /\ ~CommitPanic(t) /\ ~SlotPermitPanic(t) /\ ~ForgetSlotPermit(t) /\ ~Abandon(t) /\ ~DropSender(t)
  BY <1>3 DEF StartClaim, CommitPanic, SlotPermitPanic, ForgetSlotPermit, Abandon, DropSender
<1> QED
  BY <1>4, <1>5, <1>6, <1>7, <1>8 DEF SenderNext, SenderStep

\* The last close stores what was claimed.
LEMMA CloseKeepsClaimed ==
  ASSUME IndInv, DrainInv, NEW s \in Senders, CloseStore(s)
  PROVE  /\ claimed' = claimed
         /\ \A t \in Senders \ {s} : ~Alive(t)
         /\ pc' = [pc EXCEPT ![s] = "dropped"]
<1>1. cl[s].ret = "dropped"
  BY DEF CloseStore, DrainInv, ClosedByTheLast, Closing
<1> QED
  BY <1>1 DEF CloseStore, IndInv, CloseSound, Closing

LEMMA ClaimsKeptStep ==
  ASSUME IndInv, FillInv, DrainInv, OneGuardPerReceiver, NoLoss, Next
  PROVE  ClaimsKept'
<1> USE DEF ClaimsKept, Open
<1>0. /\ ClaimsKept /\ claimed \in Int /\ published \subseteq Int
      /\ \A r \in Receivers : Open(r) => consumed[r] \in Int
  BY Types DEF IndInv, TypeOK, DrainInv
<1>1. CASE UNCHANGED <<claimed, claimedDown, flag, consumed, held, published>>
  BY <1>0, <1>1 DEF Owned
<1>2. ASSUME NEW s \in Senders, CasClaim(s) PROVE ClaimsKept'
  <2>1. claimed' \in Int /\ claimed < claimed' /\ published' = published /\ consumed' = consumed
    BY <1>2, CasClaimEffect
  <2>2. Owned' = Owned \cup ((claimed + 1) .. claimed')
    BY <1>2, OwnedGrows
  <2>3. \A x \in 0 .. claimed' : x \in 0 .. claimed \/ x \in (claimed + 1) .. claimed'
    BY <1>0, <2>1
  <2>4. \A y \in published : y <= claimed'
    BY <1>0, <2>1
  <2>5. \A r \in Receivers : Open(r) => -1 <= consumed[r] /\ consumed[r] <= claimed'
    BY <1>0, <2>1
  <2>6. 0 .. claimed' \subseteq published \cup Owned'
    BY <1>0, <2>2, <2>3
  <2> QED
    BY <2>1, <2>4, <2>5, <2>6
<1>3. ASSUME NEW s \in Senders, NEW x \in held[s], PublishSlot(s, x) PROVE ClaimsKept'
  <2>1. held' = [held EXCEPT ![s] = held[s] \ {x}] /\ {x} \in SUBSET held[s]
    BY <1>3 DEF PublishSlot, IndInv, TypeOK
  <2>2. Owned' = Owned \ {x}
    BY <2>1, OwnedShrinks
  <2>3. published' = published \cup {x} /\ claimed' = claimed /\ consumed' = consumed
    BY <1>3 DEF PublishSlot, claimVars
  <2>4. ~claimedDown
    BY <1>3 DEF PublishSlot, DrainInv, ClosedByTheLast, Alive
  <2>5. x <= claimed
    BY <2>4 DEF IndInv, CursorsInOrder
  <2> QED
    BY <1>0, <2>2, <2>3, <2>5
<1>4. ~\E s \in Senders : CommitPanic(s) \/ Abandon(s)
  BY DEF CommitPanic, Abandon, NoLoss
<1>5. ASSUME NEW s \in Senders, CloseStore(s) PROVE ClaimsKept'
  BY <1>0, <1>5, CloseKeepsClaimed, CloseStoreEffect DEF Owned
<1>6. ASSUME NEW g \in Readers, FinishGuard(g) PROVE ClaimsKept'
  <2>1. /\ rxOf[g] \in Receivers /\ consumed' = [consumed EXCEPT ![rxOf[g]] = rd[g].top]
        /\ consumed[rxOf[g]] \in Int /\ rd[g].top \in Int /\ consumed[rxOf[g]] < rd[g].top
        /\ UNCHANGED <<claimed, held, published>>
        /\ Open(rxOf[g]) /\ consumed \in [Receivers -> Cursors]
    BY <1>6, FinishGuardEffect DEF IndInv, TypeOK
  <2>2. rd[g].top \in published
    BY <1>6, <2>1, FinishGuardEffect DEF Settled
  <2>3. -1 <= rd[g].top /\ rd[g].top <= claimed
    BY <1>0, <2>1, <2>2
  <2>4. \A r \in Receivers : Open(r)' => -1 <= consumed'[r] /\ consumed'[r] <= claimed
    BY <1>0, <2>1, <2>3
  <2> QED
    BY <1>0, <2>1, <2>4 DEF Owned
<1>7. ASSUME NEW r \in Receivers, DropReceiver(r) PROVE ClaimsKept'
  BY <1>0, <1>7, DropReceiverEffect DEF Owned
<1> QED
  BY <1>1, <1>2, <1>3, <1>4, <1>5, <1>6, <1>7, StepShapes

\* A claim that is being written ends with its publication.
LEMMA WritersDoNotClose ==
  ASSUME IndInv, NoLoss, Next, NEW u \in Senders, pc[u] = "write"
  PROVE  pc'[u] \notin Closing
<1> USE DEF Closing
<1>0. TypeOK
  BY DEF IndInv
<1>1. CASE ~SenderNext(u)
  BY <1>0, <1>1, OthersStep
<1>2. CASE FillSlot(u)
  BY <1>0, <1>2 DEF FillSlot, AfterFill, TypeOK
<1>3. CASE \E t \in Senders : CloneSender(u, t)
  BY <1>0, <1>3 DEF CloneSender, TypeOK
<1>4. ~CommitPanic(u) /\ ~SlotPermitPanic(u) /\ ~ForgetSlotPermit(u) /\ ~Abandon(u)
  BY DEF CommitPanic, SlotPermitPanic, ForgetSlotPermit, Abandon, NoLoss
<1>5. ~LoadConsumed(u) /\ ~CasClaim(u) /\ ~CasRetry(u) /\ ~CloseLoad(u)
      /\ ~CloseScan(u) /\ ~CloseMark(u) /\ ~CloseStore(u) /\ ~\E x \in held[u] : PublishSlot(u, x)
  BY DEF LoadConsumed, CasClaim, CasRetry, CloseLoad, CloseScan, CloseMark, CloseStore, PublishSlot
<1>6. ~DropSender(u) /\ ~\E o \in Ops, k \in Limits : StartClaim(u, o, k)
  BY DEF DropSender, StartClaim
<1> QED
  BY <1>1, <1>2, <1>3, <1>4, <1>5, <1>6 DEF SenderNext, SenderStep

LEMMA ClosedByTheLastStep ==
  ASSUME IndInv, DrainInv, LimitsFit, NoLoss, Next
  PROVE  ClosedByTheLast'
<1>0. TypeOK /\ ClosedByTheLast
  BY DEF IndInv, DrainInv
<1>1. ASSUME NEW u \in Senders, pc'[u] \in Closing PROVE cl'[u].ret = "dropped"
  BY <1>0, <1>1, CloseShapes, WritersDoNotClose DEF ClosedByTheLast, Closing
<1>2. ASSUME claimedDown', NEW t \in Senders PROVE ~Alive(t)'
  <2>1. CASE claimedDown
    <3>1. \A s \in Senders : ~Alive(s)
      BY <1>0, <2>1 DEF ClosedByTheLast
    <3>2. ~\E s \in Senders : s # t /\ CloneSender(s, t)
      BY <3>1 DEF CloneSender
    <3> QED
      BY <1>0, <3>1, <3>2, OnlyClonesWake
  <2>2. CASE ~claimedDown
    <3>1. PICK s \in Senders : CloseStore(s)
      <4>1. (\E s \in Senders : CasClaim(s)) \/ (\E s \in Senders : \E x \in held[s] : PublishSlot(s, x))
              \/ (\E s \in Senders : CommitPanic(s) \/ Abandon(s))
              \/ (\E g \in Readers : FinishGuard(g)) \/ (\E r \in Receivers : DropReceiver(r))
            => claimedDown' = claimedDown
        BY DEF CasClaim, PublishSlot, CommitPanic, Abandon, FinishGuard, DropReceiver, claimVars
      <4> QED
        BY <1>2, <2>2, <4>1, StepShapes
    <3> QED
      BY <1>0, <3>1, CloseKeepsClaimed DEF Alive, TypeOK
  <2> QED
    BY <2>1, <2>2
<1>3. ASSUME NEW i \in Slots, shut'[i] PROVE SendersGone'
  <2>1. CASE shut[i]
    BY <1>0, <2>1, GoneStays DEF ClosedByTheLast
  <2>2. CASE ~shut[i]
    <3>1. PICK s \in Senders : CloseMark(s)
      BY <1>3, <2>2, MarksComeFromClose
    <3>2. \A t \in Senders \ {s} : ~Alive(t)
      BY <1>0, <3>1 DEF CloseMark, ClosedByTheLast, IndInv, CloseSound, Closing
    <3> QED
      BY <1>0, <3>1, <3>2 DEF CloseMark, SendersGone, Alive, TypeOK
  <2> QED
    BY <2>1, <2>2
<1> QED
  BY <1>1, <1>2, <1>3 DEF ClosedByTheLast

\* Once every sender is gone nothing more is claimed, published or unmarked, and a
\* receiver that had read it all stays where it is.
LEMMA NothingMovesWhenGone ==
  ASSUME IndInv, FillInv, DrainInv, OneGuardPerReceiver, LimitsFit, NoLoss, Next, SendersGone
  PROVE  /\ claimed' = claimed /\ published' = published
         /\ \A i \in Slots : shut[i] => shut'[i]
         /\ \A r \in Receivers : Open(r)' /\ consumed[r] = claimed => Open(r) /\ consumed'[r] = claimed
<1>0. TypeOK /\ \A s \in Senders : held[s] = {}
  BY NothingHeld DEF IndInv, Owned
<1>1. ASSUME NEW s \in Senders, SenderNext(s)
      PROVE  claimed' = claimed /\ published' = published /\ \A i \in Slots : shut[i] => shut'[i]
  <2>1. Alive(s) => pc[s] = "cstore"
    BY DEF SendersGone
  <2>2. CASE CloseStore(s)
    BY <2>2, CloseKeepsClaimed DEF CloseStore, slotVars
  <2>3. CASE \E t \in Senders : CloneSender(s, t)
    BY <2>3 DEF CloneSender, claimVars, slotVars
  <2>4. ~LoadConsumed(s) /\ ~CasClaim(s) /\ ~CasRetry(s) /\ ~FillSlot(s) /\ ~CloseLoad(s)
        /\ ~CloseScan(s) /\ ~CloseMark(s) /\ ~\E x \in held[s] : PublishSlot(s, x)
    BY <1>0, <2>1 DEF LoadConsumed, CasClaim, CasRetry, FillSlot, CloseLoad, CloseScan, CloseMark, Alive
  <2>5. /\ ~\E o \in Ops, k \in Limits : StartClaim(s, o, k)
        /\ ~CommitPanic(s) /\ ~SlotPermitPanic(s) /\ ~ForgetSlotPermit(s) /\ ~Abandon(s) /\ ~DropSender(s)
    BY <2>1 DEF StartClaim, CommitPanic, SlotPermitPanic, ForgetSlotPermit, Abandon, DropSender, Alive
  <2> QED
    BY <1>1, <2>2, <2>3, <2>4, <2>5 DEF SenderNext, SenderStep
<1>2. ASSUME NEW g \in Readers, ReaderStep(g) \/ ForgetGuard(g) PROVE UNCHANGED <<claimVars, slotVars, published>>
  BY <1>2 DEF ReaderStep, StartRecv, ScanSlot, FinishGuard, ForgetGuard
<1>3. ASSUME NEW r \in Receivers, DropReceiver(r) PROVE UNCHANGED <<claimVars, slotVars, published>>
  BY <1>3 DEF DropReceiver
<1>4. Terminated => UNCHANGED <<claimVars, slotVars, published>>
  BY DEF Terminated, vars
<1>5. claimed' = claimed /\ published' = published /\ \A i \in Slots : shut[i] => shut'[i]
  BY <1>1, <1>2, <1>3, <1>4 DEF Next, claimVars, slotVars
<1>6. ASSUME NEW r \in Receivers, Open(r)', consumed[r] = claimed
      PROVE  Open(r) /\ consumed'[r] = claimed
  <2>1. Open(r) /\ consumed[r] \in Int /\ consumed'[r] \in Int /\ consumed[r] <= consumed'[r]
    BY <1>6, OpenReceiverStep DEF Open
  <2>2. consumed'[r] <= claimed
    BY <1>5, <1>6, ClaimsKeptStep DEF ClaimsKept
  <2> QED
    BY <1>0, <1>6, <2>1, <2>2 DEF TypeOK
<1> QED
  BY <1>5, <1>6

\* A scan that answers Disconnected looked at one slot only: the one after the
\* receiver's cursor, which is marked and not ready, and all senders are gone.
LEMMA DisconnectedScan ==
  ASSUME IndInv, FillInv, DrainInv, NEW g \in Readers, ScanSlot(g), rres'[g] = "Disconnected",
         rres[g] # "Disconnected" \/ rpc'[g] = "idle"
  PROVE  LET r == rxOf[g] IN
         /\ r \in Receivers /\ Open(r) /\ consumed[r] \in Int /\ claimed \in Int
         /\ IndexOf(consumed[r] + 1) \in Slots
         /\ shut[IndexOf(consumed[r] + 1)] /\ consumed[r] = claimed
         /\ SendersGone /\ shut' = shut /\ claimed' = claimed /\ consumed' = consumed
<1> DEFINE r == rxOf[g]
           d == rd[g]
<1>1. /\ r \in Receivers /\ Open(r) /\ d.base = consumed[r] /\ d.base < d.pos
      /\ d.base \in Int /\ d.pos \in Int /\ claimed \in Int /\ rres \in [Readers -> Outcomes]
      /\ rpc[g] = "scan" /\ rpc \in [Readers -> {"idle", "scan", "guard"}]
  BY LocalTypes DEF IndInv, ReaderSound, TypeOK, ScanType, ScanSlot
<1>2. ~(SlotReady(d.pos) /\ d.pos < d.top)
  BY <1>1 DEF ScanSlot
<1>3. ~SlotReady(d.pos) /\ d.pos - 1 <= d.base /\ (d.sd \/ shut[IndexOf(d.pos)])
  BY <1>1, <1>2 DEF ScanSlot, ScanOutcome
<1>4. d.pos = consumed[r] + 1
  BY <1>1, <1>3
<1>5. shut[IndexOf(consumed[r] + 1)] /\ IndexOf(consumed[r] + 1) \in Slots
  <2>1. ~d.sd
    BY <1>1, <1>4 DEF DrainInv, VerdictSound
  <2> QED
    BY <1>1, <1>3, <1>4, <2>1, RingTypes
<1>6. SendersGone
  BY <1>5 DEF DrainInv, ClosedByTheLast
<1>7. consumed[r] = claimed
  <2>1. Owned = {}
    BY <1>6, NothingHeld
  <2>2. -1 <= consumed[r] /\ consumed[r] <= claimed /\ 0 .. claimed \subseteq published
    BY <1>1, <2>1 DEF DrainInv, ClaimsKept
  <2>3. consumed[r] + 1 \notin published
    <3> SUFFICES ASSUME consumed[r] + 1 \in published PROVE FALSE
      OBVIOUS
    <3>1. flag[IndexOf(consumed[r] + 1)] = AvailableFlag(consumed[r] + 1)
      BY <1>1 DEF IndInv, PublishedSound
    <3> QED
      BY <1>3, <1>4, <3>1 DEF SlotReady
  <2> QED
    BY <1>1, <2>2, <2>3
<1>8. shut' = shut /\ claimed' = claimed /\ consumed' = consumed
  BY DEF ScanSlot, slotVars, claimVars
<1> QED
  BY <1>1, <1>5, <1>6, <1>7, <1>8

LEMMA VerdictSoundStep ==
  ASSUME IndInv, FillInv, DrainInv, OneGuardPerReceiver, LimitsFit, NoLoss, Next
  PROVE  VerdictSound'
<1>0. /\ TypeOK /\ VerdictSound
      /\ rpc \in [Readers -> {"idle", "scan", "guard"}] /\ rd \in [Readers -> ScanType]
      /\ \A g \in Readers : rxOf[g] \in Receivers
  BY LocalTypes DEF IndInv, DrainInv, TypeOK
<1>1. ASSUME NEW g \in Readers, rpc'[g] = "scan", rd'[g].pos = rd'[g].base + 1
      PROVE  ~rd'[g].sd
  <2>1. CASE rpc'[g] = rpc[g] /\ rd'[g] = rd[g]
    BY <1>0, <1>1, <2>1 DEF VerdictSound
  <2>2. CASE \E k \in Limits : StartRecv(g, k)
    BY <1>0, <2>2 DEF StartRecv
  <2>3. CASE ScanSlot(g)
    <3>1. /\ rpc[g] = "scan" /\ rd[g].base < rd[g].pos /\ rd[g].base \in Int /\ rd[g].pos \in Int
      BY <1>0, <2>3 DEF ScanSlot, IndInv, ReaderSound, ScanType
    <3>2. rd'[g].base = rd[g].base /\ rd'[g].pos = rd[g].pos + 1
      BY <1>0, <1>1, <2>3 DEF ScanSlot
    <3> QED
      BY <1>1, <3>1, <3>2
  <2> QED
    BY <1>0, <1>1, <2>1, <2>2, <2>3, ReaderShapes
<1>2. ASSUME NEW g \in Readers, rres'[g] = "Disconnected", Open(rxOf[g])'
      PROVE  shut'[IndexOf(consumed'[rxOf[g]] + 1)] /\ consumed'[rxOf[g]] = claimed'
  <2> DEFINE r == rxOf[g]
  <2>1. r \in Receivers /\ Open(r) /\ consumed[r] \in Int
    BY <1>0, <1>2, OpenReceiverStep DEF Open
  <2>2. IndexOf(consumed[r] + 1) \in Slots
    BY <2>1, RingTypes
  <2>3. CASE rres[g] = "Disconnected"
    <3>1. shut[IndexOf(consumed[r] + 1)] /\ consumed[r] = claimed
      BY <1>0, <2>1, <2>3 DEF VerdictSound
    <3>2. SendersGone
      BY <2>2, <3>1 DEF DrainInv, ClosedByTheLast
    <3>3. claimed' = claimed /\ consumed'[r] = claimed /\ shut'[IndexOf(consumed[r] + 1)]
      BY <1>2, <2>1, <2>2, <3>1, <3>2, NothingMovesWhenGone
    <3> QED
      BY <3>1, <3>3
  <2>4. CASE rres[g] # "Disconnected"
    <3>1. ScanSlot(g)
      BY <1>0, <1>2, <2>4, AnswersComeFromScans
    <3> QED
      BY <1>2, <2>4, <3>1, DisconnectedScan
  <2> QED
    BY <2>3, <2>4
<1> QED
  BY <1>1, <1>2 DEF VerdictSound

LEMMA DrainInvNext ==
  ASSUME OneGuardPerReceiver, LimitsFit, NoLoss, IndInv, FillInv, DrainInv, [Next]_vars
  PROVE  DrainInv'
<1>1. CASE Next
  BY <1>1, ClaimsKeptStep, ClosedByTheLastStep, VerdictSoundStep DEF DrainInv
<1>2. CASE UNCHANGED vars
  BY <1>2 DEF vars, claimVars, slotVars, senderVars, readerVars, DrainInv, ClaimsKept, Owned,
              ClosedByTheLast, SendersGone, Alive, VerdictSound, Open
<1> QED
  BY <1>1, <1>2

-------------------------------------------------------------------------------
(* What follows for the receivers.                                             *)

\* Without recycler panics and forgotten claims, everything claimed is being
\* written or published, only the drop of the last sender closes the channel, and
\* the mark it leaves is where a receiver that was told Disconnected stands.
THEOREM DrainInvariant ==
  ASSUME OneGuardPerReceiver, LimitsFit, NoLoss
  PROVE  Spec => []DrainInv
<1>1. Init => DrainInv
  BY InitDrainInv
<1>2. IndInv /\ FillInv /\ DrainInv /\ [Next]_vars => DrainInv'
  BY DrainInvNext
<1>3. NoSkippedSlot
  BY DEF NoLoss, NoSkippedSlot
<1> QED
  BY <1>1, <1>2, <1>3, Invariant, FillInvariant, PTL DEF Spec

\* lib.rs:314-320: a receiver is told Disconnected only when every sender is gone,
\* and it has consumed all that was ever claimed, all of it published.
THEOREM DrainedWhenDisconnected ==
  ASSUME OneGuardPerReceiver, LimitsFit, NoLoss
  PROVE  Spec => []DisconnectedOnlyWhenDrained
<1>1. IndInv /\ FillInv /\ DrainInv => DisconnectedOnlyWhenDrained
  <2> SUFFICES ASSUME IndInv, FillInv, DrainInv, NEW g \in Readers,
                      rres[g] = "Disconnected", Open(rxOf[g])
               PROVE  SendersGone /\ consumed[rxOf[g]] = claimed /\ 0 .. claimed \subseteq published
    BY DEF DisconnectedOnlyWhenDrained, SendersGone
  <2>1. /\ shut[IndexOf(consumed[rxOf[g]] + 1)] /\ consumed[rxOf[g]] = claimed
        /\ claimed \in Int
    BY DEF DrainInv, VerdictSound, IndInv, TypeOK
  <2>2. IndexOf(consumed[rxOf[g]] + 1) \in Slots
    BY <2>1, RingTypes
  <2>3. SendersGone
    BY <2>1, <2>2 DEF DrainInv, ClosedByTheLast
  <2>4. Owned = {}
    BY <2>3, NothingHeld
  <2> QED
    BY <2>1, <2>3, <2>4 DEF DrainInv, ClaimsKept
<1>2. NoSkippedSlot
  BY DEF NoLoss, NoSkippedSlot
<1> QED
  BY <1>1, <1>2, Invariant, FillInvariant, DrainInvariant, PTL

\* consumer.rs:53-69: a receiver that was told Disconnected is told nothing else,
\* however often it asks.
THEOREM DisconnectedStays ==
  ASSUME OneGuardPerReceiver, LimitsFit, NoLoss
  PROVE  Spec => DisconnectedIsFinal
<1> DEFINE Stays == \A g \in Readers : rres[g] = "Disconnected" => rres'[g] = "Disconnected"
<1>1. IndInv /\ DrainInv /\ [Next]_vars => [Stays]_vars
  <2> SUFFICES ASSUME IndInv, DrainInv, Next, NEW g \in Readers,
                      rres[g] = "Disconnected", rres'[g] # "Disconnected"
               PROVE  FALSE
    OBVIOUS
  <2> DEFINE r == rxOf[g]
             d == rd[g]
  <2>1. ScanSlot(g)
    BY AnswersComeFromScans DEF IndInv
  <2>2. /\ r \in Receivers /\ Open(r) /\ d.base = consumed[r] /\ d.base < d.pos /\ d.pos <= d.top
        /\ d.top <= d.base + Capacity
        /\ d.base \in Int /\ d.pos \in Int /\ d.top \in Int
        /\ rres \in [Readers -> Outcomes] /\ claimed \in Int /\ Capacity \in Int
        /\ \A y \in (d.base + 1) .. (d.pos - 1) : flag[IndexOf(y)] = AvailableFlag(y)
    BY <2>1, LocalTypes, CapacityAssumption
    DEF IndInv, ReaderSound, TypeOK, ScanType, ScanSlot
  <2>3. consumed[r] = claimed /\ shut[IndexOf(consumed[r] + 1)]
    BY <2>2 DEF DrainInv, VerdictSound
  <2>4. ASSUME NEW y \in Int, d.base < y, y <= d.base + Capacity,
               flag[IndexOf(y)] = AvailableFlag(y)
        PROVE  FALSE
    <3>1. y \in Window(r)
      BY <2>2, <2>4 DEF Window
    <3>2. y \in published
      BY <2>2, <2>4, <3>1 DEF IndInv, FlagsSound, Settled
    <3>3. y <= claimed
      BY <3>2 DEF DrainInv, ClaimsKept
    <3> QED
      BY <2>2, <2>3, <2>4, <3>3
  <2>5. d.pos = d.base + 1
    <3> SUFFICES ASSUME d.base + 1 < d.pos PROVE FALSE
      BY <2>2
    <3>1. flag[IndexOf(d.base + 1)] = AvailableFlag(d.base + 1)
      BY <2>2
    <3> QED
      BY <2>2, <2>4, <3>1
  <2>6. ~SlotReady(d.pos)
    BY <2>2, <2>4 DEF SlotReady
  <2>7. rres'[g] = ScanOutcome(d.base, d.pos - 1, d.sd \/ shut[IndexOf(d.pos)])
    BY <2>1, <2>2, <2>6 DEF ScanSlot
  <2>8. ScanOutcome(d.base, d.pos - 1, d.sd \/ shut[IndexOf(d.pos)]) = "Disconnected"
    BY <2>2, <2>3, <2>5 DEF ScanOutcome
  <2> QED
    BY <2>7, <2>8
<1>2. NoSkippedSlot
  BY DEF NoLoss, NoSkippedSlot
<1> QED
  BY <1>1, <1>2, Invariant, DrainInvariant, PTL DEF Spec, DisconnectedIsFinal
===============================================================================
