-------------------------- MODULE EnsoChannelProofs ---------------------------
(***************************************************************************)
(* The safety of the channel for any number of senders and receivers, any  *)
(* capacity, any number of laps and any mix of faults: IndInv is inductive *)
(* and implies the properties the runs check on small instances.           *)
(*                                                                         *)
(* The lemmas on steps come first: StepShapes sorts the actions by what    *)
(* they do to the shared cursors, flags and claims, the ...Effect lemmas   *)
(* say what the actions that matter do, and one ...Step lemma per conjunct *)
(* of IndInv shows that every step keeps it.                               *)
(***************************************************************************)
EXTENDS EnsoChannel, RingMetaProofs

-------------------------------------------------------------------------------
(* Types and the shape of steps. *)

\* What TypeOK says of one cursor, claim or local at a time (cursor.rs, and the
\* locals of try_claim_at_most).
LEMMA Types ==
  ASSUME TypeOK
  PROVE  /\ claimed \in Int
         /\ \A r \in Receivers : Open(r) => consumed[r] \in Int
         /\ \A s \in Senders : \A x \in held[s] : x \in Int
         /\ \A s \in Senders : att[s] \in AttemptType
         /\ \A g \in Readers : rd[g] \in ScanType
  BY DEF TypeOK, Open, Cursors

\* The range that a successful compare_exchange takes is not empty and ends
\* within a ring of the slowest receiver (pub_mul.rs:142-151).
LEMMA ClaimArithmetic ==
  ASSUME NEW a \in AttemptType, HasRoom(a.last, a.gmin), a.want >= 1
  PROVE  /\ a.gmin \in Int /\ ClaimEnd(a) \in Int
         /\ a.last < ClaimEnd(a) /\ ClaimEnd(a) <= a.gmin + Capacity
  BY CapacityAssumption DEF AttemptType, Cursors, HasRoom, ClaimEnd, AvailableSlots, MinOf

\* The locals at rest, and the receiver of a reader, have their types.
LEMMA LocalTypes ==
  /\ NoAttempt \in AttemptType /\ NoClose \in CloseType /\ NoScan \in ScanType
  /\ 0 \in Receivers
  /\ \A g \in Readers : rxOf[g] \in Receivers
  BY ReceiversAssumption, ReadersAssumption
  DEF NoAttempt, AttemptType, NoClose, CloseType, NoScan, ScanType, Cursors, Receivers

\* Every operation of the channel keeps the types.
LEMMA TypeStep ==
  ASSUME TypeOK, \A s \in Senders : AttemptSound(s), LimitsFit, Next
  PROVE  TypeOK'
<1> USE DEF TypeOK, SenderPlaces
<1>1. ASSUME NEW s \in Senders, NEW o \in Ops, NEW k \in Limits, StartClaim(s, o, k)
      PROVE  TypeOK'
  <2>1. CutLimit(k) \in Nat
    BY LimitsAssumption, WidthAssumption, CapacityAssumption
    DEF CutLimit, MinOf, AsI64, LimitsFit
  <2>2. 0 \in Receivers
    BY ReceiversAssumption DEF Receivers
  <2> QED
    BY <1>1, <2>1, <2>2, OpsAssumption DEF StartClaim, AttemptType, Cursors, claimVars, slotVars, readerVars
<1>2. ASSUME NEW s \in Senders, LoadConsumed(s) PROVE TypeOK'
  <2> DEFINE a == att[s]
             m == MinSeq(a.gmin, consumed[a.gi])
  <2>1. a \in AttemptType /\ consumed[a.gi] \in Cursors
    BY DEF AttemptType
  <2>2. m \in Cursors
    BY <2>1 DEF MinSeq, MinOf, Cursors, AttemptType
  <2>3. [want |-> a.want, last |-> a.last, gi |-> 0, gmin |-> m] \in AttemptType
    BY <2>1, <2>2, LocalTypes DEF AttemptType
  <2>4. a.gi + 1 < NumReceivers =>
          [want |-> a.want, last |-> a.last, gi |-> a.gi + 1, gmin |-> m] \in AttemptType
    BY <2>1, <2>2, ReceiversAssumption DEF AttemptType, Receivers
  <2>5. att' \in [Senders -> AttemptType]
    BY <1>2, <2>3, <2>4, LocalTypes DEF LoadConsumed, GiveUp
  <2>6. pc' \in [Senders -> SenderPlaces]
    BY <1>2 DEF LoadConsumed, GiveUp
  <2>7. op' \in [Senders -> {"none", "send", "reserve", "batch"}]
    BY <1>2 DEF LoadConsumed, GiveUp
  <2> QED
    BY <1>2, <2>5, <2>6, <2>7 DEF LoadConsumed, claimVars, slotVars, readerVars
<1>3. ASSUME NEW s \in Senders, CasClaim(s) PROVE TypeOK'
  <2>1. att[s] \in AttemptType /\ ClaimEnd(att[s]) \in Int
    BY <1>3, ClaimArithmetic DEF CasClaim, AttemptSound
  <2>2. NoAttempt \in AttemptType
    BY ReceiversAssumption DEF NoAttempt, AttemptType, Cursors, Receivers
  <2> QED
    BY <1>3, <2>1, <2>2 DEF CasClaim, AttemptType, slotVars, readerVars
<1>4. ASSUME NEW s \in Senders, CasRetry(s) PROVE TypeOK'
  <2>1. [want |-> att[s].want, last |-> claimed, gi |-> 0, gmin |-> SHUTDOWN_OPEN] \in AttemptType
    BY LocalTypes DEF AttemptType, Cursors
  <2>2. att' \in [Senders -> AttemptType]
    BY <1>4, <2>1, LocalTypes DEF CasRetry, GiveUp
  <2>3. pc' \in [Senders -> SenderPlaces]
    BY <1>4 DEF CasRetry, GiveUp
  <2>4. op' \in [Senders -> {"none", "send", "reserve", "batch"}]
    BY <1>4 DEF CasRetry, GiveUp
  <2> QED
    BY <1>4, <2>2, <2>3, <2>4 DEF CasRetry, claimVars, slotVars, readerVars
<1>5. ASSUME NEW s \in Senders, FillSlot(s) PROVE TypeOK'
  <2>1. AfterFill(s) \in {"write", "publish"} /\ nxt[s] \in Int
    BY DEF AfterFill
  <2>2. ring' \in [Slots -> Int]
    BY <1>5, <2>1 DEF FillSlot
  <2>3. nxt' \in [Senders -> Int]
    BY <1>5, <2>1 DEF FillSlot
  <2>4. pc' \in [Senders -> SenderPlaces]
    BY <1>5, <2>1 DEF FillSlot
  <2> QED
    BY <1>5, <2>2, <2>3, <2>4 DEF FillSlot, claimVars, slotVars, readerVars
<1>6. ASSUME NEW s \in Senders, NEW x \in held[s], PublishSlot(s, x) PROVE TypeOK'
  <2>1. x \in Int /\ AvailableFlag(x) \in Flags
    BY RingTypes
  <2>2. flag' \in [Slots -> Flags] /\ shut' \in [Slots -> BOOLEAN]
    BY <1>6, <2>1 DEF PublishSlot
  <2>3. held' \in [Senders -> SUBSET Int] /\ published' \subseteq Int
    BY <1>6, <2>1 DEF PublishSlot
  <2>4. pc' \in [Senders -> SenderPlaces]
    BY <1>6 DEF PublishSlot
  <2>5. op' \in [Senders -> {"none", "send", "reserve", "batch"}] /\ nxt' \in [Senders -> Int]
    BY <1>6 DEF PublishSlot
  <2> QED
    BY <1>6, <2>2, <2>3, <2>4, <2>5 DEF PublishSlot, claimVars, readerVars
<1>7. ASSUME NEW s \in Senders, CommitPanic(s) PROVE TypeOK'
  BY <1>7 DEF CommitPanic, CloseType, claimVars, slotVars, readerVars
<1>8. ASSUME NEW s \in Senders, SlotPermitPanic(s) \/ ForgetSlotPermit(s) PROVE TypeOK'
  <2>1. CASE SlotPermitPanic(s)
    BY <2>1 DEF SlotPermitPanic, AfterFill, CloseType, claimVars, slotVars, readerVars
  <2>2. CASE ForgetSlotPermit(s)
    BY <2>2 DEF ForgetSlotPermit, AfterFill, claimVars, slotVars, readerVars
  <2> QED
    BY <1>8, <2>1, <2>2
<1>9. ASSUME NEW s \in Senders, Abandon(s) PROVE TypeOK'
  BY <1>9 DEF Abandon, claimVars, slotVars, readerVars
<1>10. ASSUME NEW s \in Senders, CloseLoad(s) PROVE TypeOK'
  <2>1. ScanStart(claimed) \in Int
    BY CapacityAssumption DEF ScanStart, WindowStart, MaxOf
  <2> QED
    BY <1>10, <2>1 DEF CloseLoad, CloseType, claimVars, slotVars, readerVars
<1>11. ASSUME NEW s \in Senders, CloseScan(s) PROVE TypeOK'
  BY <1>11 DEF CloseScan, CloseType, claimVars, slotVars, readerVars
<1>12. ASSUME NEW s \in Senders, CloseMark(s) PROVE TypeOK'
  BY <1>12 DEF CloseMark, claimVars, readerVars
<1>13. ASSUME NEW s \in Senders, CloseStore(s) PROVE TypeOK'
  BY <1>13 DEF CloseStore, DownAfterClose, NoClose, CloseType, slotVars, readerVars
<1>14. ASSUME NEW s \in Senders, DropSender(s) PROVE TypeOK'
  <2>1. cl' \in [Senders -> CloseType]
    BY <1>14 DEF DropSender, CloseType
  <2>2. pc' \in [Senders -> SenderPlaces]
    BY <1>14 DEF DropSender
  <2>3. UNCHANGED <<claimVars, slotVars, ring, consumed, op, att, held, nxt, readerVars, published>>
    BY <1>14 DEF DropSender
  <2> QED
    BY <1>14, <2>1, <2>2, <2>3 DEF claimVars, slotVars, readerVars
<1>15. ASSUME NEW s \in Senders, NEW t \in Senders, CloneSender(s, t) PROVE TypeOK'
  BY <1>15 DEF CloneSender, claimVars, slotVars, readerVars
<1>16. ASSUME NEW g \in Readers, NEW k \in Limits, StartRecv(g, k) PROVE TypeOK'
  <2>1. CutLimit(k) \in Nat
    BY LimitsAssumption, WidthAssumption, CapacityAssumption
    DEF CutLimit, MinOf, AsI64, LimitsFit
  <2>2. consumed[rxOf[g]] \in Int
    BY <1>16, LocalTypes DEF StartRecv, Open, Cursors
  <2> QED
    BY <1>16, <2>1, <2>2 DEF StartRecv, ScanType, claimVars, slotVars, senderVars
<1>17. ASSUME NEW g \in Readers, ScanSlot(g) PROVE TypeOK'
  <2>1. rd[g] \in ScanType /\ IndexOf(rd[g].pos) \in Slots
    BY RingTypes DEF ScanType
  <2>2. \A b, l, d : ScanOutcome(b, l, d) \in Outcomes
    BY DEF ScanOutcome, Outcomes
  <2>3. shut[IndexOf(rd[g].pos)] \in BOOLEAN
    BY <2>1
  <2>4. rd' \in [Readers -> ScanType]
    <3> DEFINE d == rd[g]
               sd == d.sd \/ shut[IndexOf(d.pos)]
               last == IF SlotReady(d.pos) THEN d.pos ELSE d.pos - 1
    <3>1. [base |-> d.base, top |-> d.top, pos |-> d.pos + 1, sd |-> sd] \in ScanType
      BY <2>1, <2>3 DEF ScanType
    <3>2. [base |-> d.base, top |-> last, pos |-> 0, sd |-> FALSE] \in ScanType
      BY <2>1 DEF ScanType
    <3>3. \E e \in ScanType : rd' = [rd EXCEPT ![g] = e]
      BY <1>17, <3>1, <3>2, LocalTypes DEF ScanSlot
    <3> QED
      BY <3>3
  <2>5. rpc' \in [Readers -> {"idle", "scan", "guard"}]
    BY <1>17 DEF ScanSlot
  <2>6. rres' \in [Readers -> Outcomes]
    BY <1>17, <2>2 DEF ScanSlot
  <2> QED
    BY <1>17, <2>4, <2>5, <2>6 DEF ScanSlot, claimVars, slotVars, senderVars
<1>18. ASSUME NEW g \in Readers, FinishGuard(g) PROVE TypeOK'
  <2>1. rd[g].top \in Int
    BY DEF ScanType
  <2>2. consumed' \in [Receivers -> Cursors]
    BY <1>18, <2>1 DEF FinishGuard, Committed, Cursors
  <2> QED
    BY <1>18, <2>2, LocalTypes DEF FinishGuard, claimVars, slotVars, senderVars
<1>19. ASSUME NEW g \in Readers, ForgetGuard(g) PROVE TypeOK'
  BY <1>19 DEF ForgetGuard, NoScan, ScanType, claimVars, slotVars, senderVars
<1>20. ASSUME NEW r \in Receivers, DropReceiver(r) PROVE TypeOK'
  BY <1>20 DEF DropReceiver, Cursors, claimVars, slotVars, senderVars, readerVars
<1>21. CASE Terminated
  BY <1>21 DEF Terminated, vars, claimVars, slotVars, senderVars, readerVars
<1> QED
  BY <1>1, <1>2, <1>3, <1>4, <1>5, <1>6, <1>7, <1>8, <1>9, <1>10, <1>11, <1>12, <1>13,
     <1>14, <1>15, <1>16, <1>17, <1>18, <1>19, <1>20, <1>21
  DEF Next, SenderNext, SenderStep, ReaderStep

\* The steps that move a cursor, a flag or a claim; all others leave them alone.
LEMMA StepShapes ==
  ASSUME Next
  PROVE  \/ UNCHANGED <<claimed, claimedDown, flag, consumed, held, published>>
         \/ \E s \in Senders : CasClaim(s)
         \/ \E s \in Senders : \E x \in held[s] : PublishSlot(s, x)
         \/ \E s \in Senders : CommitPanic(s) \/ Abandon(s)
         \/ \E s \in Senders : CloseStore(s)
         \/ \E g \in Readers : FinishGuard(g)
         \/ \E r \in Receivers : DropReceiver(r)
<1> USE DEF claimVars, slotVars
<1>1. ASSUME NEW s \in Senders, NEW o \in Ops, NEW k \in Limits, StartClaim(s, o, k)
      PROVE  UNCHANGED <<claimed, claimedDown, flag, consumed, held, published>>
  BY <1>1 DEF StartClaim
<1>2. ASSUME NEW s \in Senders, LoadConsumed(s) \/ CasRetry(s) \/ FillSlot(s)
      PROVE  UNCHANGED <<claimed, claimedDown, flag, consumed, held, published>>
  BY <1>2 DEF LoadConsumed, CasRetry, FillSlot
<1>3. ASSUME NEW s \in Senders, SlotPermitPanic(s) \/ ForgetSlotPermit(s) \/ CloseLoad(s) \/ CloseScan(s) \/ CloseMark(s)
      PROVE  UNCHANGED <<claimed, claimedDown, flag, consumed, held, published>>
  BY <1>3 DEF SlotPermitPanic, ForgetSlotPermit, CloseLoad, CloseScan, CloseMark
<1>4. ASSUME NEW s \in Senders, DropSender(s) \/ \E t \in Senders : CloneSender(s, t)
      PROVE  UNCHANGED <<claimed, claimedDown, flag, consumed, held, published>>
  BY <1>4 DEF DropSender, CloneSender
<1>5. ASSUME NEW g \in Readers,
             (\E k \in Limits : StartRecv(g, k)) \/ ScanSlot(g) \/ ForgetGuard(g)
      PROVE  UNCHANGED <<claimed, claimedDown, flag, consumed, held, published>>
  BY <1>5 DEF StartRecv, ScanSlot, ForgetGuard, senderVars
<1>6. Terminated => UNCHANGED <<claimed, claimedDown, flag, consumed, held, published>>
  BY DEF Terminated, vars, senderVars
<1> QED
  BY <1>1, <1>2, <1>3, <1>4, <1>5, <1>6 DEF Next, SenderNext, SenderStep, ReaderStep

\* The plain store that ends close() (pub_mul.rs:90) never takes the shutdown bit
\* back, and changes `claimed` only together with setting it.
LEMMA CloseStoreEffect ==
  ASSUME IndInv, NEW s \in Senders, CloseStore(s)
  PROVE  /\ (claimedDown' /\ claimed' >= 0) \/ UNCHANGED <<claimed, claimedDown>>
         /\ claimedDown => claimedDown'
         /\ claimed' \in Int
         /\ UNCHANGED <<flag, consumed, held, published>>
<1>1. /\ UNCHANGED <<flag, consumed, held, published>>
      /\ claimed' = cl[s].val /\ claimedDown' = (cl[s].val # -1)
      /\ pc[s] \in Closing \ {"cload"}
  BY DEF CloseStore, DownAfterClose, slotVars, Closing
<1>2. claimed \in Int /\ claimedDown \in BOOLEAN /\ cl[s].val \in Int
  BY DEF IndInv, TypeOK, CloseType
<1>3. claimed >= -1 /\ (claimedDown => claimed >= 0)
  BY DEF IndInv, CursorsInOrder
<1>4. IF cl[s].ret = "dropped" THEN cl[s].val = claimed ELSE cl[s].val >= 0
  BY <1>1 DEF IndInv, CloseSound
<1>5. cl[s].val = claimed \/ cl[s].val >= 0
  BY <1>4
<1>6. CASE cl[s].val = -1
  <2>1. claimed = -1 /\ ~claimedDown /\ ~claimedDown'
    BY <1>1, <1>2, <1>3, <1>5, <1>6
  <2> QED
    BY <1>1, <1>2, <1>6, <2>1
<1>7. CASE cl[s].val # -1
  <2>1. cl[s].val >= 0
    BY <1>2, <1>3, <1>5, <1>7
  <2>2. claimedDown' = TRUE
    BY <1>1, <1>7, Zenon
  <2> QED
    BY <1>1, <1>2, <2>1, <2>2
<1> QED
  BY <1>6, <1>7

\* A successful compare_exchange (pub_mul.rs:154-162): the new claim lies above
\* every other and within a ring of every live receiver.
LEMMA CasClaimEffect ==
  ASSUME IndInv, NEW s \in Senders, CasClaim(s)
  PROVE  /\ ~claimedDown /\ ~claimedDown' /\ claimed' \in Int
         /\ claimed = att[s].last /\ claimed < claimed'
         /\ att[s].gmin \in Int /\ claimed' <= att[s].gmin + Capacity
         /\ att[s].gmin <= claimed
         /\ held' = [held EXCEPT ![s] = (claimed + 1) .. claimed']
         /\ \A r \in Receivers : Open(r) => att[s].gmin <= consumed[r]
         /\ \A t \in Senders : \A x \in held[t] : att[s].gmin < x /\ x <= claimed
         /\ UNCHANGED <<flag, consumed, published>>
<1>1. pc[s] = "cas" /\ ~claimedDown /\ claimed = att[s].last
  BY DEF CasClaim, CasMatches
<1>2. att[s] \in AttemptType /\ AttemptSound(s) /\ CursorsInOrder
  BY DEF IndInv, TypeOK
<1>3. HasRoom(att[s].last, att[s].gmin) /\ att[s].want >= 1
  BY <1>1, <1>2 DEF AttemptSound
<1>4. /\ att[s].gmin \in Int /\ ClaimEnd(att[s]) \in Int
      /\ att[s].last < ClaimEnd(att[s]) /\ ClaimEnd(att[s]) <= att[s].gmin + Capacity
  BY <1>2, <1>3, ClaimArithmetic
<1>5. att[s].gmin # SHUTDOWN_OPEN
  BY <1>4, OpenAssumption
<1>6. /\ claimed' = ClaimEnd(att[s])
      /\ held' = [held EXCEPT ![s] = (claimed + 1) .. claimed']
      /\ UNCHANGED <<flag, consumed, published>> /\ UNCHANGED claimedDown
  BY <1>1 DEF CasClaim, slotVars
<1>7. /\ att[s].gmin <= claimed
      /\ \A r \in Receivers : Open(r) => att[s].gmin <= consumed[r]
      /\ \A t \in Senders : \A x \in held[t] : att[s].gmin < x
  BY <1>1, <1>2, <1>5 DEF AttemptSound
<1>8. \A t \in Senders : \A x \in held[t] : x <= claimed
  BY <1>1, <1>2 DEF CursorsInOrder
<1> QED
  BY <1>1, <1>4, <1>6, <1>7, <1>8

\* Publishing or losing a claim frees sequences and moves no cursor.
LEMMA HeldShrinks ==
  ASSUME IndInv, NEW s \in Senders,
         \/ \E x \in held[s] : PublishSlot(s, x)
         \/ CommitPanic(s)
         \/ Abandon(s)
  PROVE  /\ \A t \in Senders : held'[t] \subseteq held[t]
         /\ UNCHANGED <<claimed, claimedDown, consumed>>
<1>1. held \in [Senders -> SUBSET Int]
  BY DEF IndInv, TypeOK
<1>2. CASE \E x \in held[s] : PublishSlot(s, x)
  BY <1>1, <1>2 DEF PublishSlot, claimVars
<1>3. CASE CommitPanic(s) \/ Abandon(s)
  BY <1>1, <1>3 DEF CommitPanic, Abandon, claimVars
<1> QED
  BY <1>2, <1>3

\* The drop of a guard (receiver.rs:140-165) moves its receiver over settled
\* sequences of its window only.
LEMMA FinishGuardEffect ==
  ASSUME IndInv, OneGuardPerReceiver, NEW g \in Readers, FinishGuard(g)
  PROVE  LET r == rxOf[g] IN
         /\ r \in Receivers /\ Open(r) /\ rpc[g] = "guard"
         /\ consumed' = [consumed EXCEPT ![r] = rd[g].top]
         /\ consumed[r] \in Int /\ rd[g].top \in Int /\ rd[g].base = consumed[r]
         /\ consumed[r] < rd[g].top /\ rd[g].top <= consumed[r] + Capacity
         /\ \A y \in (consumed[r] + 1) .. rd[g].top :
              /\ y \in Window(r)
              /\ flag[IndexOf(y)] = AvailableFlag(y)
              /\ Settled(y)
         /\ UNCHANGED <<claimed, claimedDown, flag, held, published>>
<1> DEFINE r == rxOf[g]
<1>1. /\ consumed' = [consumed EXCEPT ![r] = rd[g].top] /\ rpc[g] = "guard"
      /\ UNCHANGED <<claimed, claimedDown, flag, held, published>>
  BY DEF FinishGuard, Committed, claimVars, slotVars, senderVars
<1>2. r \in Receivers
  BY LocalTypes
<1>3. /\ Open(r) /\ rd[g].base = consumed[r]
      /\ rd[g].base < rd[g].top /\ rd[g].top <= rd[g].base + Capacity
      /\ \A y \in (rd[g].base + 1) .. rd[g].top : flag[IndexOf(y)] = AvailableFlag(y)
  BY <1>1 DEF IndInv, ReaderSound
<1>4. consumed[r] \in Int /\ rd[g].top \in Int
  BY <1>2, <1>3, Types DEF IndInv, ScanType
<1>5. ASSUME NEW y \in (consumed[r] + 1) .. rd[g].top
      PROVE  y \in Window(r) /\ flag[IndexOf(y)] = AvailableFlag(y) /\ Settled(y)
  <2>1. y \in Window(r)
    BY <1>3, <1>4, CapacityAssumption DEF Window
  <2> QED
    BY <1>2, <1>3, <2>1 DEF IndInv, FlagsSound
<1> QED
  BY <1>1, <1>2, <1>3, <1>4, <1>5

\* The drop of a receiver (consumer.rs:82-88) moves no other cursor.
LEMMA DropReceiverEffect ==
  ASSUME IndInv, NEW r \in Receivers, DropReceiver(r)
  PROVE  /\ \A q \in Receivers : Open(q)' => Open(q) /\ consumed'[q] = consumed[q]
         /\ UNCHANGED <<claimed, claimedDown, flag, held, published>>
  BY DEF IndInv, TypeOK, DropReceiver, Open, claimVars, slotVars, senderVars

\* CursorsInOrder is kept: no live receiver and no claim passes `claimed`.
LEMMA CursorsStep ==
  ASSUME IndInv, OneGuardPerReceiver, LimitsFit, Next
  PROVE  CursorsInOrder'
<1> USE DEF CursorsInOrder, Open
<1>0. CursorsInOrder
  BY DEF IndInv
<1>1. CASE UNCHANGED <<claimed, claimedDown, flag, consumed, held, published>>
  BY <1>0, <1>1
<1>2. ASSUME NEW s \in Senders, CasClaim(s) PROVE CursorsInOrder'
  <2>1. ASSUME NEW r \in Receivers, Open(r)' PROVE consumed'[r] <= claimed'
    BY <1>0, <1>2, <2>1, CasClaimEffect, Types DEF IndInv
  <2>2. ASSUME NEW t \in Senders, NEW x \in held'[t] PROVE x <= claimed'
    <3>1. held \in [Senders -> SUBSET Int] /\ claimed \in Int
      BY DEF IndInv, TypeOK
    <3>2. x \in held[t] \/ x \in (claimed + 1) .. claimed'
      BY <1>2, <3>1, CasClaimEffect
    <3> QED
      BY <1>2, <3>1, <3>2, CasClaimEffect
  <2>3. claimed' >= -1 /\ ~claimedDown'
    BY <1>0, <1>2, CasClaimEffect, Types DEF IndInv
  <2> QED
    BY <2>1, <2>2, <2>3
<1>3. ASSUME NEW s \in Senders,
             (\E x \in held[s] : PublishSlot(s, x)) \/ CommitPanic(s) \/ Abandon(s)
      PROVE  CursorsInOrder'
  BY <1>0, <1>3, HeldShrinks
<1>4. ASSUME NEW s \in Senders, CloseStore(s) PROVE CursorsInOrder'
  BY <1>0, <1>4, CloseStoreEffect
<1>5. ASSUME NEW g \in Readers, FinishGuard(g) PROVE CursorsInOrder'
  <2> DEFINE r == rxOf[g]
  <2>1. r \in Receivers /\ rd[g].top \in (consumed[r] + 1) .. rd[g].top
    BY <1>5, FinishGuardEffect
  <2>2. ~claimedDown => rd[g].top <= claimed
    BY <1>5, <2>1, FinishGuardEffect DEF Settled
  <2>3. consumed \in [Receivers -> Cursors]
    BY DEF IndInv, TypeOK
  <2> QED
    BY <1>0, <1>5, <2>1, <2>2, <2>3, FinishGuardEffect
<1>6. ASSUME NEW r \in Receivers, DropReceiver(r) PROVE CursorsInOrder'
  BY <1>0, <1>6, DropReceiverEffect
<1> QED
  BY <1>1, <1>2, <1>3, <1>4, <1>5, <1>6, StepShapes

\* HeldInWindow is kept: backpressure (pub_mul.rs:142-148) bounds every claim.
LEMMA HeldInWindowStep ==
  ASSUME IndInv, OneGuardPerReceiver, LimitsFit, Next
  PROVE  HeldInWindow'
<1> USE DEF HeldInWindow, Window, Open
<1>0. /\ HeldInWindow /\ CursorsInOrder
      /\ held \in [Senders -> SUBSET Int] /\ consumed \in [Receivers -> Cursors]
      /\ claimed \in Int
      /\ \A r \in Receivers : consumed[r] # SHUTDOWN_OPEN => consumed[r] \in Int
  BY Types DEF IndInv, TypeOK
<1>1. CASE UNCHANGED <<claimed, claimedDown, flag, consumed, held, published>>
  BY <1>0, <1>1
<1>2. ASSUME NEW s \in Senders, CasClaim(s) PROVE HeldInWindow'
  <2> SUFFICES ASSUME NEW r \in Receivers, Open(r), NEW t \in Senders, NEW x \in held'[t]
               PROVE  x \in (consumed[r] + 1) .. (consumed[r] + Capacity)
    BY <1>2, CasClaimEffect
  <2>1. x \in held[t] \/ x \in (claimed + 1) .. claimed'
    BY <1>0, <1>2, CasClaimEffect
  <2>2. CASE x \in held[t]
    BY <1>0, <2>2
  <2>3. CASE x \in (claimed + 1) .. claimed'
    <3>1. consumed[r] <= claimed /\ consumed[r] \in Int /\ att[s].gmin <= consumed[r]
      BY <1>0, <1>2, CasClaimEffect DEF CursorsInOrder
    <3>2. claimed' \in Int /\ att[s].gmin \in Int /\ claimed' <= att[s].gmin + Capacity
      BY <1>2, CasClaimEffect
    <3> QED
      BY <1>0, <2>3, <3>1, <3>2, CapacityAssumption
  <2> QED
    BY <2>1, <2>2, <2>3
<1>3. ASSUME NEW s \in Senders,
             (\E x \in held[s] : PublishSlot(s, x)) \/ CommitPanic(s) \/ Abandon(s)
      PROVE  HeldInWindow'
  BY <1>0, <1>3, HeldShrinks
<1>4. ASSUME NEW s \in Senders, CloseStore(s) PROVE HeldInWindow'
  BY <1>0, <1>4, CloseStoreEffect
<1>5. ASSUME NEW g \in Readers, FinishGuard(g) PROVE HeldInWindow'
  <2> DEFINE q == rxOf[g]
  <2>1. /\ q \in Receivers /\ consumed[q] \in Int /\ rd[g].top \in Int
        /\ consumed[q] < rd[g].top
        /\ consumed' = [consumed EXCEPT ![q] = rd[g].top] /\ held' = held /\ Open(q)
    BY <1>5, FinishGuardEffect
  <2> SUFFICES ASSUME NEW r \in Receivers, consumed'[r] # SHUTDOWN_OPEN,
                      NEW t \in Senders, NEW x \in held[t]
               PROVE  x \in (consumed'[r] + 1) .. (consumed'[r] + Capacity)
    BY <2>1
  <2>2. CASE r # q
    BY <1>0, <2>1, <2>2
  <2>3. CASE r = q
    <3>1. x \in Int /\ x > consumed[q] /\ x <= consumed[q] + Capacity
      BY <1>0, <2>1, CapacityAssumption
    <3>2. ~(x \in (consumed[q] + 1) .. rd[g].top)
      BY <1>5, FinishGuardEffect DEF Settled
    <3>3. consumed'[r] = rd[g].top
      BY <1>0, <2>1, <2>3
    <3> QED
      BY <2>1, <3>1, <3>2, <3>3, CapacityAssumption
  <2> QED
    BY <2>2, <2>3
<1>6. ASSUME NEW r \in Receivers, DropReceiver(r) PROVE HeldInWindow'
  BY <1>0, <1>6, DropReceiverEffect
<1> QED
  BY <1>1, <1>2, <1>3, <1>4, <1>5, <1>6, StepShapes

\* HeldApart is kept: two claims never share a sequence or a slot.
LEMMA HeldApartStep ==
  ASSUME IndInv, OneGuardPerReceiver, LimitsFit, Next
  PROVE  HeldApart'
<1> USE DEF HeldApart
<1>0. HeldApart /\ held \in [Senders -> SUBSET Int] /\ claimed \in Int
  BY DEF IndInv, TypeOK
<1>1. CASE held' = held
  BY <1>0, <1>1
<1>2. ASSUME NEW s \in Senders, CasClaim(s) PROVE HeldApart'
  <2>1. /\ claimed' \in Int /\ att[s].gmin \in Int /\ claimed' <= att[s].gmin + Capacity
        /\ held' = [held EXCEPT ![s] = (claimed + 1) .. claimed']
        /\ \A t \in Senders : \A x \in held[t] : att[s].gmin < x /\ x <= claimed
    BY <1>2, CasClaimEffect
  <2> SUFFICES ASSUME NEW t \in Senders, NEW u \in Senders, t # u,
                      NEW x \in held'[t], NEW y \in held'[u]
               PROVE  x # y /\ x - y < Capacity
    OBVIOUS
  <2>2. CASE t = s
    <3>1. x \in (claimed + 1) .. claimed' /\ y \in held[u] /\ y \in Int
      BY <1>0, <2>1, <2>2
    <3> QED
      BY <1>0, <2>1, <3>1, CapacityAssumption
  <2>3. CASE u = s
    <3>1. y \in (claimed + 1) .. claimed' /\ x \in held[t] /\ x \in Int
      BY <1>0, <2>1, <2>3
    <3> QED
      BY <1>0, <2>1, <3>1, CapacityAssumption
  <2>4. CASE t # s /\ u # s
    BY <1>0, <2>1, <2>4
  <2> QED
    BY <2>2, <2>3, <2>4
<1>3. ASSUME NEW s \in Senders,
             (\E x \in held[s] : PublishSlot(s, x)) \/ CommitPanic(s) \/ Abandon(s)
      PROVE  HeldApart'
  BY <1>0, <1>3, HeldShrinks
<1>4. (\E s \in Senders : CloseStore(s)) \/ (\E g \in Readers : FinishGuard(g))
        \/ (\E r \in Receivers : DropReceiver(r)) => held' = held
  BY CloseStoreEffect, FinishGuardEffect, DropReceiverEffect
<1> QED
  BY <1>1, <1>2, <1>3, <1>4, StepShapes

\* A settled sequence stays settled.
LEMMA SettledStays ==
  ASSUME IndInv, OneGuardPerReceiver, LimitsFit, Next, NEW y \in Int, Settled(y)
  PROVE  Settled(y)'
<1> USE DEF Settled
<1>0. held \in [Senders -> SUBSET Int] /\ claimed \in Int
  BY DEF IndInv, TypeOK
<1>1. CASE UNCHANGED <<claimed, claimedDown, flag, consumed, held, published>>
  BY <1>1
<1>2. ASSUME NEW s \in Senders, CasClaim(s) PROVE Settled(y)'
  <2>1. /\ ~claimedDown /\ claimed < claimed' /\ claimed' \in Int /\ published' = published
        /\ held' = [held EXCEPT ![s] = (claimed + 1) .. claimed']
    BY <1>2, CasClaimEffect
  <2>2. y <= claimed
    BY <2>1
  <2> QED
    BY <1>0, <2>1, <2>2
<1>3. ASSUME NEW s \in Senders, NEW x \in held[s], PublishSlot(s, x) PROVE Settled(y)'
  <2>1. y \in published'
    BY <1>3 DEF PublishSlot
  <2> QED
    BY <1>3, <2>1, HeldShrinks
<1>4. ASSUME NEW s \in Senders, CommitPanic(s) \/ Abandon(s) PROVE Settled(y)'
  <2>1. published' = published
    BY <1>4 DEF CommitPanic, Abandon
  <2> QED
    BY <1>4, <2>1, HeldShrinks
<1>5. ASSUME NEW s \in Senders, CloseStore(s) PROVE Settled(y)'
  BY <1>5, CloseStoreEffect
<1>6. ASSUME NEW g \in Readers, FinishGuard(g) PROVE Settled(y)'
  BY <1>6, FinishGuardEffect
<1>7. ASSUME NEW r \in Receivers, DropReceiver(r) PROVE Settled(y)'
  BY <1>7, DropReceiverEffect
<1> QED
  BY <1>1, <1>2, <1>3, <1>4, <1>5, <1>6, <1>7, StepShapes

\* A publish (slot_states.rs:133-141, 167-171) settles its sequence, whose slot is
\* no other sequence's of any live window.
LEMMA PublishEffect ==
  ASSUME IndInv, NEW s \in Senders, NEW x \in held[s], PublishSlot(s, x)
  PROVE  /\ x \in Int /\ IndexOf(x) \in Slots
         /\ flag' = [flag EXCEPT ![IndexOf(x)] = AvailableFlag(x)]
         /\ published' = published \cup {x}
         /\ UNCHANGED <<claimed, claimedDown, consumed>>
         /\ Settled(x)'
         /\ \A r \in Receivers : Open(r) =>
              /\ x \in Window(r)
              /\ \A y \in Window(r) : IndexOf(y) = IndexOf(x) => y = x
<1>1. held \in [Senders -> SUBSET Int] /\ x \in Int /\ IndexOf(x) \in Slots
  BY RingTypes DEF IndInv, TypeOK
<1>2. /\ flag' = [flag EXCEPT ![IndexOf(x)] = AvailableFlag(x)]
      /\ published' = published \cup {x}
      /\ UNCHANGED <<claimed, claimedDown, consumed>>
      /\ held' = [held EXCEPT ![s] = held[s] \ {x}]
  BY DEF PublishSlot, claimVars
<1>3. Settled(x)'
  <2>1. \A t \in Senders : x \notin held'[t]
    BY <1>1, <1>2 DEF IndInv, HeldApart
  <2>2. ~claimedDown => x <= claimed
    BY DEF IndInv, CursorsInOrder
  <2> QED
    BY <1>2, <2>1, <2>2 DEF Settled
<1>4. ASSUME NEW r \in Receivers, Open(r)
      PROVE  x \in Window(r) /\ \A y \in Window(r) : IndexOf(y) = IndexOf(x) => y = x
  <2>1. x \in Window(r) /\ consumed[r] \in Int
    BY <1>4, Types DEF IndInv, HeldInWindow
  <2>2. ASSUME NEW y \in Window(r), IndexOf(y) = IndexOf(x) PROVE y = x
    <3>1. y \in Int /\ x - y < Capacity /\ y - x < Capacity
      BY <2>1, CapacityAssumption DEF Window
    <3> QED
      BY <1>1, <2>2, <3>1, IndexUnique
  <2> QED
    BY <2>1, <2>2
<1> QED
  BY <1>1, <1>2, <1>3, <1>4

\* FlagsSound is kept: when a receiver advances, the slots that enter its window
\* still carry the flag of the lap before (slot_states.rs:30-54).
LEMMA FlagsSoundStep ==
  ASSUME IndInv, OneGuardPerReceiver, LimitsFit, Next
  PROVE  FlagsSound'
<1> USE DEF FlagsSound
<1>0. /\ FlagsSound
      /\ \A r \in Receivers : Open(r) => consumed[r] \in Int
      /\ flag \in [Slots -> Flags] /\ consumed \in [Receivers -> Cursors]
  BY Types DEF IndInv, TypeOK
<1>1. CASE UNCHANGED <<flag, consumed>>
  <2> SUFFICES ASSUME NEW r \in Receivers, Open(r), NEW y \in Window(r),
                      flag[IndexOf(y)] = AvailableFlag(y)
               PROVE  Settled(y)'
    BY <1>1 DEF Open, Window
  <2>1. y \in Int
    BY <1>0 DEF Window
  <2> QED
    BY <1>0, <2>1, SettledStays
<1>2. ASSUME NEW s \in Senders, NEW x \in held[s], PublishSlot(s, x) PROVE FlagsSound'
  <2> SUFFICES ASSUME NEW r \in Receivers, Open(r), NEW y \in Window(r),
                      flag'[IndexOf(y)] = AvailableFlag(y)
               PROVE  Settled(y)'
    BY <1>2, PublishEffect DEF Open, Window
  <2>1. y \in Int
    BY <1>0, CapacityAssumption DEF Window
  <2>2. CASE IndexOf(y) = IndexOf(x)
    BY <1>2, <2>2, PublishEffect
  <2>3. CASE IndexOf(y) # IndexOf(x)
    <3>1. flag[IndexOf(y)] = AvailableFlag(y)
      BY <1>0, <1>2, <2>1, <2>3, PublishEffect, RingTypes
    <3> QED
      BY <1>0, <2>1, <3>1, SettledStays
  <2> QED
    BY <2>2, <2>3
<1>3. ASSUME NEW g \in Readers, FinishGuard(g) PROVE FlagsSound'
  <2> DEFINE q == rxOf[g]
             top == rd[g].top
  <2>1. /\ q \in Receivers /\ Open(q) /\ consumed[q] \in Int /\ top \in Int
        /\ consumed[q] < top /\ top <= consumed[q] + Capacity
        /\ consumed' = [consumed EXCEPT ![q] = top] /\ flag' = flag
        /\ \A y \in (consumed[q] + 1) .. top : flag[IndexOf(y)] = AvailableFlag(y)
    BY <1>3, FinishGuardEffect
  <2> HIDE DEF q, top
  <2> SUFFICES ASSUME NEW r \in Receivers, Open(r)', NEW y \in Window(r)',
                      flag[IndexOf(y)] = AvailableFlag(y)
               PROVE  Settled(y)'
    BY <2>1
  <2>2. CASE r # q
    <3>1. Open(r) /\ y \in Window(r) /\ y \in Int
      BY <1>0, <2>1, <2>2, CapacityAssumption DEF Open, Window
    <3> QED
      BY <1>0, <3>1, SettledStays
  <2>3. CASE r = q
    <3>1. y \in Int /\ y > top /\ y <= top + Capacity
      BY <1>0, <2>1, <2>3, CapacityAssumption DEF Window
    <3>2. CASE y <= consumed[q] + Capacity
      <4>1. y \in Window(q)
        BY <2>1, <3>1, <3>2, CapacityAssumption DEF Window
      <4> QED
        BY <1>0, <2>1, <3>1, <4>1, SettledStays
    <3>3. CASE y > consumed[q] + Capacity
      <4> DEFINE z == y - Capacity
      <4>1. z \in (consumed[q] + 1) .. top /\ z \in Int /\ y = z + Capacity
        BY <2>1, <3>1, <3>3, CapacityAssumption
      <4> HIDE DEF z
      <4>2. IndexOf(y) = IndexOf(z) /\ AvailableFlag(y) # AvailableFlag(z)
        BY <4>1, IndexShift, NextLapDiffers
      <4> QED
        BY <2>1, <4>1, <4>2
    <3> QED
      BY <2>1, <3>1, <3>2, <3>3, CapacityAssumption
  <2> QED
    BY <2>2, <2>3
<1>4. ASSUME NEW r \in Receivers, DropReceiver(r) PROVE FlagsSound'
  <2> SUFFICES ASSUME NEW q \in Receivers, Open(q)', NEW y \in Window(q)',
                      flag'[IndexOf(y)] = AvailableFlag(y)
               PROVE  Settled(y)'
    OBVIOUS
  <2>1. Open(q) /\ y \in Window(q) /\ flag[IndexOf(y)] = AvailableFlag(y)
    BY <1>4, DropReceiverEffect DEF Window
  <2>2. y \in Int
    BY <1>0, <2>1, CapacityAssumption DEF Window
  <2> QED
    BY <1>0, <2>1, <2>2, SettledStays
<1>5. (\E s \in Senders : CasClaim(s)) \/ (\E s \in Senders : CommitPanic(s) \/ Abandon(s))
        \/ (\E s \in Senders : CloseStore(s)) => UNCHANGED <<flag, consumed>>
  BY DEF CasClaim, CommitPanic, Abandon, CloseStore, slotVars
<1> QED
  BY <1>1, <1>2, <1>3, <1>4, <1>5, StepShapes

\* PublishedSound is kept: a published flag is not overwritten while a live
\* receiver still has to see it.
LEMMA PublishedSoundStep ==
  ASSUME IndInv, OneGuardPerReceiver, LimitsFit, Next
  PROVE  PublishedSound'
<1> USE DEF PublishedSound
<1>0. /\ PublishedSound /\ published \subseteq Int
      /\ \A r \in Receivers : Open(r) => consumed[r] \in Int
      /\ flag \in [Slots -> Flags] /\ consumed \in [Receivers -> Cursors]
  BY Types DEF IndInv, TypeOK
<1>1. CASE UNCHANGED <<flag, consumed, published>>
  BY <1>0, <1>1 DEF Open
<1>2. ASSUME NEW s \in Senders, NEW x \in held[s], PublishSlot(s, x) PROVE PublishedSound'
  <2> SUFFICES ASSUME NEW r \in Receivers, Open(r), NEW y \in published'
               PROVE  /\ y <= consumed[r] + Capacity
                      /\ y > consumed[r] => flag'[IndexOf(y)] = AvailableFlag(y)
    BY <1>2, PublishEffect DEF Open
  <2>1. /\ x \in Window(r) /\ consumed[r] \in Int /\ IndexOf(x) \in Slots
        /\ \A v \in Window(r) : IndexOf(v) = IndexOf(x) => v = x
        /\ flag' = [flag EXCEPT ![IndexOf(x)] = AvailableFlag(x)]
        /\ y \in published \/ y = x
    BY <1>0, <1>2, PublishEffect
  <2>2. CASE y = x
    BY <1>0, <2>1, <2>2, CapacityAssumption DEF Window
  <2>3. CASE y \in published /\ y # x
    <3>1. y \in Int /\ y <= consumed[r] + Capacity
      BY <1>0, <2>3
    <3>2. ASSUME y > consumed[r] PROVE flag'[IndexOf(y)] = AvailableFlag(y)
      <4>1. y \in Window(r)
        BY <2>1, <3>1, <3>2, CapacityAssumption DEF Window
      <4>2. IndexOf(y) # IndexOf(x)
        BY <2>1, <2>3, <4>1
      <4> QED
        BY <1>0, <2>1, <2>3, <3>1, <3>2, <4>2, RingTypes
    <3> QED
      BY <3>1, <3>2
  <2> QED
    BY <2>1, <2>2, <2>3
<1>3. ASSUME NEW g \in Readers, FinishGuard(g) PROVE PublishedSound'
  <2> DEFINE q == rxOf[g]
             top == rd[g].top
  <2>1. /\ q \in Receivers /\ Open(q) /\ consumed[q] \in Int /\ top \in Int
        /\ consumed[q] < top
        /\ consumed' = [consumed EXCEPT ![q] = top] /\ UNCHANGED <<flag, published>>
    BY <1>3, FinishGuardEffect
  <2> HIDE DEF q, top
  <2> SUFFICES ASSUME NEW r \in Receivers, Open(r)', NEW y \in published
               PROVE  /\ y <= consumed'[r] + Capacity
                      /\ y > consumed'[r] => flag[IndexOf(y)] = AvailableFlag(y)
    BY <2>1
  <2>2. CASE r # q
    BY <1>0, <2>1, <2>2 DEF Open
  <2>3. CASE r = q
    BY <1>0, <2>1, <2>3, CapacityAssumption
  <2> QED
    BY <2>2, <2>3
<1>4. ASSUME NEW r \in Receivers, DropReceiver(r) PROVE PublishedSound'
  BY <1>0, <1>4, DropReceiverEffect
<1>5. (\E s \in Senders : CasClaim(s)) \/ (\E s \in Senders : CommitPanic(s) \/ Abandon(s))
        \/ (\E s \in Senders : CloseStore(s)) => UNCHANGED <<flag, consumed, published>>
  BY DEF CasClaim, CommitPanic, Abandon, CloseStore, slotVars
<1> QED
  BY <1>1, <1>2, <1>3, <1>4, <1>5, StepShapes

\* The gate's running minimum is below both its arguments (con_fanout.rs:35-43).
LEMMA MinSeqBounds ==
  ASSUME NEW a \in Cursors, NEW b \in Cursors
  PROVE  /\ MinSeq(a, b) \in {a, b}
         /\ a # SHUTDOWN_OPEN => MinSeq(a, b) # SHUTDOWN_OPEN /\ MinSeq(a, b) <= a
         /\ b # SHUTDOWN_OPEN => MinSeq(a, b) # SHUTDOWN_OPEN /\ MinSeq(a, b) <= b
  BY OpenAssumption DEF MinSeq, MinOf, Cursors

\* What a step does to the attempt of one sender.
LEMMA AttemptShapes ==
  ASSUME TypeOK, LimitsFit, Next, NEW u \in Senders
  PROVE  \/ pc'[u] \notin {"gate", "cas"}
         \/ pc'[u] = pc[u] /\ att'[u] = att[u]
         \/ LoadConsumed(u)
         \/ /\ pc'[u] = "gate" /\ ~claimedDown
            /\ att'[u].last = claimed /\ att'[u].gi = 0 /\ att'[u].gmin = SHUTDOWN_OPEN
            /\ (att'[u].want = att[u].want /\ pc[u] = "cas") \/ att'[u].want >= 1
            /\ UNCHANGED <<claimVars, consumed, held>>
<1> DEFINE Goal ==
         \/ pc'[u] \notin {"gate", "cas"}
         \/ pc'[u] = pc[u] /\ att'[u] = att[u]
         \/ LoadConsumed(u)
         \/ /\ pc'[u] = "gate" /\ ~claimedDown
            /\ att'[u].last = claimed /\ att'[u].gi = 0 /\ att'[u].gmin = SHUTDOWN_OPEN
            /\ (att'[u].want = att[u].want /\ pc[u] = "cas") \/ att'[u].want >= 1
            /\ UNCHANGED <<claimVars, consumed, held>>
<1>0. pc \in [Senders -> SenderPlaces] /\ att \in [Senders -> AttemptType] /\ cl \in [Senders -> CloseType]
  BY DEF TypeOK
<1>1. ASSUME NEW s \in Senders, NEW o \in Ops, NEW k \in Limits, StartClaim(s, o, k) PROVE Goal
  <2>1. CutLimit(k) >= 1
    BY LimitsAssumption, WidthAssumption, CapacityAssumption
    DEF CutLimit, MinOf, AsI64, LimitsFit
  <2> QED
    BY <1>0, <1>1, <2>1 DEF StartClaim
<1>2. ASSUME NEW s \in Senders, LoadConsumed(s) PROVE Goal
  BY <1>0, <1>2 DEF LoadConsumed, GiveUp
<1>3. ASSUME NEW s \in Senders, CasRetry(s) PROVE Goal
  BY <1>0, <1>3 DEF CasRetry, GiveUp
<1>4. ASSUME NEW s \in Senders, CasClaim(s) PROVE Goal
  BY <1>0, <1>4 DEF CasClaim
<1>5. ASSUME NEW s \in Senders, FillSlot(s) PROVE Goal
  BY <1>0, <1>5 DEF FillSlot, AfterFill
<1>6. ASSUME NEW s \in Senders, NEW x \in held[s], PublishSlot(s, x) PROVE Goal
  BY <1>0, <1>6 DEF PublishSlot
<1>7. ASSUME NEW s \in Senders, CommitPanic(s) \/ SlotPermitPanic(s) \/ ForgetSlotPermit(s) \/ Abandon(s) PROVE Goal
  BY <1>0, <1>7 DEF CommitPanic, SlotPermitPanic, ForgetSlotPermit, AfterFill, Abandon
<1>8. ASSUME NEW s \in Senders, CloseLoad(s) \/ CloseScan(s) \/ CloseMark(s) PROVE Goal
  BY <1>0, <1>8 DEF CloseLoad, CloseScan, CloseMark
<1>9. ASSUME NEW s \in Senders, CloseStore(s) PROVE Goal
  BY <1>0, <1>9 DEF CloseStore, CloseType
<1>10. ASSUME NEW s \in Senders, DropSender(s) PROVE Goal
  BY <1>0, <1>10 DEF DropSender
<1>11. ASSUME NEW s \in Senders, NEW t \in Senders, CloneSender(s, t) PROVE Goal
  BY <1>0, <1>11 DEF CloneSender
<1>12. ASSUME NEW g \in Readers,
              (\E k \in Limits : StartRecv(g, k)) \/ ScanSlot(g) \/ FinishGuard(g) \/ ForgetGuard(g)
       PROVE  Goal
  BY <1>12 DEF StartRecv, ScanSlot, FinishGuard, ForgetGuard, senderVars
<1>13. ASSUME NEW r \in Receivers, DropReceiver(r) PROVE Goal
  BY <1>13 DEF DropReceiver, senderVars
<1>14. CASE Terminated
  BY <1>14 DEF Terminated, vars, senderVars
<1> QED
  BY <1>1, <1>2, <1>3, <1>4, <1>5, <1>6, <1>7, <1>8, <1>9, <1>10, <1>11, <1>12, <1>13, <1>14
  DEF Next, SenderNext, SenderStep, ReaderStep

\* AttemptSound is kept: cursors only grow and claims only appear above
\* `claimed`, so the bound a sender read stays a bound (pub_mul.rs:125-168).
LEMMA AttemptStep ==
  ASSUME IndInv, OneGuardPerReceiver, LimitsFit, Next, NEW u \in Senders
  PROVE  AttemptSound(u)'
<1> DEFINE a == att[u]
<1>0. /\ TypeOK /\ CursorsInOrder /\ HeldInWindow /\ AttemptSound(u)
      /\ a \in AttemptType /\ claimed \in Int
      /\ held \in [Senders -> SUBSET Int] /\ consumed \in [Receivers -> Cursors]
      /\ \A r \in Receivers : Open(r) => consumed[r] \in Int
  BY Types DEF IndInv, TypeOK
<1>1. CASE pc'[u] \notin {"gate", "cas"}
  BY <1>1 DEF AttemptSound
<1>2. CASE /\ pc'[u] \in {"gate", "cas"} /\ pc'[u] = pc[u] /\ att'[u] = a
  <2> SUFFICES
        /\ ~claimedDown' => a.last <= claimed'
        /\ \A r \in Receivers : Open(r)' => Open(r) /\ consumed[r] <= consumed'[r] /\ consumed'[r] \in Int
        /\ (a.gmin # SHUTDOWN_OPEN /\ ~claimedDown') =>
              /\ a.gmin <= claimed'
              /\ \A t \in Senders : \A x \in held'[t] : a.gmin < x
    BY <1>0, <1>2 DEF AttemptSound, AttemptType, Cursors
  <2>0. /\ a.last \in Int /\ (a.gmin # SHUTDOWN_OPEN => a.gmin \in Int)
        /\ ~claimedDown => a.last <= claimed
        /\ (a.gmin # SHUTDOWN_OPEN /\ ~claimedDown) =>
              /\ a.gmin <= claimed
              /\ \A t \in Senders : \A x \in held[t] : a.gmin < x
    BY <1>0, <1>2 DEF AttemptSound, AttemptType, Cursors
  <2> HIDE DEF a
  <2>1. CASE UNCHANGED <<claimed, claimedDown, flag, consumed, held, published>>
    BY <1>0, <2>0, <2>1 DEF Open
  <2>2. ASSUME NEW s \in Senders, CasClaim(s)
        PROVE  /\ a.last <= claimed'
               /\ UNCHANGED consumed
               /\ a.gmin # SHUTDOWN_OPEN =>
                     /\ a.gmin <= claimed'
                     /\ \A t \in Senders : \A x \in held'[t] : a.gmin < x
    BY <1>0, <2>0, <2>2, CasClaimEffect
  <2>3. ASSUME NEW s \in Senders,
               (\E x \in held[s] : PublishSlot(s, x)) \/ CommitPanic(s) \/ Abandon(s)
        PROVE  /\ UNCHANGED <<claimed, claimedDown, consumed>>
               /\ \A t \in Senders : held'[t] \subseteq held[t]
    BY <2>3, HeldShrinks
  <2>4. ASSUME NEW s \in Senders, CloseStore(s)
        PROVE  /\ claimedDown' \/ UNCHANGED <<claimed, claimedDown>>
               /\ UNCHANGED <<consumed, held>>
    BY <2>4, CloseStoreEffect
  <2>5. ASSUME NEW g \in Readers, FinishGuard(g)
        PROVE  /\ UNCHANGED <<claimed, claimedDown, held>>
               /\ \A r \in Receivers : Open(r)' => Open(r) /\ consumed[r] <= consumed'[r] /\ consumed'[r] \in Int
    BY <1>0, <2>5, FinishGuardEffect DEF Open
  <2>6. ASSUME NEW q \in Receivers, DropReceiver(q)
        PROVE  /\ UNCHANGED <<claimed, claimedDown, held>>
               /\ \A r \in Receivers : Open(r)' => Open(r) /\ consumed[r] <= consumed'[r] /\ consumed'[r] \in Int
    BY <1>0, <2>6, DropReceiverEffect
  <2>7. UNCHANGED consumed =>
          \A r \in Receivers : Open(r)' => Open(r) /\ consumed[r] <= consumed'[r] /\ consumed'[r] \in Int
    BY <1>0 DEF Open
  <2>8. CASE \E s \in Senders : CasClaim(s)
    BY <2>2, <2>7, <2>8
  <2>9. CASE \E s \in Senders : (\E x \in held[s] : PublishSlot(s, x)) \/ CommitPanic(s) \/ Abandon(s)
    BY <2>0, <2>3, <2>7, <2>9
  <2>10. CASE \E s \in Senders : CloseStore(s)
    BY <2>0, <2>4, <2>7, <2>10
  <2>11. CASE \E g \in Readers : FinishGuard(g)
    BY <2>0, <2>5, <2>11
  <2>12. CASE \E q \in Receivers : DropReceiver(q)
    BY <2>0, <2>6, <2>12
  <2> QED
    BY <2>1, <2>8, <2>9, <2>10, <2>11, <2>12, StepShapes
<1>3. CASE LoadConsumed(u) /\ pc'[u] \in {"gate", "cas"}
  <2> DEFINE m == MinSeq(a.gmin, consumed[a.gi])
  <2>1. /\ pc[u] = "gate"
        /\ att'[u].want = a.want /\ att'[u].last = a.last /\ att'[u].gmin = m
        /\ \/ pc'[u] = "gate" /\ att'[u].gi = a.gi + 1
           \/ pc'[u] = "cas" /\ a.gi + 1 = NumReceivers /\ HasRoom(a.last, m)
        /\ UNCHANGED <<claimed, claimedDown, consumed, held>>
    BY <1>0, <1>3 DEF LoadConsumed, GiveUp, claimVars, TypeOK
  <2>2. a.gi \in Receivers /\ a.gmin \in Cursors /\ consumed[a.gi] \in Cursors
    BY <1>0 DEF AttemptType
  <2>3. /\ m \in {a.gmin, consumed[a.gi]}
        /\ a.gmin # SHUTDOWN_OPEN => m # SHUTDOWN_OPEN /\ m <= a.gmin
        /\ consumed[a.gi] # SHUTDOWN_OPEN => m # SHUTDOWN_OPEN /\ m <= consumed[a.gi]
    BY <2>2, MinSeqBounds
  <2> HIDE DEF m
  <2>4. ASSUME NEW r \in Receivers, Open(r), r < a.gi + 1
        PROVE  m # SHUTDOWN_OPEN /\ m <= consumed[r]
    <3>1. CASE r = a.gi
      BY <2>3, <2>4, <3>1 DEF Open
    <3>2. CASE r # a.gi
      <4>1. r < a.gi
        BY <2>2, <2>4, <3>2, ReceiversAssumption DEF Receivers
      <4>2. a.gmin # SHUTDOWN_OPEN /\ a.gmin <= consumed[r] /\ consumed[r] \in Int
        BY <1>0, <2>1, <2>4, <4>1 DEF AttemptSound
      <4> QED
        BY <2>2, <2>3, <4>2 DEF Cursors
    <3> QED
      BY <3>1, <3>2
  <2>5. ASSUME m # SHUTDOWN_OPEN, ~claimedDown
        PROVE  m <= claimed /\ \A t \in Senders : \A x \in held[t] : m < x
    <3>1. CASE m = a.gmin
      BY <1>0, <2>1, <2>5, <3>1 DEF AttemptSound
    <3>2. CASE m = consumed[a.gi]
      <4>1. Open(a.gi) /\ consumed[a.gi] \in Int
        BY <1>0, <2>2, <2>5, <3>2 DEF Open
      <4>2. m <= claimed
        BY <1>0, <2>2, <2>5, <3>2, <4>1 DEF CursorsInOrder
      <4>3. ASSUME NEW t \in Senders, NEW x \in held[t] PROVE m < x
        BY <1>0, <2>2, <3>2, <4>1, CapacityAssumption DEF HeldInWindow, Window
      <4> QED
        BY <4>2, <4>3
    <3> QED
      BY <2>3, <3>1, <3>2
  <2>6. a.want >= 1 /\ a.last >= -1 /\ (~claimedDown => a.last <= claimed)
    BY <1>0, <2>1 DEF AttemptSound
  <2>7. pc'[u] = "cas" => \A r \in Receivers : r < a.gi + 1
    BY <2>1, ReceiversAssumption DEF Receivers
  <2>8. \A r \in Receivers : Open(r)' = Open(r)
    BY <2>1 DEF Open
  <2>9. ASSUME NEW r \in Receivers, Open(r)', pc'[u] = "cas" \/ r < att'[u].gi
        PROVE  m # SHUTDOWN_OPEN /\ m <= consumed'[r]
    BY <2>1, <2>4, <2>7, <2>8, <2>9
  <2>10. pc'[u] = "cas" => HasRoom(a.last, m)
    BY <2>1
  <2> QED
    BY <2>1, <2>5, <2>6, <2>9, <2>10 DEF AttemptSound
<1>4. CASE /\ pc'[u] = "gate" /\ ~claimedDown
           /\ att'[u].last = claimed /\ att'[u].gi = 0 /\ att'[u].gmin = SHUTDOWN_OPEN
           /\ (att'[u].want = att[u].want /\ pc[u] = "cas") \/ att'[u].want >= 1
           /\ UNCHANGED <<claimVars, consumed, held>>
  <2>1. att'[u].want >= 1
    BY <1>0, <1>4 DEF AttemptSound
  <2>2. \A r \in Receivers : ~(r < 0)
    BY ReceiversAssumption DEF Receivers
  <2> QED
    BY <1>0, <1>4, <2>1, <2>2 DEF AttemptSound, CursorsInOrder, claimVars
<1> QED
  BY <1>0, <1>1, <1>2, <1>3, <1>4, AttemptShapes

\* A sender never touches a reader's locals.
LEMMA SendersLeaveReaders ==
  ASSUME NEW s \in Senders, SenderNext(s)
  PROVE  UNCHANGED readerVars
<1> USE DEF readerVars
<1>1. (\E o \in Ops, k \in Limits : StartClaim(s, o, k)) => UNCHANGED readerVars
  BY DEF StartClaim
<1>2. LoadConsumed(s) \/ CasClaim(s) \/ CasRetry(s) => UNCHANGED readerVars
  BY DEF LoadConsumed, CasClaim, CasRetry
<1>3. FillSlot(s) \/ (\E x \in held[s] : PublishSlot(s, x)) => UNCHANGED readerVars
  BY DEF FillSlot, PublishSlot
<1>4. CloseLoad(s) \/ CloseScan(s) \/ CloseMark(s) \/ CloseStore(s) => UNCHANGED readerVars
  BY DEF CloseLoad, CloseScan, CloseMark, CloseStore
<1>5. CommitPanic(s) \/ SlotPermitPanic(s) \/ ForgetSlotPermit(s) \/ Abandon(s) => UNCHANGED readerVars
  BY DEF CommitPanic, SlotPermitPanic, ForgetSlotPermit, Abandon
<1>6. DropSender(s) \/ (\E t \in Senders : CloneSender(s, t)) => UNCHANGED readerVars
  BY DEF DropSender, CloneSender
<1> QED
  BY <1>1, <1>2, <1>3, <1>4, <1>5, <1>6 DEF SenderNext, SenderStep

\* What a step does to one reader: it ends the call, leaves it alone, or is
\* a step of that reader's own try_claim_at_most.
LEMMA ReaderShapes ==
  ASSUME TypeOK, LimitsFit, Next, NEW g \in Readers
  PROVE  \/ rpc'[g] = "idle"
         \/ rpc'[g] = rpc[g] /\ rd'[g] = rd[g]
         \/ \E k \in Limits : StartRecv(g, k)
         \/ ScanSlot(g)
<1> DEFINE Goal == \/ rpc'[g] = "idle"
                   \/ rpc'[g] = rpc[g] /\ rd'[g] = rd[g]
                   \/ \E k \in Limits : StartRecv(g, k)
                   \/ ScanSlot(g)
<1>0. rpc \in [Readers -> {"idle", "scan", "guard"}] /\ rd \in [Readers -> ScanType]
  BY DEF TypeOK
<1>1. (\E s \in Senders : SenderNext(s)) => UNCHANGED readerVars
  BY SendersLeaveReaders
<1>2. UNCHANGED readerVars => Goal
  BY DEF readerVars
<1>3. ASSUME NEW h \in Readers, h # g,
             (\E k \in Limits : StartRecv(h, k)) \/ ScanSlot(h) \/ FinishGuard(h) \/ ForgetGuard(h)
      PROVE  Goal
  <2>1. (\E k \in Limits : StartRecv(h, k)) => Goal
    BY <1>0, <1>3 DEF StartRecv
  <2>2. ScanSlot(h) => Goal
    BY <1>0, <1>3 DEF ScanSlot
  <2>3. FinishGuard(h) \/ ForgetGuard(h) => Goal
    BY <1>0, <1>3 DEF FinishGuard, ForgetGuard
  <2> QED
    BY <1>3, <2>1, <2>2, <2>3
<1>4. FinishGuard(g) \/ ForgetGuard(g) => Goal
  BY <1>0 DEF FinishGuard, ForgetGuard
<1>5. (\E r \in Receivers : DropReceiver(r)) \/ Terminated => UNCHANGED readerVars
  BY DEF DropReceiver, Terminated, vars
<1> QED
  BY <1>1, <1>2, <1>3, <1>4, <1>5 DEF Next, ReaderStep

\* Only a reader's own scan ends its call (consumer.rs try_claim_at_most).
LEMMA ScanEnds ==
  ASSUME TypeOK, LimitsFit, Next, NEW g \in Readers, rpc[g] = "scan", rpc'[g] = "idle"
  PROVE  ScanSlot(g)
<1>0. rpc \in [Readers -> {"idle", "scan", "guard"}]
  BY DEF TypeOK
<1>1. ASSUME NEW s \in Senders, SenderNext(s) PROVE FALSE
  BY <1>1, SendersLeaveReaders DEF readerVars
<1>2. ASSUME NEW h \in Readers,
             (\E k \in Limits : StartRecv(h, k)) \/ FinishGuard(h) \/ ForgetGuard(h)
                \/ (h # g /\ ScanSlot(h))
      PROVE  FALSE
  BY <1>0, <1>2 DEF StartRecv, FinishGuard, ForgetGuard, ScanSlot
<1>3. ~(\E r \in Receivers : DropReceiver(r)) /\ ~Terminated
  BY DEF DropReceiver, Terminated, vars, readerVars
<1> QED
  BY <1>1, <1>2, <1>3 DEF Next, ReaderStep

\* A published slot is not one a reader has accepted: the flags a scan or a
\* guard relies on stay (slot_states.rs publish against scan_available_until).
LEMMA AcceptedStays ==
  ASSUME IndInv, NEW s \in Senders, NEW x \in held[s], PublishSlot(s, x),
         NEW r \in Receivers, Open(r), NEW y \in Window(r),
         flag[IndexOf(y)] = AvailableFlag(y)
  PROVE  flag'[IndexOf(y)] = AvailableFlag(y)
<1>1. Settled(y)
  BY DEF IndInv, FlagsSound
<1>2. y # x
  BY <1>1 DEF Settled
<1>3. IndexOf(y) # IndexOf(x)
  BY <1>2, PublishEffect
<1>4. flag \in [Slots -> Flags] /\ y \in Int
  BY Types, CapacityAssumption DEF IndInv, TypeOK, Window
<1> QED
  BY <1>3, <1>4, PublishEffect, RingTypes

\* try_claim_at_most of the consumer and the guard it returns: the receiver's
\* cursor does not move under it and the flags it has accepted stay.
LEMMA ReaderSoundStep ==
  ASSUME IndInv, OneGuardPerReceiver, LimitsFit, Next, NEW g \in Readers
  PROVE  ReaderSound(g)'
<1> DEFINE r == rxOf[g]
           End == IF rpc[g] = "scan" THEN rd[g].pos - 1 ELSE rd[g].top
<1>0. /\ TypeOK /\ ReaderSound(g) /\ r \in Receivers
      /\ rd \in [Readers -> ScanType] /\ consumed \in [Receivers -> Cursors]
      /\ rpc \in [Readers -> {"idle", "scan", "guard"}]
      /\ Open(r) => consumed[r] \in Int
  BY Types, LocalTypes DEF IndInv, TypeOK
<1>1. CASE rpc'[g] = "idle"
  BY <1>1 DEF ReaderSound
<1>2. CASE rpc'[g] # "idle" /\ rpc'[g] = rpc[g] /\ rd'[g] = rd[g]
  <2>1. /\ rpc[g] \in {"scan", "guard"} /\ Open(r) /\ rd[g].base = consumed[r]
        /\ rd[g].base < rd[g].top /\ rd[g].top <= rd[g].base + Capacity
        /\ rpc[g] = "scan" => rd[g].base < rd[g].pos /\ rd[g].pos <= rd[g].top
        /\ \A y \in (rd[g].base + 1) .. End : flag[IndexOf(y)] = AvailableFlag(y)
    BY <1>0, <1>2 DEF ReaderSound
  <2>2. \A y \in (rd[g].base + 1) .. End : y \in Window(r)
    BY <1>0, <2>1, CapacityAssumption DEF ScanType, Window
  <2> SUFFICES /\ consumed'[r] = consumed[r]
               /\ \A y \in (rd[g].base + 1) .. End : flag'[IndexOf(y)] = AvailableFlag(y)
    BY <1>2, <2>1 DEF ReaderSound, Open
  <2> HIDE DEF End
  <2>3. CASE UNCHANGED <<flag, consumed>>
    BY <2>1, <2>3
  <2>4. ASSUME NEW s \in Senders, NEW x \in held[s], PublishSlot(s, x)
        PROVE  /\ consumed' = consumed
               /\ \A y \in (rd[g].base + 1) .. End : flag'[IndexOf(y)] = AvailableFlag(y)
    BY <1>0, <2>1, <2>2, <2>4, AcceptedStays, PublishEffect
  <2>5. ASSUME NEW h \in Readers, FinishGuard(h)
        PROVE  consumed'[r] = consumed[r] /\ flag' = flag
    <3>1. h # g
      BY <1>0, <1>2, <2>5 DEF FinishGuard
    <3>2. rxOf[h] # r
      BY <3>1 DEF OneGuardPerReceiver
    <3> QED
      BY <1>0, <2>5, <3>2, FinishGuardEffect
  <2>6. ASSUME NEW q \in Receivers, DropReceiver(q)
        PROVE  consumed'[r] = consumed[r] /\ flag' = flag
    <3>1. q # r
      BY <2>1, <2>6 DEF DropReceiver
    <3> QED
      BY <1>0, <2>6, <3>1 DEF DropReceiver, slotVars
  <2>7. (\E s \in Senders : CasClaim(s)) \/ (\E s \in Senders : CommitPanic(s) \/ Abandon(s))
          \/ (\E s \in Senders : CloseStore(s)) => UNCHANGED <<flag, consumed>>
    BY DEF CasClaim, CommitPanic, Abandon, CloseStore, slotVars
  <2> QED
    BY <2>1, <2>3, <2>4, <2>5, <2>6, <2>7, StepShapes
<1>3. ASSUME NEW k \in Limits, StartRecv(g, k) PROVE ReaderSound(g)'
  <2>1. CutLimit(k) \in Nat /\ 1 <= CutLimit(k) /\ CutLimit(k) <= Capacity
    BY LimitsAssumption, WidthAssumption, CapacityAssumption
    DEF CutLimit, MinOf, AsI64, LimitsFit
  <2>2. /\ Open(r) /\ consumed[r] \in Int /\ UNCHANGED <<flag, consumed>>
        /\ rpc'[g] = "scan"
        /\ rd'[g] = [base |-> consumed[r], top |-> consumed[r] + CutLimit(k),
                     pos |-> consumed[r] + 1, sd |-> FALSE]
    BY <1>0, <1>3 DEF StartRecv, slotVars
  <2>3. /\ rd'[g].base = consumed[r] /\ rd'[g].top = consumed[r] + CutLimit(k)
        /\ rd'[g].pos = consumed[r] + 1
    BY <2>2
  <2>4. \A y \in (rd'[g].base + 1) .. (rd'[g].pos - 1) : FALSE
    BY <2>2, <2>3
  <2>5. /\ rd'[g].base < rd'[g].top /\ rd'[g].top <= rd'[g].base + Capacity
        /\ rd'[g].base < rd'[g].pos /\ rd'[g].pos <= rd'[g].top
    BY <2>1, <2>2, <2>3, CapacityAssumption
  <2>6. Open(r)' /\ rd'[g].base = consumed'[r]
    BY <2>2, <2>3 DEF Open
  <2> QED
    BY <2>2, <2>4, <2>5, <2>6 DEF ReaderSound
<1>4. CASE ScanSlot(g) /\ rpc'[g] # "idle"
  <2> DEFINE d == rd[g]
  <2>1. /\ rpc[g] = "scan" /\ Open(r) /\ d.base = consumed[r]
        /\ d.base < d.top /\ d.top <= d.base + Capacity
        /\ d.base < d.pos /\ d.pos <= d.top
        /\ \A y \in (d.base + 1) .. (d.pos - 1) : flag[IndexOf(y)] = AvailableFlag(y)
        /\ d.base \in Int /\ d.top \in Int /\ d.pos \in Int
        /\ UNCHANGED <<flag, consumed>>
    BY <1>0, <1>4 DEF ReaderSound, ScanSlot, slotVars, ScanType
  <2>2. CASE /\ rpc'[g] = "scan" /\ SlotReady(d.pos) /\ d.pos < d.top
             /\ rd'[g].base = d.base /\ rd'[g].top = d.top /\ rd'[g].pos = d.pos + 1
    <3>1. \A y \in (d.base + 1) .. (d.pos + 1 - 1) : flag[IndexOf(y)] = AvailableFlag(y)
      BY <2>1, <2>2 DEF SlotReady
    <3> QED
      BY <2>1, <2>2, <3>1 DEF ReaderSound, Open
  <2>3. ASSUME NEW last, rpc'[g] = "guard",
               last = IF SlotReady(d.pos) THEN d.pos ELSE d.pos - 1, last > d.base,
               rd'[g].base = d.base, rd'[g].top = last
        PROVE  ReaderSound(g)'
    <3>1. /\ \A y \in (d.base + 1) .. last : flag[IndexOf(y)] = AvailableFlag(y)
          /\ last \in Int /\ last <= d.top
      BY <2>1, <2>3 DEF SlotReady
    <3> QED
      BY <2>1, <2>3, <3>1, CapacityAssumption DEF ReaderSound, Open
  <2> DEFINE last == IF SlotReady(d.pos) THEN d.pos ELSE d.pos - 1
  <2>4. \/ /\ rpc'[g] = "scan" /\ SlotReady(d.pos) /\ d.pos < d.top
           /\ rd'[g].base = d.base /\ rd'[g].top = d.top /\ rd'[g].pos = d.pos + 1
        \/ /\ rpc'[g] = "guard" /\ last > d.base
           /\ rd'[g].base = d.base /\ rd'[g].top = last
    BY <1>0, <1>4 DEF ScanSlot, ScanOutcome
  <2> QED
    BY <2>2, <2>3, <2>4
<1> QED
  BY <1>0, <1>1, <1>2, <1>3, <1>4, ReaderShapes

\* Only a clone brings a sender use to life, from one that is not closing the
\* channel for good (Sender::clone against the drop of SharedState).
LEMMA OnlyClonesWake ==
  ASSUME TypeOK, LimitsFit, Next, NEW t \in Senders, ~Alive(t)
  PROVE  ~Alive(t)' \/ \E s \in Senders : s # t /\ CloneSender(s, t)
<1> USE DEF Alive
<1>0. pc \in [Senders -> SenderPlaces]
  BY DEF TypeOK
<1>1. ASSUME NEW s \in Senders, SenderNext(s), s # t, ~\E q \in Senders : CloneSender(s, q)
      PROVE  pc'[t] = pc[t]
  <2>1. (\E o \in Ops, k \in Limits : StartClaim(s, o, k)) => pc'[t] = pc[t]
    BY <1>0, <1>1 DEF StartClaim
  <2>2. LoadConsumed(s) \/ CasClaim(s) \/ CasRetry(s) => pc'[t] = pc[t]
    BY <1>0, <1>1 DEF LoadConsumed, CasClaim, CasRetry, GiveUp
  <2>3. FillSlot(s) \/ (\E x \in held[s] : PublishSlot(s, x)) => pc'[t] = pc[t]
    BY <1>0, <1>1 DEF FillSlot, PublishSlot
  <2>4. CloseLoad(s) \/ CloseScan(s) \/ CloseMark(s) \/ CloseStore(s) => pc'[t] = pc[t]
    BY <1>0, <1>1 DEF CloseLoad, CloseScan, CloseMark, CloseStore
  <2>5. CommitPanic(s) \/ SlotPermitPanic(s) \/ ForgetSlotPermit(s) \/ Abandon(s) => pc'[t] = pc[t]
    BY <1>0, <1>1 DEF CommitPanic, SlotPermitPanic, ForgetSlotPermit, Abandon
  <2>6. DropSender(s) => pc'[t] = pc[t]
    BY <1>0, <1>1 DEF DropSender
  <2> QED
    BY <1>1, <2>1, <2>2, <2>3, <2>4, <2>5, <2>6 DEF SenderNext, SenderStep
<1>2. ~SenderNext(t)
  <2>1. ~(\E o \in Ops, k \in Limits : StartClaim(t, o, k)) /\ ~DropSender(t)
    BY DEF StartClaim, DropSender
  <2>2. ~LoadConsumed(t) /\ ~CasClaim(t) /\ ~CasRetry(t) /\ ~FillSlot(t)
    BY DEF LoadConsumed, CasClaim, CasRetry, FillSlot
  <2>3. ~(\E x \in held[t] : PublishSlot(t, x)) /\ ~CommitPanic(t) /\ ~SlotPermitPanic(t) /\ ~ForgetSlotPermit(t) /\ ~Abandon(t)
    BY DEF PublishSlot, CommitPanic, SlotPermitPanic, ForgetSlotPermit, Abandon
  <2>4. ~CloseLoad(t) /\ ~CloseScan(t) /\ ~CloseMark(t) /\ ~CloseStore(t)
    BY DEF CloseLoad, CloseScan, CloseMark, CloseStore
  <2>5. ~\E q \in Senders : CloneSender(t, q)
    BY DEF CloneSender
  <2> QED
    BY <2>1, <2>2, <2>3, <2>4, <2>5 DEF SenderNext, SenderStep
<1>3. ASSUME NEW s \in Senders, NEW q \in Senders, CloneSender(s, q)
      PROVE  pc'[t] = pc[t] \/ (q = t /\ s # t)
  BY <1>0, <1>3 DEF CloneSender
<1>4. (\E g \in Readers : ReaderStep(g) \/ ForgetGuard(g)) => pc' = pc
  BY DEF ReaderStep, StartRecv, ScanSlot, FinishGuard, ForgetGuard, senderVars
<1>5. (\E r \in Receivers : DropReceiver(r)) \/ Terminated => pc' = pc
  BY DEF DropReceiver, Terminated, vars, senderVars
<1> QED
  BY <1>1, <1>2, <1>3, <1>4, <1>5 DEF Next

\* What a step does to one sender's place and to its locals of close().
LEMMA CloseShapes ==
  ASSUME TypeOK, LimitsFit, Next, NEW u \in Senders
  PROVE  /\ pc'[u] = "write" =>
              \/ pc[u] = "write"
              \/ CasClaim(u)
              \/ CloseStore(u) /\ cl[u].ret # "dropped"
         /\ \/ pc'[u] \notin Closing
            \/ pc'[u] = pc[u] /\ cl'[u] = cl[u]
            \/ /\ pc[u] = "idle" /\ DropCloses(u) /\ UNCHANGED claimed
               /\ pc'[u] = "cload" /\ cl'[u].ret = "dropped"
               /\ \A t \in Senders \ {u} : pc'[t] = pc[t]
            \/ /\ pc[u] = "write" /\ UNCHANGED claimed
               /\ pc'[u] = "cload" /\ cl'[u].ret # "dropped"
            \/ /\ pc[u] = "cload" /\ UNCHANGED claimed
               /\ cl'[u].ret = cl[u].ret /\ cl'[u].val = claimed
            \/ /\ pc[u] \in Closing \ {"cload"} /\ UNCHANGED claimed
               /\ cl'[u].ret = cl[u].ret /\ cl'[u].val = cl[u].val
<1> DEFINE Writes == pc'[u] = "write" =>
                        \/ pc[u] = "write"
                        \/ CasClaim(u)
                        \/ CloseStore(u) /\ cl[u].ret # "dropped"
           Closes ==
            \/ pc'[u] \notin Closing
            \/ pc'[u] = pc[u] /\ cl'[u] = cl[u]
            \/ /\ pc[u] = "idle" /\ DropCloses(u) /\ UNCHANGED claimed
               /\ pc'[u] = "cload" /\ cl'[u].ret = "dropped"
               /\ \A t \in Senders \ {u} : pc'[t] = pc[t]
            \/ /\ pc[u] = "write" /\ UNCHANGED claimed
               /\ pc'[u] = "cload" /\ cl'[u].ret # "dropped"
            \/ /\ pc[u] = "cload" /\ UNCHANGED claimed
               /\ cl'[u].ret = cl[u].ret /\ cl'[u].val = claimed
            \/ /\ pc[u] \in Closing \ {"cload"} /\ UNCHANGED claimed
               /\ cl'[u].ret = cl[u].ret /\ cl'[u].val = cl[u].val
<1> USE DEF Closing
<1>0. pc \in [Senders -> SenderPlaces] /\ cl \in [Senders -> CloseType]
  BY DEF TypeOK
<1>1. ASSUME NEW s \in Senders, \E o \in Ops, k \in Limits : StartClaim(s, o, k) PROVE Writes /\ Closes
  BY <1>0, <1>1 DEF StartClaim
<1>2. ASSUME NEW s \in Senders, LoadConsumed(s) \/ CasRetry(s) PROVE Writes /\ Closes
  BY <1>0, <1>2 DEF LoadConsumed, CasRetry, GiveUp
<1>3. ASSUME NEW s \in Senders, CasClaim(s) PROVE Writes /\ Closes
  BY <1>0, <1>3 DEF CasClaim
<1>4. ASSUME NEW s \in Senders, FillSlot(s) PROVE Writes /\ Closes
  BY <1>0, <1>4 DEF FillSlot, AfterFill
<1>5. ASSUME NEW s \in Senders, NEW x \in held[s], PublishSlot(s, x) PROVE Writes /\ Closes
  BY <1>0, <1>5 DEF PublishSlot
<1>6. ASSUME NEW s \in Senders, CommitPanic(s) \/ Abandon(s) PROVE Writes /\ Closes
  BY <1>0, <1>6 DEF CommitPanic, Abandon, claimVars
<1>7. ASSUME NEW s \in Senders, SlotPermitPanic(s) \/ ForgetSlotPermit(s) PROVE Writes /\ Closes
  BY <1>0, <1>7 DEF SlotPermitPanic, ForgetSlotPermit, AfterFill, claimVars
<1>8. ASSUME NEW s \in Senders, CloseLoad(s) PROVE Writes /\ Closes
  BY <1>0, <1>8 DEF CloseLoad, claimVars
<1>9. ASSUME NEW s \in Senders, CloseScan(s) PROVE Writes /\ Closes
  BY <1>0, <1>9 DEF CloseScan, claimVars
<1>10. ASSUME NEW s \in Senders, CloseMark(s) PROVE Writes /\ Closes
  BY <1>0, <1>10 DEF CloseMark, claimVars
<1>11. ASSUME NEW s \in Senders, CloseStore(s) PROVE Writes /\ Closes
  <2>1. pc' = [pc EXCEPT ![s] = cl[s].ret] /\ cl' = [cl EXCEPT ![s] = NoClose]
    BY <1>11 DEF CloseStore
  <2>2. cl[s].ret \in {"idle", "write", "publish", "dropped"}
    BY <1>0 DEF CloseType
  <2> QED
    BY <1>0, <1>11, <2>1, <2>2
<1>12. ASSUME NEW s \in Senders, DropSender(s) PROVE Writes /\ Closes
  BY <1>0, <1>12 DEF DropSender, claimVars
<1>13. ASSUME NEW s \in Senders, NEW t \in Senders, CloneSender(s, t) PROVE Writes /\ Closes
  BY <1>0, <1>13 DEF CloneSender
<1>14. ASSUME NEW g \in Readers, ReaderStep(g) \/ ForgetGuard(g) PROVE Writes /\ Closes
  BY <1>14 DEF ReaderStep, StartRecv, ScanSlot, FinishGuard, ForgetGuard, senderVars
<1>15. ASSUME (\E r \in Receivers : DropReceiver(r)) \/ Terminated PROVE Writes /\ Closes
  BY <1>15 DEF DropReceiver, Terminated, vars, senderVars
<1> QED
  BY <1>1, <1>2, <1>3, <1>4, <1>5, <1>6, <1>7, <1>8, <1>9, <1>10, <1>11, <1>12, <1>13, <1>14, <1>15
  DEF Next, SenderNext, SenderStep

\* The locals of close() stay sound: whoever closes after a panic stores a
\* claimed sequence, and the drop of the last sender runs alone.
LEMMA CloseSoundStep ==
  ASSUME IndInv, OneGuardPerReceiver, LimitsFit, Next
  PROVE  CloseSound'
<1>0. TypeOK /\ CloseSound /\ claimed \in Int
  BY DEF IndInv, TypeOK
<1>1. claimed >= 0 => claimed' >= 0
  <2>1. ASSUME NEW s \in Senders, CasClaim(s), claimed >= 0 PROVE claimed' >= 0
    BY <1>0, <2>1, CasClaimEffect
  <2>2. ASSUME NEW s \in Senders, CloseStore(s), claimed >= 0 PROVE claimed' >= 0
    BY <2>2, CloseStoreEffect
  <2> QED
    BY <2>1, <2>2, StepShapes, HeldShrinks, FinishGuardEffect, DropReceiverEffect
<1> SUFFICES ASSUME NEW u \in Senders
    PROVE  /\ (pc'[u] = "write" \/ held'[u] # {}) => claimed' >= 0
           /\ pc'[u] \in Closing /\ cl'[u].ret = "dropped" => \A t \in Senders \ {u} : ~Alive(t)'
           /\ pc'[u] \in Closing /\ cl'[u].ret # "dropped" => claimed' >= 0
           /\ pc'[u] \in Closing \ {"cload"} =>
                IF cl'[u].ret = "dropped" THEN cl'[u].val = claimed' ELSE cl'[u].val >= 0
  BY DEF CloseSound
<1>2. /\ (pc[u] = "write" \/ held[u] # {}) => claimed >= 0
      /\ pc[u] \in Closing /\ cl[u].ret = "dropped" => \A t \in Senders \ {u} : ~Alive(t)
      /\ pc[u] \in Closing /\ cl[u].ret # "dropped" => claimed >= 0
      /\ pc[u] \in Closing \ {"cload"} =>
           IF cl[u].ret = "dropped" THEN cl[u].val = claimed ELSE cl[u].val >= 0
  BY <1>0 DEF CloseSound
<1>3. CasClaim(u) => claimed' >= 0
  <2> SUFFICES ASSUME CasClaim(u) PROVE claimed' >= 0
    OBVIOUS
  <2>1. claimed < claimed' /\ claimed' \in Int /\ claimed >= -1
    BY CasClaimEffect DEF IndInv, CursorsInOrder
  <2> QED
    BY <1>0, <2>1
<1>4. CloseStore(u) /\ cl[u].ret # "dropped" => claimed' >= 0
  BY <1>1, <1>2 DEF CloseStore, Closing
<1>5. pc'[u] = "write" => claimed' >= 0
  BY <1>0, <1>1, <1>2, <1>3, <1>4, CloseShapes
<1>6. held'[u] # {} => claimed' >= 0
  <2>1. held \in [Senders -> SUBSET Int]
    BY <1>0 DEF TypeOK
  <2>2. ASSUME NEW s \in Senders, CasClaim(s) PROVE held'[u] = held[u] \/ s = u
    BY <2>1, <2>2 DEF CasClaim
  <2>3. ASSUME NEW s \in Senders,
               (\E x \in held[s] : PublishSlot(s, x)) \/ CommitPanic(s) \/ Abandon(s)
        PROVE  held'[u] \subseteq held[u]
    BY <2>3, HeldShrinks
  <2>4. (\E s \in Senders : CloseStore(s)) \/ (\E g \in Readers : FinishGuard(g))
          \/ (\E r \in Receivers : DropReceiver(r)) => held' = held
    BY CloseStoreEffect, FinishGuardEffect, DropReceiverEffect
  <2>5. held'[u] \subseteq held[u] \/ CasClaim(u)
    BY <2>2, <2>3, <2>4, StepShapes
  <2> QED
    BY <1>1, <1>2, <1>3, <2>5
\* Nobody else runs while the last sender closes, so nothing moves `claimed`.
<1>7. ASSUME pc[u] \in Closing, cl[u].ret = "dropped"
      PROVE  \A t \in Senders \ {u} : ~Alive(t)'
  <2> SUFFICES ASSUME NEW t \in Senders \ {u}, Alive(t)' PROVE FALSE
    OBVIOUS
  <2>1. ~Alive(t)
    BY <1>2, <1>7
  <2>2. PICK s \in Senders : s # t /\ CloneSender(s, t)
    BY <1>0, <2>1, OnlyClonesWake
  <2>3. s = u
    BY <1>2, <1>7, <2>2 DEF CloneSender
  <2> QED
    BY <1>7, <2>2, <2>3 DEF CloneSender
<1>8. ASSUME pc[u] \in Closing, cl[u].ret = "dropped", pc'[u] \in Closing PROVE claimed' = claimed
  <2>1. ASSUME NEW s \in Senders, CasClaim(s) \/ CloseStore(s) PROVE FALSE
    <3>1. Alive(s)
      BY <2>1 DEF CasClaim, CloseStore, Alive
    <3>2. s = u
      BY <1>2, <1>8, <3>1
    <3>3. CloseStore(u) => pc'[u] = "dropped"
      BY <1>0, <1>8 DEF CloseStore, TypeOK
    <3> QED
      BY <1>8, <2>1, <3>2, <3>3 DEF CasClaim, Closing
  <2> QED
    BY <2>1, StepShapes, HeldShrinks, FinishGuardEffect, DropReceiverEffect
<1>9. CASE pc'[u] \notin Closing
  BY <1>5, <1>6, <1>9
<1>10. CASE pc'[u] \in Closing /\ pc'[u] = pc[u] /\ cl'[u] = cl[u]
  BY <1>1, <1>2, <1>5, <1>6, <1>7, <1>8, <1>10
<1>11. CASE /\ pc[u] = "idle" /\ DropCloses(u) /\ UNCHANGED claimed
            /\ pc'[u] = "cload" /\ cl'[u].ret = "dropped"
            /\ \A t \in Senders \ {u} : pc'[t] = pc[t]
  BY <1>5, <1>6, <1>11 DEF DropCloses, Alive
<1>12. CASE /\ pc[u] = "write" /\ UNCHANGED claimed
            /\ pc'[u] = "cload" /\ cl'[u].ret # "dropped"
  BY <1>2, <1>5, <1>6, <1>12
<1>13. CASE /\ pc'[u] \in Closing /\ pc[u] = "cload" /\ UNCHANGED claimed
            /\ cl'[u].ret = cl[u].ret /\ cl'[u].val = claimed
  <2>1. pc[u] \in Closing
    BY <1>13 DEF Closing
  <2> QED
    BY <1>2, <1>5, <1>6, <1>7, <1>13, <2>1
<1>14. CASE /\ pc'[u] \in Closing /\ pc[u] \in Closing \ {"cload"} /\ UNCHANGED claimed
            /\ cl'[u].ret = cl[u].ret /\ cl'[u].val = cl[u].val
  BY <1>2, <1>5, <1>6, <1>7, <1>14
<1> QED
  BY <1>0, <1>9, <1>10, <1>11, <1>12, <1>13, <1>14, CloseShapes

-------------------------------------------------------------------------------
(* The invariant. *)

\* The channel channel_with_ring builds: an empty ring, every cursor at INIT.
LEMMA InitIndInv ==
  Init => IndInv
<1> SUFFICES ASSUME Init PROVE IndInv
  OBVIOUS
<1> USE DEF Init
<1>0. -1 # SHUTDOWN_OPEN /\ EmptyFlag \in Flags /\ Capacity \in Nat
  BY OpenAssumption, LapsAssumption, CapacityAssumption DEF EmptyFlag, Flags
<1>1. TypeOK
  <2>1. pc \in [Senders -> SenderPlaces]
    BY DEF SenderPlaces
  <2>2. flag \in [Slots -> Flags] /\ consumed \in [Receivers -> Cursors]
    BY <1>0 DEF Cursors
  <2>3. ring \in [Slots -> Int] /\ shut \in [Slots -> BOOLEAN]
    OBVIOUS
  <2>4. att \in [Senders -> AttemptType] /\ cl \in [Senders -> CloseType] /\ rd \in [Readers -> ScanType]
    BY LocalTypes
  <2>5. claimed \in Int /\ published \subseteq Int
    OBVIOUS
  <2>6. claimedDown \in BOOLEAN
    OBVIOUS
  <2>7. /\ op \in [Senders -> {"none", "send", "reserve", "batch"}]
        /\ held \in [Senders -> SUBSET Int] /\ nxt \in [Senders -> Int]
    OBVIOUS
  <2>8. /\ rpc \in [Readers -> {"idle", "scan", "guard"}]
        /\ rres \in [Readers -> Outcomes]
    BY DEF Outcomes
  <2> HIDE DEF Init
  <2> QED
    BY <2>1, <2>2, <2>3, <2>4, <2>5, <2>6, <2>7, <2>8 DEF TypeOK
<1>2. CursorsInOrder /\ HeldInWindow /\ HeldApart
  BY DEF CursorsInOrder, HeldInWindow, HeldApart
<1>3. (\A s \in Senders : AttemptSound(s)) /\ (\A g \in Readers : ReaderSound(g))
  BY DEF AttemptSound, ReaderSound
<1>4. FlagsSound
  <2> SUFFICES ASSUME NEW r \in Receivers, NEW y \in Window(r) PROVE flag[IndexOf(y)] # AvailableFlag(y)
    BY DEF FlagsSound
  <2>1. y \in 0 .. (Capacity - 1) /\ y \in Int
    BY <1>0 DEF Window
  <2> QED
    BY <2>1, FirstLapNotEmpty, RingTypes
<1>5. PublishedSound /\ CloseSound
  BY DEF PublishedSound, CloseSound, Closing
<1> QED
  BY <1>1, <1>2, <1>3, <1>4, <1>5 DEF IndInv

\* IndInv speaks of the variables only.
LEMMA StutterIndInv ==
  ASSUME IndInv, UNCHANGED vars
  PROVE  IndInv'
<1> USE DEF vars, claimVars, slotVars, senderVars, readerVars
<1>1. TypeOK' /\ CursorsInOrder' /\ HeldInWindow' /\ HeldApart'
  BY DEF IndInv, TypeOK, CursorsInOrder, HeldInWindow, HeldApart, Window, Open
<1>2. \A s \in Senders : AttemptSound(s)'
  BY DEF IndInv, AttemptSound, Open
<1>3. \A g \in Readers : ReaderSound(g)'
  BY DEF IndInv, ReaderSound, Open
<1>4. FlagsSound' /\ PublishedSound'
  BY DEF IndInv, FlagsSound, PublishedSound, Settled, Window, Open
<1>5. CloseSound'
  BY DEF IndInv, CloseSound, Alive
<1> QED
  BY <1>1, <1>2, <1>3, <1>4, <1>5 DEF IndInv

\* Every step of the code keeps IndInv.
LEMMA NextIndInv ==
  ASSUME OneGuardPerReceiver, LimitsFit, IndInv, [Next]_vars
  PROVE  IndInv'
<1>1. CASE Next
    <2>1. TypeOK'
    BY <1>1, TypeStep DEF IndInv
  <2>2. CursorsInOrder' /\ HeldInWindow' /\ HeldApart'
    BY <1>1, CursorsStep, HeldInWindowStep, HeldApartStep
  <2>3. \A s \in Senders : AttemptSound(s)'
    BY <1>1, AttemptStep
  <2>4. \A g \in Readers : ReaderSound(g)'
    BY <1>1, ReaderSoundStep
  <2>5. FlagsSound' /\ PublishedSound' /\ CloseSound'
    BY <1>1, FlagsSoundStep, PublishedSoundStep, CloseSoundStep
  <2> QED
    BY <2>1, <2>2, <2>3, <2>4, <2>5 DEF IndInv
<1>2. CASE UNCHANGED vars
  BY <1>2, StutterIndInv
<1> QED
  BY <1>1, <1>2

\* The strengthening on which every theorem below rests: the cursors, the
\* claims, the flags and the locals of calls in flight fit together in every
\* reachable state of the channel (pub_mul.rs, consumer.rs, slot_states.rs).
THEOREM Invariant ==
  ASSUME OneGuardPerReceiver, LimitsFit
  PROVE  Spec => []IndInv
<1>1. Init => IndInv
  BY InitIndInv
<1>2. IndInv /\ [Next]_vars => IndInv'
  BY NextIndInv
<1> QED
  BY <1>1, <1>2, PTL DEF Spec

\* With limits that fit i64, a sender asks for at least one slot and a receiver
\* looks at one at least: nothing is rewound, and no call skips its scan.
LEMMA NoWideStep ==
  ASSUME IndInv, LimitsFit
  PROVE  ~WideStep
<1>1. ASSUME NEW s \in Senders, CasRewind(s) PROVE FALSE
  <2>1. att[s].want >= 1 /\ att[s].want < 0
    BY <1>1 DEF IndInv, AttemptSound, CasRewind
  <2>2. att[s].want \in Int
    BY DEF IndInv, TypeOK, AttemptType
  <2> QED
    BY <2>1, <2>2
<1>2. ASSUME NEW s \in Senders, CasWrap(s) PROVE FALSE
  <2>1. att[s].want >= 1 /\ att[s].last >= -1
    BY <1>2 DEF IndInv, AttemptSound, CasWrap
  <2>2. att[s].want \in Int /\ att[s].last \in Int
    BY DEF IndInv, TypeOK, AttemptType
  <2>3. att[s].last + att[s].want < -(I64_MAX + 1)
    BY <1>2 DEF CasWrap
  <2> QED
    BY <2>1, <2>2, <2>3, WidthAssumption
<1>3. ASSUME NEW g \in Readers, NEW k \in Limits, RecvNothing(g, k) PROVE FALSE
  <2>1. CutLimit(k) >= 1
    BY LimitsAssumption, WidthAssumption, CapacityAssumption
    DEF CutLimit, MinOf, AsI64, LimitsFit
  <2>2. CutLimit(k) < 0
    BY <1>3 DEF RecvNothing
  <2>3. CutLimit(k) \in Int
    BY LimitsAssumption, WidthAssumption, CapacityAssumption
    DEF CutLimit, MinOf, AsI64, LimitsFit
  <2> QED
    BY <2>1, <2>2, <2>3
<1> QED
  BY <1>1, <1>2, <1>3 DEF WideStep

\* The casts of sender.rs:85 and receiver.rs:51 do no harm below i64::MAX: what
\* is proved of Spec holds of every caller whose limits fit.
THEOREM FittingLimits ==
  ASSUME OneGuardPerReceiver, LimitsFit
  PROVE  WideSpec => Spec
<1>1. Init => IndInv
  BY InitIndInv
<1>2. IndInv /\ [Next \/ WideStep]_vars => [Next]_vars
  BY NoWideStep
<1>3. IndInv /\ [Next \/ WideStep]_vars => IndInv'
  BY <1>2, NextIndInv
<1> QED
  BY <1>1, <1>2, <1>3, PTL DEF WideSpec, Spec

\* Every index, flag, cursor and local keeps its type: the unchecked slot
\* accesses of ringbuffer.rs and slot_states.rs stay in bounds.
THEOREM TypeCorrect ==
  ASSUME OneGuardPerReceiver, LimitsFit
  PROVE  Spec => []TypeOK
<1>1. IndInv => TypeOK
  BY DEF IndInv
<1> QED
  BY <1>1, Invariant, PTL

\* The safety argument of the unsafe Sync impl of the ring (ringbuffer.rs): a
\* slot that is being written is not being written by another sender, nor
\* read through a guard.
THEOREM ExclusiveSlots ==
  ASSUME OneGuardPerReceiver, LimitsFit
  PROVE  Spec => []NoConcurrentAccess
<1>1. IndInv => NoConcurrentAccess
  <2> SUFFICES ASSUME IndInv, NEW s \in Senders, NEW x \in held[s]
               PROVE  /\ \A t \in Senders \ {s} : \A y \in held[t] : IndexOf(x) # IndexOf(y)
                      /\ \A g \in Readers : \A y \in GuardRange(g) : IndexOf(x) # IndexOf(y)
    BY DEF NoConcurrentAccess
  <2>0. x \in Int /\ \A r \in Receivers : Open(r) => consumed[r] \in Int
    BY Types DEF IndInv
  <2>1. ASSUME NEW t \in Senders \ {s}, NEW y \in held[t], IndexOf(x) = IndexOf(y) PROVE FALSE
    <3>1. x # y /\ x - y < Capacity /\ y - x < Capacity
      BY DEF IndInv, HeldApart
    <3>2. y \in Int
      BY Types DEF IndInv
    <3> QED
      BY <2>0, <2>1, <3>1, <3>2, IndexUnique
  <2>2. ASSUME NEW g \in Readers, NEW y \in GuardRange(g), IndexOf(x) = IndexOf(y) PROVE FALSE
    <3> DEFINE r == rxOf[g]
    <3>1. r \in Receivers /\ ReaderSound(g) /\ rpc[g] = "guard" /\ y \in (rd[g].base + 1) .. rd[g].top
      BY LocalTypes DEF IndInv, GuardRange
    <3>2. /\ Open(r) /\ rd[g].base = consumed[r] /\ rd[g].top <= consumed[r] + Capacity
          /\ flag[IndexOf(y)] = AvailableFlag(y)
      BY <3>1 DEF ReaderSound
    <3>3. rd[g].top \in Int /\ consumed[r] \in Int
      BY <2>0, <3>1, <3>2, Types DEF IndInv, ScanType
    <3>4. y \in Window(r) /\ y \in Int
      BY <3>1, <3>2, <3>3, CapacityAssumption DEF Window
    <3>5. x # y
      BY <3>1, <3>2, <3>4 DEF IndInv, FlagsSound, Settled
    <3>6. x \in Window(r)
      BY <3>1, <3>2 DEF IndInv, HeldInWindow
    <3>7. x - y < Capacity /\ y - x < Capacity
      BY <2>0, <3>3, <3>4, <3>6, CapacityAssumption DEF Window
    <3> QED
      BY <2>0, <2>2, <3>4, <3>5, <3>7, IndexUnique
  <2> QED
    BY <2>1, <2>2
<1> QED
  BY <1>1, Invariant, PTL

\* The bounded-lag argument of slot_states.rs:30-54, for every number of lap
\* flags from two up: inside a live receiver's window a wrapped flag never
\* stands for another lap.
THEOREM LapsToldApart ==
  ASSUME OneGuardPerReceiver, LimitsFit
  PROVE  Spec => []FlagsTellLapsApart
<1>1. IndInv => FlagsTellLapsApart
  <2> SUFFICES ASSUME IndInv, NEW r \in Receivers, Open(r), NEW y \in Window(r)
               PROVE  (flag[IndexOf(y)] = AvailableFlag(y)) <=> (y \in published)
    BY DEF FlagsTellLapsApart, Window
  <2>1. y > consumed[r]
    BY Types DEF IndInv, Window
  <2>2. flag[IndexOf(y)] = AvailableFlag(y) => y \in published
    BY DEF IndInv, FlagsSound, Settled
  <2>3. y \in published => flag[IndexOf(y)] = AvailableFlag(y)
    BY <2>1 DEF IndInv, PublishedSound
  <2> QED
    BY <2>2, <2>3
<1> QED
  BY <1>1, Invariant, PTL

\* has_shutdown never reverts (pub_mul.rs:14), although close() is a plain
\* store of an older value and may be run by two panics at once.
THEOREM ShutdownBitStays ==
  ASSUME OneGuardPerReceiver, LimitsFit
  PROVE  Spec => ShutdownBitIsFinal
<1>1. IndInv /\ [Next]_vars => [claimedDown => claimedDown']_vars
  <2> SUFFICES ASSUME IndInv, Next, claimedDown PROVE claimedDown'
    OBVIOUS
  <2>1. ~\E s \in Senders : CasClaim(s)
    BY DEF CasClaim, CasMatches
  <2>2. (\E s \in Senders : CloseStore(s)) => claimedDown'
    BY CloseStoreEffect
  <2> QED
    BY <2>1, <2>2, StepShapes, HeldShrinks, FinishGuardEffect, DropReceiverEffect
<1> QED
  BY <1>1, Invariant, PTL DEF Spec, ShutdownBitIsFinal

\* A receiver's cursor advances over exactly the published items its guard
\* showed: no item twice, none skipped (guards' drop, consumer.rs commit).
THEOREM ItemsOnceInOrder ==
  ASSUME OneGuardPerReceiver, LimitsFit
  PROVE  Spec => EachItemOnceInOrder
<1> DEFINE Moves ==
      \A r \in Receivers : consumed'[r] \notin {consumed[r], SHUTDOWN_OPEN} =>
        \E g \in Readers :
          /\ rxOf[g] = r /\ rpc[g] = "guard"
          /\ GuardRange(g) # {} /\ GuardRange(g) \subseteq published
          /\ GuardRange(g) = (consumed[r] + 1) .. consumed'[r]
<1>1. IndInv /\ [Next]_vars => [Moves]_vars
  <2> SUFFICES ASSUME IndInv, Next, NEW r \in Receivers,
                      consumed'[r] \notin {consumed[r], SHUTDOWN_OPEN}
               PROVE  \E g \in Readers :
                        /\ rxOf[g] = r /\ rpc[g] = "guard"
                        /\ GuardRange(g) # {} /\ GuardRange(g) \subseteq published
                        /\ GuardRange(g) = (consumed[r] + 1) .. consumed'[r]
    OBVIOUS
  <2>1. ASSUME NEW q \in Receivers, DropReceiver(q) PROVE FALSE
    BY <2>1 DEF DropReceiver, IndInv, TypeOK
  <2>2. PICK g \in Readers : FinishGuard(g)
    <3>1. (\E s \in Senders : CasClaim(s)) \/ (\E s \in Senders : CloseStore(s)) => consumed' = consumed
      BY DEF CasClaim, CloseStore
    <3> QED
      BY <2>1, <3>1, StepShapes, HeldShrinks
  <2>3. r = rxOf[g]
    BY <2>2, FinishGuardEffect DEF IndInv, TypeOK
  <2>4. /\ consumed'[r] = rd[g].top /\ rpc[g] = "guard" /\ rd[g].base = consumed[r]
        /\ consumed[r] \in Int /\ rd[g].top \in Int /\ consumed[r] < rd[g].top
        /\ \A y \in (consumed[r] + 1) .. rd[g].top : Settled(y)
    BY <2>2, <2>3, FinishGuardEffect DEF IndInv, TypeOK
  <2>5. GuardRange(g) = (consumed[r] + 1) .. consumed'[r]
    BY <2>4 DEF GuardRange
  <2>6. GuardRange(g) # {} /\ GuardRange(g) \subseteq published
    BY <2>4, <2>5 DEF Settled
  <2> QED
    BY <2>3, <2>4, <2>5, <2>6
<1> QED
  BY <1>1, Invariant, PTL DEF Spec, EachItemOnceInOrder

\* lib.rs:311-312 and consumer.rs:53-69: Disconnected is never reported while
\* the receiver's next item is published, whatever shutdown came first.
THEOREM DrainsFirst ==
  ASSUME OneGuardPerReceiver, LimitsFit
  PROVE  Spec => DrainedBeforeDisconnected
<1> DEFINE Drained ==
      \A g \in Readers :
        rpc[g] = "scan" /\ rpc'[g] = "idle" /\ rres'[g] = "Disconnected"
          => consumed[rxOf[g]] + 1 \notin published
<1>1. IndInv /\ [Next]_vars => [Drained]_vars
  <2> SUFFICES ASSUME IndInv, Next, NEW g \in Readers,
                      rpc[g] = "scan", rpc'[g] = "idle", rres'[g] = "Disconnected",
                      consumed[rxOf[g]] + 1 \in published
               PROVE  FALSE
    OBVIOUS
  <2> DEFINE r == rxOf[g]
             d == rd[g]
  <2>1. /\ r \in Receivers /\ Open(r) /\ d.base = consumed[r] /\ d.base < d.pos
        /\ d.base \in Int /\ d.pos \in Int /\ rres \in [Readers -> Outcomes]
    BY LocalTypes DEF IndInv, ReaderSound, TypeOK, ScanType
  <2>2. ScanSlot(g)
    BY ScanEnds DEF IndInv
  <2>3. /\ ~SlotReady(d.pos) /\ d.pos - 1 <= d.base
    BY <2>1, <2>2 DEF ScanSlot, ScanOutcome
  <2>4. d.pos = consumed[r] + 1
    BY <2>1, <2>3
  <2>5. flag[IndexOf(consumed[r] + 1)] = AvailableFlag(consumed[r] + 1)
    BY <2>1 DEF IndInv, PublishedSound
  <2> QED
    BY <2>3, <2>4, <2>5 DEF SlotReady
<1> QED
  BY <1>1, Invariant, PTL DEF Spec, DrainedBeforeDisconnected

\* Only a scan changes what a reader was told.
LEMMA AnswersComeFromScans ==
  ASSUME TypeOK, Next, NEW g \in Readers, rres'[g] # rres[g]
  PROVE  ScanSlot(g)
<1>0. rres \in [Readers -> Outcomes]
  BY DEF TypeOK
<1>1. ASSUME NEW s \in Senders, SenderNext(s) PROVE FALSE
  BY <1>1, SendersLeaveReaders DEF readerVars
<1>2. ASSUME NEW h \in Readers, ReaderStep(h) \/ ForgetGuard(h) PROVE ScanSlot(g)
  <2>1. CASE (\E k \in Limits : StartRecv(h, k)) \/ FinishGuard(h) \/ ForgetGuard(h)
    BY <2>1 DEF StartRecv, FinishGuard, ForgetGuard
  <2>2. CASE ScanSlot(h) /\ h # g
    BY <1>0, <2>2 DEF ScanSlot
  <2> QED
    BY <1>2, <2>1, <2>2 DEF ReaderStep
<1>3. ASSUME NEW r \in Receivers, DropReceiver(r) PROVE FALSE
  BY <1>3 DEF DropReceiver, readerVars
<1>4. ~Terminated
  BY DEF Terminated, vars, readerVars
<1> QED
  BY <1>1, <1>2, <1>3, <1>4 DEF Next

\* receiver.rs:233-240: a call answers Empty only while the receiver's next item
\* is not there, as long as its limit fits in an i64 (RecvNothing: else not).
THEOREM EmptyIsEmpty ==
  ASSUME OneGuardPerReceiver, LimitsFit
  PROVE  Spec => EmptyOnlyWhenEmpty
<1> DEFINE Answers ==
      \A g \in Readers :
        rres'[g] = "Empty" /\ (rres[g] # "Empty" \/ (rpc[g] = "scan" /\ rpc'[g] = "idle"))
          => consumed[rxOf[g]] + 1 \notin published
<1>1. IndInv /\ [Next]_vars => [Answers]_vars
  <2> SUFFICES ASSUME IndInv, Next, NEW g \in Readers, rres'[g] = "Empty",
                      rres[g] # "Empty" \/ (rpc[g] = "scan" /\ rpc'[g] = "idle"),
                      consumed[rxOf[g]] + 1 \in published
               PROVE  FALSE
    OBVIOUS
  <2> DEFINE r == rxOf[g]
             d == rd[g]
  <2>1. ScanSlot(g)
    BY ScanEnds, AnswersComeFromScans DEF IndInv
  <2>2. /\ r \in Receivers /\ Open(r) /\ d.base = consumed[r] /\ d.base < d.pos
        /\ d.base \in Int /\ d.pos \in Int /\ rres \in [Readers -> Outcomes]
        /\ rpc[g] = "scan" /\ rpc \in [Readers -> {"idle", "scan", "guard"}]
    BY <2>1, LocalTypes DEF IndInv, ReaderSound, TypeOK, ScanType, ScanSlot
  <2>3. ~(SlotReady(d.pos) /\ d.pos < d.top)
    BY <2>1, <2>2 DEF ScanSlot
  <2>4. ~SlotReady(d.pos) /\ d.pos - 1 <= d.base
    BY <2>1, <2>2, <2>3 DEF ScanSlot, ScanOutcome
  <2>5. d.pos = consumed[r] + 1
    BY <2>2, <2>4
  <2>6. flag[IndexOf(consumed[r] + 1)] = AvailableFlag(consumed[r] + 1)
    BY <2>2 DEF IndInv, PublishedSound
  <2> QED
    BY <2>4, <2>5, <2>6 DEF SlotReady
<1> QED
  BY <1>1, Invariant, PTL DEF Spec, EmptyOnlyWhenEmpty

\* max_consumed starts its minimum afresh, above every sequence.
GateFresh == \A s \in Senders : pc[s] = "gate" /\ att[s].gi = 0 => att[s].gmin = SHUTDOWN_OPEN

LEMMA GateFreshStep ==
  ASSUME IndInv, LimitsFit, GateFresh, Next
  PROVE  GateFresh'
<1> SUFFICES ASSUME NEW u \in Senders, pc'[u] = "gate", att'[u].gi = 0
             PROVE  att'[u].gmin = SHUTDOWN_OPEN
  BY DEF GateFresh
<1>1. ~LoadConsumed(u)
  BY LocalTypes DEF LoadConsumed, GiveUp, IndInv, TypeOK, AttemptType, Receivers
<1> QED
  BY <1>1, AttemptShapes DEF GateFresh, IndInv

LEMMA GateEnds ==
  ASSUME TypeOK, Next, NEW s \in Senders, pc[s] = "gate", pc'[s] = "idle"
  PROVE  LoadConsumed(s)
<1> USE DEF TypeOK
<1>1. ASSUME NEW t \in Senders, SenderStep(t) PROVE LoadConsumed(s)
  <2>1. CASE LoadConsumed(t)
    BY <2>1 DEF LoadConsumed, GiveUp
  <2>2. CASE CasClaim(t) \/ CasRetry(t)
    BY <2>2 DEF CasClaim, CasRetry, GiveUp
  <2>3. CASE FillSlot(t) \/ \E x \in held[t] : PublishSlot(t, x)
    BY <2>3 DEF FillSlot, PublishSlot
  <2>4. CASE CloseLoad(t) \/ CloseScan(t) \/ CloseMark(t) \/ CloseStore(t)
    BY <2>4 DEF CloseLoad, CloseScan, CloseMark, CloseStore
  <2> QED
    BY <1>1, <2>1, <2>2, <2>3, <2>4 DEF SenderStep
<1>2. ASSUME NEW t \in Senders, SenderNext(t), ~SenderStep(t) PROVE FALSE
  <2>1. CASE \E o \in Ops, k \in Limits : StartClaim(t, o, k)
    BY <2>1 DEF StartClaim
  <2>2. CASE CommitPanic(t) \/ SlotPermitPanic(t) \/ ForgetSlotPermit(t) \/ Abandon(t) \/ DropSender(t)
    BY <2>2 DEF CommitPanic, SlotPermitPanic, ForgetSlotPermit, Abandon, DropSender
  <2>3. CASE \E u \in Senders : CloneSender(t, u)
    BY <2>3 DEF CloneSender
  <2> QED
    BY <1>2, <2>1, <2>2, <2>3 DEF SenderNext
<1>3. ASSUME NEW g \in Readers, ReaderStep(g) \/ ForgetGuard(g) PROVE FALSE
  BY <1>3 DEF ReaderStep, StartRecv, ScanSlot, FinishGuard, ForgetGuard, senderVars
<1>4. ASSUME NEW r \in Receivers, DropReceiver(r) PROVE FALSE
  BY <1>4 DEF DropReceiver, senderVars
<1>5. ~Terminated
  BY DEF Terminated, vars, senderVars
<1> QED
  BY <1>1, <1>2, <1>3, <1>4, <1>5 DEF Next

\* Backpressure is exact with one receiver (pub_mul.rs:129-148, con_ex.rs): a call
\* is refused as Full only while the receiver is a whole ring behind.
THEOREM FullIsFull ==
  ASSUME OneGuardPerReceiver, LimitsFit, NumReceivers = 1
  PROVE  Spec => FullOnlyWhenFull
<1> DEFINE Refused ==
      \A s \in Senders :
        pc[s] = "gate" /\ pc'[s] = "idle" /\ (\E r \in Receivers : Open(r)) /\ ~claimedDown
          => \E r \in Receivers : Open(r) /\ claimed - consumed[r] >= Capacity
<1>1. Init => GateFresh
  BY DEF Init, GateFresh
<1>2. IndInv /\ GateFresh /\ [Next]_vars => GateFresh'
  <2>1. IndInv /\ GateFresh /\ Next => GateFresh'
    BY GateFreshStep
  <2>2. GateFresh /\ UNCHANGED vars => GateFresh'
    BY DEF GateFresh, vars, senderVars
  <2> QED
    BY <2>1, <2>2
<1>3. IndInv /\ GateFresh /\ [Next]_vars => [Refused]_vars
  <2> SUFFICES ASSUME IndInv, GateFresh, Next, NEW s \in Senders,
                      pc[s] = "gate", pc'[s] = "idle",
                      NEW q \in Receivers, Open(q), ~claimedDown
               PROVE  \E r \in Receivers : Open(r) /\ claimed - consumed[r] >= Capacity
    OBVIOUS
  <2>1. Receivers = {0} /\ q = 0
    BY DEF Receivers
  <2>2. LoadConsumed(s)
    BY GateEnds DEF IndInv
  <2>3. /\ att[s] \in AttemptType /\ att[s].gi = 0 /\ att[s].gmin = SHUTDOWN_OPEN
        /\ att[s].last \in Int /\ att[s].last <= claimed
        /\ claimed \in Int /\ consumed[0] \in Int /\ consumed[0] # SHUTDOWN_OPEN
    BY <2>1, Types DEF IndInv, AttemptSound, AttemptType, GateFresh, Open
  <2>4. ~HasRoom(att[s].last, consumed[0])
    BY <2>2, <2>3 DEF LoadConsumed, MinSeq, IndInv, TypeOK
  <2>5. claimed - consumed[0] >= Capacity
    BY <2>3, <2>4, CapacityAssumption DEF HasRoom, AvailableSlots
  <2> QED
    BY <2>1, <2>5
<1> QED
  BY <1>1, <1>2, <1>3, Invariant, PTL DEF Spec, FullOnlyWhenFull
===============================================================================
