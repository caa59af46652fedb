--------------------------- MODULE SlotFencesProofs ----------------------------
(***************************************************************************)
(* The memory orderings of the hot path and of the last close, for any     *)
(* number of senders and receivers, any capacity and any number of laps:   *)
(* IndInv of SlotFences is inductive, implies the properties that the runs *)
(* check on small instances, and makes each step one of FanoutLog.         *)
(*                                                                         *)
(* SlotFencesSenders keeps the first conjuncts of IndInv; here are those   *)
(* about receivers and about the close, then the initial state, the        *)
(* theorems on invariants, and the refinement.                             *)
(***************************************************************************)
EXTENDS SlotFencesSenders, FiniteSetTheorems

USE DEF Last, Newest, Cursor, Holds

-------------------------------------------------------------------------------
(* Every step keeps what the invariant says of receivers and of the close. *)

\* A cursor is committed, or it stays where it is.
LEMMA CommitOrStay ==
  ASSUME TypeOK, IndInv, [Next]_vars, NEW q \in Receivers
  PROVE  \/ FinishGuard(q) \/ DropReceiver(q)
         \/ /\ hist'[Consumed(q)] = hist[Consumed(q)]
            /\ rpc'[q] = "dropped" <=> rpc[q] = "dropped"
<1>1. Consumed(q) \in Locations /\ \A r \in Receivers : Consumed(q) = Consumed(r) => q = r
  BY DEF Locations, Consumed
<1>2. ASSUME NEW s \in Senders, SenderStep(s)
      PROVE  hist'[Consumed(q)] = hist[Consumed(q)] /\ rpc'[q] = rpc[q]
  <2>1. rpc' = rpc
    BY <1>2, SenderLocals
  <2>2. hist'[Consumed(q)] = hist[Consumed(q)]
    BY <1>1, <1>2, SenderHist DEF Claimed, Refs, Written, State, Consumed
  <2> QED
    BY <2>1, <2>2
<1>3. ASSUME NEW r \in Receivers, ReceiverStep(r), ~FinishGuard(q), ~DropReceiver(q)
      PROVE  /\ hist'[Consumed(q)] = hist[Consumed(q)]
             /\ rpc'[q] = "dropped" <=> rpc[q] = "dropped"
  <2>1. hist'[Consumed(q)] = hist[Consumed(q)]
    <3>1. \A i : Consumed(q) # ReadBy(i, r)
      BY DEF Consumed, ReadBy
    <3> QED
      BY <1>1, <1>3, <3>1, ReceiverHist
  <2>2. rpc'[q] = "dropped" <=> rpc[q] = "dropped"
    <3>1. CASE q # r
      BY <1>3, <3>1, ReceiverLocals
    <3>2. CASE q = r
      <4>1. rpc \in [Receivers -> {"idle", "scan", "guard", "dropped"}]
        BY DEF TypeOK, LocalsOK
      <4> QED
        BY <1>3, <3>2, <4>1 DEF ReceiverStep, StartRecv, ScanSlot, ReadItem
    <3> QED
      BY <3>1, <3>2
  <2> QED
    BY <2>1, <2>2
<1>4. CASE UNCHANGED vars
  BY <1>4 DEF vars, memVars, readerVars
<1> QED
  BY <1>2, <1>3, <1>4 DEF Next, Terminated

\* A receiver's cursor is within a ring of the claims, and it knows of all behind it.
LEMMA CursorPlace ==
  ASSUME TypeOK, IndInv, [Next]_vars, NEW q \in Receivers, NEW d, d = Cursor(q)'
  PROVE  /\ rpc'[q] = "dropped" => d = SHUTDOWN_OPEN
         /\ rpc'[q] # "dropped" => /\ d \in -1 .. Highest' /\ Highest' <= d + Capacity
                                   /\ Covers(cur'[q], d)
<1>0. /\ MemoryOK /\ MemoryOK' /\ Grows /\ q \in Threads /\ Highest \in Int /\ Highest' \in Int
      /\ Highest <= Highest' /\ Cursor(q) \in Int /\ Capacity \in Nat
  BY MemoryKept, HighestGrows, CursorGrows, CapacityAssumption DEF TypeOK, Threads, IndInv
<1>1. cur[q] \in Views /\ cur'[q] \in Views /\ \A l \in Locations : cur[q][l] <= cur'[q][l]
  BY <1>0 DEF MemoryOK, Grows
<1>2. CASE /\ hist'[Consumed(q)] = hist[Consumed(q)]
           /\ rpc'[q] = "dropped" <=> rpc[q] = "dropped"
  <2>1. d = Cursor(q)
    BY <1>2
  <2>2. CASE rpc[q] = "dropped"
    BY <1>2, <2>1, <2>2 DEF IndInv, CursorSound
  <2>3. CASE rpc[q] # "dropped"
    <3>1. d \in -1 .. Highest /\ Highest <= d + Capacity /\ Covers(cur[q], d)
      BY <2>1, <2>3 DEF IndInv, CursorSound
    <3>2. Highest' <= d + Capacity
      <4>1. CASE Highest' = Highest
        BY <3>1, <4>1
      <4>2. CASE \E s \in Senders : CasClaim(s)
        <5>1. PICK s \in Senders : CasClaim(s)
          BY <4>2
        <5>2. PICK g : g = att[s].gmin
          OBVIOUS
        <5>3. g \in -1 .. Highest /\ Highest' <= g + Capacity /\ g <= Cursor(q)
          BY <5>1, <5>2, ClaimFacts
        <5> QED
          BY <1>0, <2>1, <5>3
      <4> QED
        BY <4>1, <4>2, HighestGrows
    <3>3. Covers(cur'[q], d)
      BY <1>0, <1>1, <2>1, <3>1, CoversLess
    <3> QED
      BY <1>0, <1>2, <2>3, <3>1, <3>2, <3>3
  <2> QED
    BY <2>2, <2>3
<1>3. CASE FinishGuard(q) \/ DropReceiver(q)
  <2>1. PICK c : c = IF rpc[q] = "guard" THEN rd[q].top ELSE SHUTDOWN_OPEN
    OBVIOUS
  <2>2. d = c /\ c \in Int
    BY <1>3, <2>1, CommitFacts
  <2>3. CASE FinishGuard(q)
    <3>1. rpc'[q] = "idle" /\ c \in -1 .. Highest /\ Highest <= c + Capacity /\ Covers(cur[q], c)
      BY <2>1, <2>3, CommitFacts
    <3>2. Highest' = Highest
      <4>1. ReceiverStep(q) /\ Claimed \in Locations
        BY <2>3 DEF ReceiverStep, Locations
      <4>2. hist'[Claimed] = hist[Claimed]
        BY <4>1, ReceiverHist DEF Claimed, ReadBy, Consumed
      <4> QED
        BY <4>2 DEF Highest
    <3>3. Covers(cur'[q], d)
      BY <1>1, <2>2, <3>1, CoversLess
    <3> QED
      BY <2>2, <3>1, <3>2, <3>3
  <2>4. CASE DropReceiver(q)
    BY <2>1, <2>2, <2>4, CommitFacts
  <2> QED
    BY <1>3, <2>3, <2>4
<1> QED
  BY <1>2, <1>3, CommitOrStay

\* What a cursor's messages stand for, they hand on (consumer.rs:71-79: the commit is
\* a release store).
LEMMA CursorMessages ==
  ASSUME TypeOK, IndInv, [Next]_vars, NEW q \in Receivers, NEW k \in 1 .. Len(hist'[Consumed(q)]),
         NEW view, view = hist'[Consumed(q)][k].view, NEW val, val = hist'[Consumed(q)][k].val
  PROVE  /\ KnowsReads(hist', view, q, val) /\ val <= Cursor(q)'
         /\ val = SHUTDOWN_OPEN => rpc'[q] = "dropped"
         /\ val # SHUTDOWN_OPEN =>
              /\ val \in -1 .. Highest' /\ Covers(view, val)
              /\ \A u \in Senders : \A x \in Held(own'[u], pc'[u]) : val < x
<1>0. /\ MemoryOK /\ MemoryOK' /\ Grows /\ q \in Threads /\ Consumed(q) \in Locations
      /\ Cursor(q) \in Int /\ Cursor(q)' \in Int /\ Cursor(q) <= Cursor(q)'
      /\ Last(Consumed(q)) \in Nat /\ Highest \in Int
  <2>1. MemoryOK /\ MemoryOK' /\ Grows /\ q \in Threads /\ Consumed(q) \in Locations
    BY MemoryKept DEF TypeOK, Threads, IndInv, Locations
  <2>2. Last(Consumed(q)) \in Nat
    BY <2>1, MemoryTypes
  <2> QED
    BY <2>1, <2>2, CursorGrows, HighestIsBound
<1>1. ASSUME k \in 1 .. Last(Consumed(q))
      PROVE  /\ KnowsReads(hist', view, q, val) /\ val <= Cursor(q)'
             /\ val = SHUTDOWN_OPEN => rpc[q] = "dropped"
             /\ val # SHUTDOWN_OPEN =>
                  /\ val \in -1 .. Highest' /\ Covers(view, val)
                  /\ \A u \in Senders : \A x \in Held(own'[u], pc'[u]) : val < x
  <2>1. hist'[Consumed(q)][k] = hist[Consumed(q)][k]
    BY <1>0, <1>1 DEF Grows
  <2>2. /\ KnowsReads(hist, view, q, val) /\ val <= Cursor(q)
        /\ val = SHUTDOWN_OPEN => rpc[q] = "dropped"
        /\ val # SHUTDOWN_OPEN => CursorKnown(view, val)
    BY <1>1, <2>1 DEF IndInv, CursorSound
  <2>3. view \in Views /\ val \in Int /\ \A l \in Locations : view[l] <= view[l]
    <3>1. view \in Views
      BY <1>0, <1>1, <2>1, MemoryTypes
    <3>2. val \in Int
      BY <1>0, <1>1, <2>1, WordTypes
    <3>3. \A l \in Locations : view[l] \in Nat
      BY <3>1 DEF Views
    <3> QED
      BY <3>1, <3>2, <3>3
  <2>4. KnowsReads(hist', view, q, val)
    BY <2>2, <2>3, ReadsStayKnown
  <2>5. val # SHUTDOWN_OPEN =>
          /\ val \in -1 .. Highest' /\ Covers(view, val)
          /\ \A u \in Senders : \A x \in Held(own'[u], pc'[u]) : val < x
    BY <2>2, <2>3, CursorStaysKnown
  <2> QED
    BY <1>0, <2>2, <2>3, <2>4, <2>5
<1>2. CASE /\ hist'[Consumed(q)] = hist[Consumed(q)]
           /\ rpc'[q] = "dropped" <=> rpc[q] = "dropped"
  BY <1>1, <1>2
<1>3. CASE FinishGuard(q) \/ DropReceiver(q)
  <2>1. PICK c : c = IF rpc[q] = "guard" THEN rd[q].top ELSE SHUTDOWN_OPEN
    OBVIOUS
  <2>2. /\ c \in Int /\ Cursor(q) \in Int /\ Cursor(q) < c
        /\ Last(Consumed(q))' = Last(Consumed(q)) + 1
        /\ hist'[Consumed(q)][Last(Consumed(q)) + 1].val = c /\ Cursor(q)' = c
        /\ hist'[Consumed(q)][Last(Consumed(q)) + 1].view
             = [cur[q] EXCEPT ![Consumed(q)] = Last(Consumed(q)) + 1]
    BY <1>3, <2>1, CommitFacts
  <2>3. /\ FinishGuard(q) => /\ rpc[q] = "guard" /\ rpc'[q] = "idle" /\ c \in -1 .. Highest
                             /\ Covers(cur[q], c)
        /\ DropReceiver(q) => rpc[q] = "idle" /\ rpc'[q] = "dropped" /\ c = SHUTDOWN_OPEN
    BY <1>3, <2>1, CommitFacts
  <2>4. ReceiverStep(q)
    BY <1>3 DEF ReceiverStep
  <2>5. CASE k \in 1 .. Last(Consumed(q))
    <3>1. rpc[q] # "dropped"
      BY <1>3, <2>3
    <3> QED
      BY <1>1, <2>5, <3>1
  <2>6. CASE k = Last(Consumed(q)) + 1
    <3>1. val = c /\ view = [cur[q] EXCEPT ![Consumed(q)] = k]
      BY <2>2, <2>6
    <3>2. /\ cur[q] \in Views /\ view \in Views /\ \A l \in Locations : cur[q][l] <= view[l]
      <4>1. cur[q] \in Views /\ \A l \in Locations : cur[q][l] \in 1 .. Last(l)
        BY <1>0, MemoryTypes
      <4>2. cur[q][Consumed(q)] <= k /\ k \in Nat \ {0}
        BY <1>0, <2>6, <4>1
      <4>3. view \in Views
        BY <3>1, <4>1, <4>2 DEF Views
      <4>4. \A l \in Locations : view[l] = IF l = Consumed(q) THEN k ELSE cur[q][l]
        BY <3>1, <4>1 DEF Views
      <4> QED
        BY <4>1, <4>2, <4>3, <4>4
    <3>3. KnowsReads(hist', view, q, val)
      <4>1. ASSUME NEW i \in Slots, NEW j \in 1 .. Len(hist'[ReadBy(i, q)])
            PROVE  j <= view[ReadBy(i, q)]
        <5>1. ReadBy(i, q) \in Locations /\ ReadBy(i, q) # Consumed(q)
          BY DEF Locations, ReadBy, Consumed
        <5>2. ~ReadItem(q)
          BY <1>3 DEF FinishGuard, DropReceiver, ReadItem, TypeOK, LocalsOK
        <5>3. hist'[ReadBy(i, q)] = hist[ReadBy(i, q)]
          BY <2>4, <5>1, <5>2, ReceiverHist
        <5>4. cur[q][ReadBy(i, q)] = Last(ReadBy(i, q))
          BY DEF IndInv, ReadsSound, Knows
        <5>5. view[ReadBy(i, q)] = cur[q][ReadBy(i, q)]
          BY <3>1, <3>2, <5>1 DEF Views
        <5>6. Last(ReadBy(i, q)) \in Nat
          BY <1>0, <5>1, MemoryTypes
        <5> QED
          BY <5>3, <5>4, <5>5, <5>6
      <4> QED
        BY <4>1 DEF KnowsReads
    <3>4. ASSUME val # SHUTDOWN_OPEN
          PROVE  /\ val \in -1 .. Highest' /\ Covers(view, val)
                 /\ \A u \in Senders : \A x \in Held(own'[u], pc'[u]) : val < x
      <4>1. FinishGuard(q) /\ c \in -1 .. Highest /\ Covers(cur[q], c)
        BY <1>3, <2>3, <3>1, <3>4
      <4>2. Highest' = Highest
        <5>1. hist'[Claimed] = hist[Claimed]
          BY <2>4, ReceiverHist DEF Claimed, ReadBy, Consumed, Locations
        <5> QED
          BY <5>1 DEF Highest
      <4>3. Covers(view, val)
        <5>1. Covers(view, c)
          <6>1. c <= c
            BY <2>2
          <6> QED
            BY <2>2, <3>2, <4>1, <6>1, CoversLess
        <5> QED
          BY <3>1, <5>1
      <4>4. pc' = pc /\ own' = own
        BY <2>4, ReceiverLocals
      <4>5. \A u \in Senders : \A x \in Held(own'[u], pc'[u]) : val < x
        BY <1>0, <2>2, <3>1, <4>1, <4>4, HeldIsBeyond
      <4> QED
        BY <3>1, <4>1, <4>2, <4>3, <4>5
    <3>5. val = SHUTDOWN_OPEN => rpc'[q] = "dropped"
      <4>1. ASSUME FinishGuard(q) PROVE val # SHUTDOWN_OPEN
        <5>1. c \in -1 .. Highest /\ Highest < SHUTDOWN_OPEN
          BY <2>3, <4>1 DEF IndInv, ClaimsSound
        <5> QED
          BY <1>0, <3>1, <5>1, OpenAssumption
      <4> QED
        BY <1>3, <2>3, <4>1
    <3> QED
      BY <1>0, <2>2, <3>1, <3>3, <3>4, <3>5
  <2> QED
    BY <1>0, <2>2, <2>5, <2>6
<1> QED
  BY <1>2, <1>3, CommitOrStay

\* The cursors.
LEMMA CursorKept ==
  ASSUME TypeOK, IndInv, [Next]_vars
  PROVE  CursorSound'
<1>1. ASSUME NEW q \in Receivers
      PROVE  /\ rpc'[q] = "dropped" => Cursor(q)' = SHUTDOWN_OPEN
             /\ rpc'[q] # "dropped" => /\ Cursor(q)' \in -1 .. Highest' /\ Highest' <= Cursor(q)' + Capacity
                                       /\ Covers(cur'[q], Cursor(q)')
  BY CursorPlace
<1>2. ASSUME NEW q \in Receivers, NEW k \in 1 .. Len(hist'[Consumed(q)])
      PROVE  /\ KnowsReads(hist', hist'[Consumed(q)][k].view, q, hist'[Consumed(q)][k].val)
             /\ hist'[Consumed(q)][k].val <= Cursor(q)'
             /\ hist'[Consumed(q)][k].val = SHUTDOWN_OPEN => rpc'[q] = "dropped"
             /\ hist'[Consumed(q)][k].val # SHUTDOWN_OPEN =>
                  /\ hist'[Consumed(q)][k].val \in -1 .. Highest'
                  /\ Covers(hist'[Consumed(q)][k].view, hist'[Consumed(q)][k].val)
                  /\ \A u \in Senders : \A x \in Held(own'[u], pc'[u]) : hist'[Consumed(q)][k].val < x
  BY CursorMessages
<1> QED
  BY <1>1, <1>2 DEF CursorSound, CursorKnown

\* A guard is held, and moves on, until it is dropped.
LEMMA GuardStep ==
  ASSUME TypeOK, IndInv, [Next]_vars, NEW q \in Receivers, rpc[q] = "guard"
  PROVE  /\ told'[q] = told[q]
         /\ \/ rpc'[q] = "idle" /\ Cursor(q)' = rd[q].top
            \/ /\ rpc'[q] = "guard" /\ rd[q].pos <= rd[q].top
               /\ rd'[q] = [base |-> rd[q].base, top |-> rd[q].top, pos |-> rd[q].pos + 1, sd |-> rd[q].sd]
            \/ rpc'[q] = "guard" /\ rd'[q] = rd[q]
<1>1. ASSUME NEW s \in Senders, SenderStep(s)
      PROVE  rpc'[q] = "guard" /\ rd'[q] = rd[q] /\ told'[q] = told[q]
  BY <1>1, SenderLocals
<1>2. ASSUME NEW r \in Receivers, ReceiverStep(r), r # q
      PROVE  rpc'[q] = "guard" /\ rd'[q] = rd[q] /\ told'[q] = told[q]
  BY <1>2, ReceiverLocals
<1>3. ASSUME NEW r \in Receivers, ReceiverStep(r), r = q
      PROVE  /\ told' = told
             /\ \/ rpc'[r] = "idle" /\ Cursor(r)' = rd[r].top
                \/ /\ rpc'[r] = "guard" /\ rd[r].pos <= rd[r].top
                   /\ rd'[r] = [base |-> rd[r].base, top |-> rd[r].top, pos |-> rd[r].pos + 1, sd |-> rd[r].sd]
  <2>1. /\ \A n \in Limits : ~StartRecv(r, n)
        /\ ~ScanSlot(r) /\ ~DropReceiver(r)
    BY <1>3 DEF StartRecv, ScanSlot, DropReceiver
  <2>2. ReadItem(r) \/ FinishGuard(r)
    BY <1>3, <2>1 DEF ReceiverStep
  <2>3. CASE ReadItem(r)
    <3>1. PICK y, l : y = rd[r].pos /\ l = ReadBy(IndexOf(y), r)
      OBVIOUS
    <3>2. /\ rpc[r] = "guard" /\ rpc' = rpc /\ y <= rd[r].top
          /\ rd'[r] = [base |-> rd[r].base, top |-> rd[r].top, pos |-> y + 1, sd |-> rd[r].sd]
      BY <2>3, <3>1, ReadFacts
    <3>3. told' = told
      BY <2>3 DEF ReadItem
    <3> QED
      BY <3>1, <3>2, <3>3
  <2>4. CASE FinishGuard(r)
    <3>1. PICK c : c = IF rpc[r] = "guard" THEN rd[r].top ELSE SHUTDOWN_OPEN
      OBVIOUS
    <3>2. Cursor(r)' = c /\ rpc'[r] = "idle"
      <4>1. FinishGuard(r) \/ DropReceiver(r)
        BY <2>4
      <4>2. Cursor(r)' = c
        BY <3>1, <4>1, CommitFacts
      <4>3. FinishGuard(r) => rpc'[r] = "idle"
        BY <3>1, <4>1, CommitFacts
      <4> QED
        BY <2>4, <4>2, <4>3
    <3>3. told' = told
      BY <2>4 DEF FinishGuard
    <3> QED
      BY <1>3, <3>1, <3>2, <3>3
  <2> QED
    BY <2>2, <2>3, <2>4
<1>4. CASE UNCHANGED vars
  BY <1>4 DEF vars, readerVars
<1>5. CASE \E s \in Senders : SenderStep(s)
  BY <1>1, <1>5
<1>6. CASE \E r \in Receivers : ReceiverStep(r)
  <2>1. PICK r \in Receivers : ReceiverStep(r)
    BY <1>6
  <2> QED
    BY <1>2, <1>3, <2>1
<1> QED
  BY <1>4, <1>5, <1>6 DEF Next, Terminated

\* A dropped receiver takes no step.
LEMMA DroppedStays ==
  ASSUME TypeOK, IndInv, [Next]_vars, NEW q \in Receivers, rpc[q] = "dropped"
  PROVE  rpc'[q] = "dropped"
<1>1. ~FinishGuard(q) /\ ~DropReceiver(q)
  BY DEF FinishGuard, DropReceiver
<1> QED
  BY <1>1, CommitOrStay

\* What was read stays behind the cursor or in the guard.
LEMMA ReadPlace ==
  ASSUME TypeOK, IndInv, [Next]_vars, NEW q \in Receivers, NEW i \in Slots,
         NEW j \in 2 .. Last(ReadBy(i, q)), NEW y, y = hist[ReadBy(i, q)][j].val
  PROVE  /\ IndexOf(y) = i /\ y \in 0 .. Highest'
         /\ rpc'[q] # "dropped" => y <= Cursor(q)' \/ (rpc'[q] = "guard" /\ y < rd'[q].pos)
<1>1. /\ IndexOf(y) = i /\ y \in 0 .. Highest /\ y \in Int
      /\ rpc[q] # "dropped" => y <= Cursor(q) \/ (rpc[q] = "guard" /\ y < rd[q].pos)
  <2>1. /\ IndexOf(y) = i /\ y \in 0 .. Highest
        /\ rpc[q] # "dropped" => y <= Cursor(q) \/ (rpc[q] = "guard" /\ y < rd[q].pos)
    BY DEF IndInv, ReadsSound
  <2> QED
    BY <2>1, HighestIsBound
<1>2. /\ Highest \in Int /\ Highest' \in Int /\ Highest <= Highest' /\ Cursor(q) \in Int
      /\ Cursor(q)' \in Int /\ Cursor(q) <= Cursor(q)'
  BY HighestGrows, CursorGrows
<1>3. rpc'[q] # "dropped" => rpc[q] # "dropped"
  BY DroppedStays
<1>4. ASSUME rpc[q] = "guard", y < rd[q].pos
      PROVE  y <= Cursor(q)' \/ (rpc'[q] = "guard" /\ y < rd'[q].pos)
  <2>1. rd[q].pos \in Int /\ rd[q].top \in Int
    BY DEF TypeOK, LocalsOK
  <2>2. CASE rpc'[q] = "idle" /\ Cursor(q)' = rd[q].top
    <3>1. rd[q].pos <= rd[q].top + 1
      BY <1>4 DEF IndInv, ReaderSound
    <3> QED
      BY <1>1, <1>4, <2>1, <2>2, <3>1
  <2>3. CASE rd'[q] = [base |-> rd[q].base, top |-> rd[q].top, pos |-> rd[q].pos + 1, sd |-> rd[q].sd]
             /\ rpc'[q] = "guard"
    <3>1. rd'[q].pos = rd[q].pos + 1
      BY <2>3
    <3> QED
      BY <1>1, <1>4, <2>1, <2>3, <3>1
  <2>4. CASE rpc'[q] = "guard" /\ rd'[q] = rd[q]
    BY <1>4, <2>4
  <2> QED
    BY <1>4, <2>2, <2>3, <2>4, GuardStep
<1>5. y \in 0 .. Highest'
  BY <1>1, <1>2
<1>6. y <= Cursor(q) => y <= Cursor(q)'
  <2>1. PICK c, d : c = Cursor(q) /\ d = Cursor(q)' /\ c \in Int /\ d \in Int /\ c <= d
    BY <1>2
  <2>2. y <= c => y <= d
    BY <1>1, <2>1
  <2> QED
    BY <2>1, <2>2
<1> HIDE DEF Cursor
<1> QED
  BY <1>1, <1>3, <1>4, <1>5, <1>6

\* The reads of the slots.
LEMMA ReadsKept ==
  ASSUME TypeOK, IndInv, [Next]_vars
  PROVE  ReadsSound'
<1>0. MemoryOK /\ MemoryOK' /\ Grows
  BY MemoryKept DEF TypeOK, IndInv
<1>1. ASSUME NEW q \in Receivers, NEW i \in Slots
      PROVE  /\ cur'[q][ReadBy(i, q)] = Len(hist'[ReadBy(i, q)])
             /\ \A j \in 2 .. Len(hist'[ReadBy(i, q)]) :
                  /\ IndexOf(hist'[ReadBy(i, q)][j].val) = i
                  /\ hist'[ReadBy(i, q)][j].val \in 0 .. Highest'
                  /\ rpc'[q] # "dropped" =>
                       \/ hist'[ReadBy(i, q)][j].val <= Cursor(q)'
                       \/ rpc'[q] = "guard" /\ hist'[ReadBy(i, q)][j].val < rd'[q].pos
  <2>0. /\ ReadBy(i, q) \in Locations /\ Last(ReadBy(i, q)) \in Nat /\ q \in Threads
        /\ Knows(q, ReadBy(i, q))
    <3>1. ReadBy(i, q) \in Locations /\ q \in Threads
      BY DEF Locations, Threads
    <3> QED
      BY <1>0, <3>1, MemoryTypes DEF IndInv, ReadsSound
  <2>1. CASE hist'[ReadBy(i, q)] = hist[ReadBy(i, q)]
    <3>1. cur'[q][ReadBy(i, q)] = Len(hist'[ReadBy(i, q)])
      BY <1>0, <2>0, <2>1, NewestStaysKnown
    <3> QED
      BY <2>1, <3>1, ReadPlace
  <2>2. CASE hist'[ReadBy(i, q)] # hist[ReadBy(i, q)]
    <3>1. ~UNCHANGED vars
      BY <2>2 DEF vars, memVars
    <3>2. ASSUME NEW s \in Senders, SenderStep(s) PROVE FALSE
      BY <2>0, <2>2, <3>2, SenderHist DEF Claimed, Refs, Written, State, ReadBy
    <3>3. PICK r \in Receivers : ReceiverStep(r)
      BY <3>1, <3>2 DEF Next, Terminated
    <3>4. ReadBy(i, q) = ReadBy(IndexOf(rd[r].pos), r) /\ ReadItem(r)
      BY <2>0, <2>2, <3>3, ReceiverHist DEF ReadBy, Consumed
    <3>5. PICK y, l : y = rd[r].pos /\ l = ReadBy(IndexOf(y), r)
      OBVIOUS
    <3>6. q = r /\ IndexOf(y) = i /\ l = ReadBy(i, q)
      BY <3>4, <3>5 DEF ReadBy
    <3>7. /\ y \in Int /\ rpc[r] = "guard" /\ rpc' = rpc /\ Cursor(r) < y /\ y <= rd[r].top
          /\ rd[r].top <= Highest /\ rd[r].top \in Int /\ Cursor(r) \in -1 .. Highest
          /\ cur'[r][l] = Last(l) + 1
          /\ rd'[r] = [base |-> rd[r].base, top |-> rd[r].top, pos |-> y + 1, sd |-> rd[r].sd]
      BY <3>4, <3>5, ReadFacts
    <3>8. \E w \in Views : Appends(hist, hist', l, y, w)
      BY <3>4, <3>5, ReadFacts
    <3>9. /\ Len(hist'[l]) = Last(l) + 1 /\ \A k \in 1 .. Last(l) : hist'[l][k] = hist[l][k]
          /\ hist'[l][Last(l) + 1].val = y
      BY <3>8 DEF Appends
    <3>10. Highest' = Highest /\ Highest \in Int
      <4>1. hist'[Claimed] = hist[Claimed]
        BY <3>3, ReceiverHist DEF Claimed, ReadBy, Consumed, Locations
      <4> QED
        BY <4>1, HighestIsBound DEF Highest
    <3>11. rpc'[q] = "guard" /\ rd'[q].pos = y + 1 /\ y < rd'[q].pos /\ y \in 0 .. Highest'
      BY <3>6, <3>7, <3>10
    <3>12. ASSUME NEW j \in 2 .. Len(hist'[l])
           PROVE  /\ IndexOf(hist'[l][j].val) = i /\ hist'[l][j].val \in 0 .. Highest'
                  /\ rpc'[q] # "dropped" =>
                       \/ hist'[l][j].val <= Cursor(q)'
                       \/ rpc'[q] = "guard" /\ hist'[l][j].val < rd'[q].pos
      <4>1. CASE j = Last(l) + 1
        BY <3>6, <3>9, <3>11, <4>1
      <4>2. CASE j # Last(l) + 1
        <5>1. j \in 2 .. Last(ReadBy(i, q)) /\ hist'[l][j] = hist[ReadBy(i, q)][j]
          BY <2>0, <3>6, <3>9, <4>2
        <5>2. PICK z : z = hist[ReadBy(i, q)][j].val
          OBVIOUS
        <5>3. /\ IndexOf(z) = i /\ z \in 0 .. Highest'
              /\ rpc'[q] # "dropped" => z <= Cursor(q)' \/ (rpc'[q] = "guard" /\ z < rd'[q].pos)
          BY <5>1, <5>2, ReadPlace
        <5> QED
          BY <5>1, <5>2, <5>3
      <4> QED
        BY <4>1, <4>2
    <3> QED
      BY <3>6, <3>7, <3>9, <3>12
  <2> QED
    BY <2>1, <2>2
<1> QED
  BY <1>1 DEF ReadsSound, Knows

\* A receiver that scans for y knows the word of the sequence one ring back, if there
\* is one: it can read no older one.
LEMMA ScanBounds ==
  ASSUME TypeOK, IndInv, NEW r \in Receivers, rpc[r] = "scan", NEW y, y = rd[r].pos,
         NEW i, i = IndexOf(y), NEW k \in 1 .. Last(State(i)), k >= cur[r][State(i)]
  PROVE  /\ y \in Int /\ i \in Slots /\ y >= 0
         /\ Pos(y) \in Int /\ Pos(y) >= 2 /\ Pos(y) - 1 <= k /\ k \in Int
         /\ Highest \in Int /\ Highest < y + Capacity /\ y <= Highest + Capacity
         /\ Capacity \in Nat \ {0}
         /\ Pos(y) = 2 => y \in 0 .. (Capacity - 1)
<1>1. y \in Int /\ rd[r].top \in Int /\ rd[r].base \in Int /\ Highest \in Int /\ Capacity \in Nat \ {0}
  <2>1. rd \in [Receivers -> [base : Int, top : Int, pos : Nat, sd : BOOLEAN]]
    BY DEF TypeOK, LocalsOK
  <2>2. y \in Int /\ rd[r].top \in Int /\ rd[r].base \in Int
    BY <2>1
  <2> QED
    BY <2>2, HighestIsBound, CapacityAssumption
<1>2. /\ rd[r].base = Cursor(r) /\ rd[r].base < y /\ y <= rd[r].top /\ rd[r].top <= rd[r].base + Capacity
      /\ Cursor(r) \in -1 .. Highest /\ Highest <= Cursor(r) + Capacity /\ Covers(cur[r], Cursor(r))
  BY DEF IndInv, ReaderSound, CursorSound
<1>3. /\ y >= 0 /\ Cursor(r) < y /\ y - Capacity <= Cursor(r) /\ Cursor(r) \in Int
      /\ Highest < y + Capacity /\ y <= Highest + Capacity
  <2>1. PICK c, t : c = Cursor(r) /\ t = rd[r].top
    OBVIOUS
  <2>2. /\ c \in Int /\ t \in Int /\ y \in Int /\ Highest \in Int /\ Capacity \in Int /\ Capacity >= 1
        /\ -1 <= c /\ c <= Highest
    BY <1>1, <1>2, <2>1
  <2>3. c < y /\ y <= t /\ t <= c + Capacity /\ Highest <= c + Capacity
    BY <1>2, <2>1
  <2>4. y >= 0 /\ y - Capacity <= c
    BY <2>2, <2>3
  <2>5. Highest < y + Capacity /\ y <= Highest + Capacity
    BY <2>2, <2>3
  <2> QED
    BY <2>1, <2>2, <2>3, <2>4, <2>5
<1>4. i \in Slots /\ Pos(y) \in Int /\ Pos(y) >= 2 /\ State(i) \in Locations
  BY <1>1, <1>3, PosType DEF Locations
<1>5. Last(State(i)) \in Nat /\ k \in Int /\ cur[r][State(i)] \in Int
  BY <1>4, MemoryTypes DEF TypeOK, Threads
<1>6. PICK z : z = y - Capacity
  OBVIOUS
<1>7. z \in Int /\ z <= Cursor(r) /\ IndexOf(z) = i /\ Pos(z) = Pos(y) - 1 /\ (z >= 0 => Pos(z) >= 2)
  <2>1. z \in Int /\ z <= Cursor(r)
    <3>1. z \in Int
      BY <1>1, <1>6
    <3> QED
      BY <1>3, <1>6, <3>1
  <2> QED
    BY <1>1, <1>6, <2>1, PosShift, PosType
<1>8. CASE z >= 0
  <2>1. cur[r][State(i)] >= Pos(z)
    BY <1>2, <1>3, <1>7, <1>8 DEF Covers
  <2> QED
    <3>1. Pos(y) - 1 <= k /\ Pos(y) # 2
      BY <1>4, <1>5, <1>7, <1>8, <2>1
    <3> QED
      BY <1>1, <1>3, <1>4, <1>5, <3>1
<1>9. CASE z < 0
  <2>1. y \in 0 .. (Capacity - 1)
    BY <1>1, <1>3, <1>6, <1>7, <1>9
  <2>2. Pos(y) = 2
    BY <2>1, PosFirstLap
  <2> QED
    BY <1>1, <1>2, <1>3, <1>4, <1>5, <2>1, <2>2
<1> QED
  BY <1>7, <1>8, <1>9

\* A word with the flag of y, less than a ring from the claims, is the word of y
\* (slot_states.rs:89-92 and :144-164).
LEMMA ScanWord ==
  ASSUME TypeOK, IndInv, NEW r \in Receivers, rpc[r] = "scan", NEW y, y = rd[r].pos,
         NEW i, i = IndexOf(y), NEW k \in 1 .. Last(State(i)), k >= cur[r][State(i)],
         ~hist[State(i)][k].val.down, hist[State(i)][k].val.flag = AvailableFlag(y)
  PROVE  y <= Highest /\ k = Pos(y) /\ hist[State(i)][k].view[Written(i)] >= Pos(y)
<1>1. /\ y \in Int /\ i \in Slots /\ y >= 0 /\ Pos(y) \in Int /\ Pos(y) >= 2
      /\ Pos(y) - 1 <= k /\ k \in Int /\ Highest \in Int
      /\ Highest < y + Capacity /\ y <= Highest + Capacity /\ Capacity \in Nat \ {0}
      /\ Pos(y) = 2 => y \in 0 .. (Capacity - 1)
  BY ScanBounds
<1>2. k # 1
  <2>1. SUFFICES ASSUME k = 1 PROVE FALSE
    OBVIOUS
  <2>2. y \in 0 .. (Capacity - 1)
    BY <1>1, <2>1
  <2>3. hist[State(i)][1].val.flag = EmptyFlag
    BY <1>1 DEF IndInv, StateSound
  <2> QED
    BY <2>1, <2>2, <2>3, FirstLapNotEmpty
<1>3. k \in 2 .. Last(State(i)) /\ CarriesWrite(i, k)
  <2>1. k \in 2 .. Last(State(i))
    <3>1. Last(State(i)) \in Nat
      BY <1>1, MemoryTypes DEF TypeOK, Locations
    <3> QED
      BY <1>1, <1>2, <3>1
  <2>2. ~CarriesShutdown(i, k)
    BY DEF CarriesShutdown
  <2> QED
    BY <1>1, <2>1, <2>2 DEF IndInv, StateSound
<1>4. PICK x \in 0 .. Highest :
        /\ IndexOf(x) = i /\ Pos(x) = k /\ hist[State(i)][k].val.flag = AvailableFlag(x)
        /\ hist[State(i)][k].view[Written(i)] >= k
  BY <1>1, <1>3, WordOfWrite
<1>5. x \in Int /\ x <= Highest /\ IndexOf(x) = IndexOf(y)
  BY <1>1, <1>4
<1>6. y < x => y + Capacity <= x
  BY <1>1, <1>5, PosOrder
<1>7. y # x + Capacity
  BY <1>4, <1>5, NextLapDiffers
<1>8. x = y
  <2>1. ~(y < x)
    BY <1>1, <1>5, <1>6
  <2>2. ASSUME x < y PROVE FALSE
    <3>1. Pos(x) < Pos(y)
      BY <1>1, <1>5, <2>2, PosOrder
    <3>2. Pos(y) = Pos(x) + 1
      BY <1>1, <1>4, <3>1
    <3>3. y = x + Capacity
      BY <1>1, <1>5, <3>2, PosOrder
    <3> QED
      BY <1>7, <3>3
  <2> QED
    BY <1>1, <1>5, <2>1, <2>2
<1> QED
  BY <1>4, <1>8

\* The shutdown bit stops a scan only after all that was claimed: on an earlier slot
\* it lies on top of that slot's flag (slot_states.rs:100-105).
LEMMA ScanBit ==
  ASSUME TypeOK, IndInv, NEW r \in Receivers, rpc[r] = "scan", NEW y, y = rd[r].pos,
         NEW i, i = IndexOf(y), NEW k \in 1 .. Last(State(i)), k >= cur[r][State(i)],
         hist[State(i)][k].val.down
  PROVE  /\ Closed
         /\ hist[State(i)][k].val.flag = AvailableFlag(y) =>
              y <= Highest /\ k >= Pos(y) /\ hist[State(i)][k].view[Written(i)] >= Pos(y)
         /\ hist[State(i)][k].val.flag # AvailableFlag(y) => y = Highest + 1
<1>1. /\ y \in Int /\ i \in Slots /\ y >= 0 /\ Pos(y) \in Int /\ Pos(y) >= 2
      /\ Pos(y) - 1 <= k /\ k \in Int /\ Highest \in Int
      /\ Highest < y + Capacity /\ y <= Highest + Capacity /\ Capacity \in Nat \ {0}
      /\ Pos(y) = 2 => y \in 0 .. (Capacity - 1)
  BY ScanBounds
<1>2. k # 1
  <2>1. ~hist[State(i)][1].val.down
    BY <1>1 DEF IndInv, StateSound
  <2> QED
    BY <2>1
<1>3. k \in 2 .. Last(State(i)) /\ CarriesShutdown(i, k)
  <2>1. k \in 2 .. Last(State(i))
    <3>1. Last(State(i)) \in Nat
      BY <1>1, MemoryTypes DEF TypeOK, Locations
    <3> QED
      BY <1>1, <1>2, <3>1
  <2>2. ~CarriesWrite(i, k)
    BY DEF CarriesWrite
  <2> QED
    BY <1>1, <2>1, <2>2 DEF IndInv, StateSound
<1>4. PICK h, j : h = Highest + 1 /\ j = k - 1
  OBVIOUS
<1>5. /\ IndexOf(h) = i /\ Pos(h) = k /\ k = Last(State(i)) /\ Closed
      /\ hist[State(i)][k].val.flag = hist[State(i)][j].val.flag /\ ~hist[State(i)][j].val.down
      /\ hist[State(i)][k].view[Written(i)] >= j
  BY <1>3, <1>4 DEF CarriesShutdown, Closed
<1>6. /\ h \in Int /\ j \in Int /\ j >= 1 /\ j \in 1 .. Last(State(i))
      /\ h <= y + Capacity /\ y < h + Capacity
  <2>1. Last(State(i)) \in Nat
    BY <1>1, MemoryTypes DEF TypeOK, Locations
  <2>2. h \in Int /\ j \in Int /\ j >= 1 /\ j \in 1 .. Last(State(i))
    <3>1. k \in 2 .. Last(State(i)) /\ j = k - 1 /\ h = Highest + 1 /\ Highest \in Int
      BY <1>1, <1>3, <1>4
    <3> QED
      BY <2>1, <3>1
  <2>3. h <= y + Capacity /\ y < h + Capacity
    BY <1>1, <1>4
  <2> QED
    BY <2>2, <2>3
<1>7. j >= 2 => CarriesWrite(i, j)
  <2>1. ~CarriesShutdown(i, j)
    BY <1>5 DEF CarriesShutdown
  <2>2. j >= 2 => j \in 2 .. Last(State(i))
    BY <1>6
  <2> QED
    BY <1>1, <2>1, <2>2 DEF IndInv, StateSound
<1>8. ASSUME j >= 2
      PROVE  \E x \in 0 .. Highest :
               IndexOf(x) = i /\ Pos(x) = j /\ hist[State(i)][j].val.flag = AvailableFlag(x)
  <2>1. j \in 2 .. Last(State(i)) /\ CarriesWrite(i, j)
    BY <1>6, <1>7, <1>8
  <2>2. i \in Slots
    BY <1>1
  <2>3. PICK x \in 0 .. Highest :
          IndexOf(x) = i /\ Pos(x) = j /\ hist[State(i)][j].val.flag = AvailableFlag(x)
    BY <2>1, <2>2, WordOfWrite
  <2> QED
    BY <2>3
<1>9. h < y => h + Capacity <= y
  <2>1. IndexOf(h) = IndexOf(y)
    BY <1>5
  <2> QED
    BY <1>1, <1>6, <2>1, PosOrder
<1>10. y < h => y + Capacity <= h
  <2>1. IndexOf(h) = IndexOf(y)
    BY <1>5
  <2> QED
    BY <1>1, <1>6, <2>1, PosOrder
<1>11. h = y \/ h = y + Capacity
  <2>1. h \in Int /\ h <= y + Capacity /\ y < h + Capacity
    BY <1>6
  <2>2. Capacity \in Nat \ {0} /\ y \in Int
    BY <1>1
  <2> QED
    <3>1. CASE h = y
      BY <3>1
    <3>2. CASE h < y
      BY <1>9, <2>1, <2>2, <3>2
    <3>3. CASE y < h
      BY <1>10, <2>1, <2>2, <3>3
    <3> QED
      BY <2>1, <2>2, <3>1, <3>2, <3>3
<1>12. CASE h = y
  <2>1. j = Pos(y) - 1
    BY <1>1, <1>4, <1>5, <1>12
  <2>2. CASE j = 1
    <3>1. y \in 0 .. (Capacity - 1)
      BY <1>1, <2>1, <2>2
    <3>2. hist[State(i)][1].val.flag = EmptyFlag
      <4>1. i \in Slots /\ StateSound
        BY <1>1 DEF IndInv
      <4>2. hist[State(i)][1].val = [flag |-> EmptyFlag, down |-> FALSE]
        BY <4>1 DEF StateSound
      <4> QED
        BY <4>2
    <3>3. hist[State(i)][k].val.flag # AvailableFlag(y)
      BY <1>5, <2>2, <3>1, <3>2, FirstLapNotEmpty
    <3> QED
      BY <1>4, <1>5, <1>12, <3>3
  <2>3. CASE j >= 2
    <3>1. PICK x \in 0 .. Highest :
            IndexOf(x) = i /\ Pos(x) = j /\ hist[State(i)][j].val.flag = AvailableFlag(x)
      BY <1>8, <2>3
    <3>2. x \in Int /\ y = x + Capacity
      <4>1. x \in Int
        BY <1>1, <3>1
      <4>2. IndexOf(x) = IndexOf(y) /\ y \in Int
        BY <1>1, <3>1
      <4>3. Pos(y) = Pos(x) + 1 <=> y = x + Capacity
        BY <4>1, <4>2, PosOrder
      <4>4. Pos(y) = Pos(x) + 1
        BY <1>1, <2>1, <3>1
      <4> QED
        BY <4>1, <4>3, <4>4
    <3>3. AvailableFlag(y) # AvailableFlag(x)
      BY <3>2, NextLapDiffers
    <3> QED
      BY <1>4, <1>5, <1>12, <3>1, <3>3
  <2> QED
    BY <1>6, <2>2, <2>3
<1>13. CASE h # y
  <2>1. h = y + Capacity /\ j = Pos(y)
    <3>1. h = y + Capacity
      BY <1>11, <1>13
    <3>2. Pos(h) = Pos(y) + 1
      BY <1>1, <3>1, PosShift
    <3>3. j = Pos(y)
      <4>1. Pos(y) \in Int /\ k = Pos(h) /\ j = k - 1
        BY <1>1, <1>4, <1>5
      <4> QED
        BY <3>2, <4>1
    <3> QED
      BY <3>1, <3>3
  <2>2. PICK x \in 0 .. Highest :
          IndexOf(x) = i /\ Pos(x) = j /\ hist[State(i)][j].val.flag = AvailableFlag(x)
    BY <1>1, <1>8, <2>1
  <2>3. x = y
    <3>1. x \in Int
      BY <1>1, <2>2
    <3> QED
      BY <1>1, <2>1, <2>2, <3>1, PosOrder
  <2>4. y <= Highest /\ k >= Pos(y) /\ hist[State(i)][k].val.flag = AvailableFlag(y)
    <3>1. y <= Highest
      BY <1>1, <2>2, <2>3
    <3>2. k >= Pos(y)
      BY <1>1, <1>4, <2>1
    <3> QED
      BY <1>5, <2>2, <2>3, <3>1, <3>2
  <2>5. hist[State(i)][k].view[Written(i)] >= Pos(y)
    BY <1>5, <2>1
  <2> QED
    BY <1>5, <2>4, <2>5
<1> QED
  BY <1>12, <1>13

\* The ways a load of a scan may end: it goes on, it stops at the last item asked
\* for, at an item that is not there, or at the first one (slot_states.rs:144-164).
ScanEnds(r, k) ==
  LET d == rd[r]
      y == d.pos
      m == hist[State(IndexOf(y))][k]
      fenced == \A l \in Locations : cur'[r][l] >= acq'[r][l]
      guards(top) == /\ fenced /\ rpc'[r] = "guard" /\ told'[r] = "Ok"
                     /\ rd'[r] = [base |-> d.base, top |-> top, pos |-> d.base + 1, sd |-> FALSE]
  IN IF m.val.flag = AvailableFlag(y)
     THEN IF y < d.top
          THEN /\ rpc'[r] = "scan" /\ told'[r] = told[r]
               /\ rd'[r] = [base |-> d.base, top |-> d.top, pos |-> y + 1, sd |-> d.sd \/ m.val.down]
          ELSE guards(y)
     ELSE IF d.base < y - 1
          THEN guards(y - 1)
          ELSE rpc'[r] = "idle" /\ (told'[r] = "Disconnected" => d.sd \/ m.val.down)

LEMMA ScanCases ==
  ASSUME TypeOK, IndInv, NEW r \in Receivers, ScanSlot(r),
         NEW y, y = rd[r].pos, NEW i, i = IndexOf(y)
  PROVE  /\ rpc[r] = "scan"
         /\ \E k \in 1 .. Last(State(i)) :
              /\ k >= cur[r][State(i)] /\ cur'[r][State(i)] >= k
              /\ \A l \in Locations : acq'[r][l] >= hist[State(i)][k].view[l]
              /\ MemoryOK' /\ Grows /\ hist' = hist /\ ScanEnds(r, k)
<1>1. rpc[r] = "scan"
  BY DEF ScanSlot
<1>2. /\ rd \in [Receivers -> [base : Int, top : Int, pos : Nat, sd : BOOLEAN]]
      /\ rpc \in [Receivers -> {"idle", "scan", "guard", "dropped"}]
      /\ told \in [Receivers -> {"none", "Ok", "Empty", "Disconnected"}]
      /\ rd[r].base \in Int /\ rd[r].top \in Int /\ rd[r].pos \in Int
  BY DEF TypeOK, LocalsOK
<1>3. rd[r].base < y /\ y <= rd[r].top
  BY <1>1 DEF IndInv, ReaderSound
<1>4. PICK k : Scans(r, k)
  BY ScanEffect
<1>5. /\ k \in 1 .. Last(State(i)) /\ k >= cur[r][State(i)] /\ cur'[r][State(i)] >= k
      /\ \A l \in Locations : acq'[r][l] >= hist[State(i)][k].view[l]
      /\ MemoryOK' /\ Grows /\ hist' = hist
  BY <1>4 DEF Scans
<1> DEFINE m == hist[State(i)][k]
           base == rd[r].base
           top == rd[r].top
<1>6. CASE m.val.flag = AvailableFlag(y) /\ y < top
  <2>1. /\ UNCHANGED <<rpc, told>>
        /\ rd' = [rd EXCEPT ![r].pos = y + 1, ![r].sd = rd[r].sd \/ m.val.down]
    BY <1>4, <1>6 DEF Scans
  <2>2. rd'[r] = [base |-> base, top |-> top, pos |-> y + 1, sd |-> rd[r].sd \/ m.val.down]
    <3>1. PICK p, b : p = y + 1 /\ b = (rd[r].sd \/ m.val.down)
      OBVIOUS
    <3>2. rd' = [rd EXCEPT ![r].pos = p, ![r].sd = b]
      BY <2>1, <3>1
    <3>3. rd'[r] = [base |-> rd[r].base, top |-> rd[r].top, pos |-> p, sd |-> b]
      BY <1>2, <3>2
    <3> QED
      BY <3>1, <3>3
  <2>3. ScanEnds(r, k)
    BY <1>1, <1>6, <2>1, <2>2 DEF ScanEnds
  <2> QED
    BY <1>1, <1>5, <2>3
<1>7. CASE m.val.flag = AvailableFlag(y) /\ ~(y < top)
  <2>1. /\ \A l \in Locations : cur'[r][l] >= acq'[r][l]
        /\ told' = [told EXCEPT ![r] = "Ok"] /\ rpc' = [rpc EXCEPT ![r] = "guard"]
        /\ rd' = [rd EXCEPT ![r] = [base |-> base, top |-> y, pos |-> base + 1, sd |-> FALSE]]
    BY <1>3, <1>4, <1>7 DEF Scans, ScanOutcome
  <2>2. /\ told'[r] = "Ok" /\ rpc'[r] = "guard"
        /\ rd'[r] = [base |-> base, top |-> y, pos |-> base + 1, sd |-> FALSE]
    BY <1>2, <2>1
  <2>3. ScanEnds(r, k)
    BY <1>7, <2>1, <2>2 DEF ScanEnds
  <2> QED
    BY <1>1, <1>5, <2>3
<1>8. CASE m.val.flag # AvailableFlag(y) /\ base < y - 1
  <2>1. /\ \A l \in Locations : cur'[r][l] >= acq'[r][l]
        /\ told' = [told EXCEPT ![r] = "Ok"] /\ rpc' = [rpc EXCEPT ![r] = "guard"]
        /\ rd' = [rd EXCEPT ![r] = [base |-> base, top |-> y - 1, pos |-> base + 1, sd |-> FALSE]]
    BY <1>3, <1>4, <1>8 DEF Scans, ScanOutcome
  <2>2. /\ told'[r] = "Ok" /\ rpc'[r] = "guard"
        /\ rd'[r] = [base |-> base, top |-> y - 1, pos |-> base + 1, sd |-> FALSE]
    BY <1>2, <2>1
  <2>3. ScanEnds(r, k)
    BY <1>8, <2>1, <2>2 DEF ScanEnds
  <2> QED
    BY <1>1, <1>5, <2>3
<1>9. CASE m.val.flag # AvailableFlag(y) /\ ~(base < y - 1)
  <2>1. ~(y - 1 > base)
    BY <1>2, <1>9
  <2>2. /\ told' = [told EXCEPT ![r] = IF rd[r].sd \/ m.val.down THEN "Disconnected" ELSE "Empty"]
        /\ rpc' = [rpc EXCEPT ![r] = "idle"]
    BY <1>4, <1>9, <2>1 DEF Scans, ScanOutcome
  <2>3. rpc'[r] = "idle" /\ (told'[r] = "Disconnected" => rd[r].sd \/ m.val.down)
    BY <1>2, <2>2
  <2>4. ScanEnds(r, k)
    BY <1>9, <2>3 DEF ScanEnds
  <2> QED
    BY <1>1, <1>5, <2>4
<1> QED
  BY <1>6, <1>7, <1>8, <1>9

\* What one load of a scan adds to what is known, and what the answer rests on
\* (slot_states.rs:144-164).
LEMMA ScanKept ==
  ASSUME TypeOK, IndInv, NEW r \in Receivers, ScanSlot(r),
         NEW base, base = rd[r].base, NEW d, d = rd'[r]
  PROVE  /\ rpc[r] = "scan" /\ hist' = hist /\ base = Cursor(r)
         /\ rpc'[r] = "scan" =>
              /\ d.base = base /\ base < d.pos /\ d.pos <= d.top /\ d.top <= base + Capacity
              /\ d.pos = base + 1 => ~d.sd
              /\ \A z \in (base + 1) .. (d.pos - 1) :
                   /\ z <= Highest
                   /\ cur'[r][State(IndexOf(z))] >= Pos(z) /\ acq'[r][Written(IndexOf(z))] >= Pos(z)
         /\ rpc'[r] = "guard" =>
              /\ d.base = base /\ base < d.pos /\ base < d.top
              /\ d.top <= base + Capacity /\ d.top <= Highest
              /\ d.pos <= d.top + 1 /\ told'[r] = "Ok"
              /\ Covers(cur'[r], d.top)
         /\ told'[r] = "Disconnected" /\ rpc'[r] # "scan" => Closed /\ Highest = Cursor(r)
<1>1. PICK y, i : y = rd[r].pos /\ i = IndexOf(y)
  OBVIOUS
<1>2. rpc[r] = "scan"
  BY DEF ScanSlot
<1>3. PICK k \in 1 .. Last(State(i)) :
        /\ k >= cur[r][State(i)] /\ cur'[r][State(i)] >= k
        /\ \A l \in Locations : acq'[r][l] >= hist[State(i)][k].view[l]
        /\ MemoryOK' /\ Grows /\ hist' = hist /\ ScanEnds(r, k)
  BY <1>1, ScanCases
<1>4. /\ y \in Int /\ base \in Int /\ rd[r].top \in Int /\ Capacity \in Nat \ {0} /\ Highest \in Int
      /\ i \in Slots /\ Pos(y) \in Int /\ k \in Int /\ y >= 0 /\ r \in Threads /\ MemoryOK
  <2>1. base \in Int /\ rd[r].top \in Int /\ r \in Threads /\ MemoryOK
    BY DEF TypeOK, LocalsOK, Threads
  <2>2. /\ y \in Int /\ Capacity \in Nat \ {0} /\ Highest \in Int
        /\ i \in Slots /\ Pos(y) \in Int /\ k \in Int /\ y >= 0
    BY <1>1, <1>2, <1>3, ScanBounds
  <2> QED
    BY <2>1, <2>2
<1>5. /\ base = Cursor(r) /\ base < y /\ y <= rd[r].top /\ rd[r].top <= base + Capacity
      /\ y = base + 1 => ~rd[r].sd
      /\ \A z \in (base + 1) .. (y - 1) :
           /\ z <= Highest
           /\ cur[r][State(IndexOf(z))] >= Pos(z) /\ acq[r][Written(IndexOf(z))] >= Pos(z)
  BY <1>1, <1>2 DEF IndInv, ReaderSound
<1>6. base \in -1 .. Highest /\ Covers(cur[r], base)
  BY <1>2, <1>5 DEF IndInv, CursorSound
<1>7. /\ State(i) \in Locations /\ Written(i) \in Locations
      /\ cur[r] \in Views /\ cur'[r] \in Views /\ acq[r] \in Views /\ acq'[r] \in Views
      /\ \A l \in Locations : cur[r][l] <= cur'[r][l] /\ acq[r][l] <= acq'[r][l]
  <2>1. State(i) \in Locations /\ Written(i) \in Locations
    BY <1>4 DEF Locations
  <2> QED
    BY <1>3, <1>4, <2>1 DEF MemoryOK, Grows
<1>8. ASSUME hist[State(i)][k].val.flag = AvailableFlag(y)
      PROVE  /\ y <= Highest /\ k >= Pos(y) /\ hist[State(i)][k].view[Written(i)] >= Pos(y)
  <2>1. CASE hist[State(i)][k].val.down
    BY <1>1, <1>2, <1>3, <1>8, <2>1, ScanBit
  <2>2. CASE ~hist[State(i)][k].val.down
    <3>1. y <= Highest /\ k = Pos(y) /\ hist[State(i)][k].view[Written(i)] >= Pos(y)
      BY <1>1, <1>2, <1>3, <1>8, <2>2, ScanWord
    <3> QED
      BY <1>4, <3>1
  <2> QED
    BY <2>1, <2>2
<1>9. ASSUME NEW z \in (base + 1) .. (y - 1)
      PROVE  z <= Highest /\ cur'[r][State(IndexOf(z))] >= Pos(z) /\ acq'[r][Written(IndexOf(z))] >= Pos(z)
  <2>1. /\ z <= Highest
        /\ cur[r][State(IndexOf(z))] >= Pos(z) /\ acq[r][Written(IndexOf(z))] >= Pos(z)
    BY <1>5
  <2>2. z \in Int /\ Pos(z) \in Int /\ State(IndexOf(z)) \in Locations /\ Written(IndexOf(z)) \in Locations
    <3>1. z \in Int
      BY <1>4
    <3> QED
      BY <3>1, PosType DEF Locations
  <2>3. /\ cur[r][State(IndexOf(z))] \in Int /\ cur'[r][State(IndexOf(z))] \in Int
        /\ acq[r][Written(IndexOf(z))] \in Int /\ acq'[r][Written(IndexOf(z))] \in Int
    <3>1. ASSUME NEW v \in Views PROVE \A l \in Locations : v[l] \in Int
      BY <3>1 DEF Views
    <3> QED
      BY <1>7, <2>2, <3>1
  <2>4. /\ cur[r][State(IndexOf(z))] <= cur'[r][State(IndexOf(z))]
        /\ acq[r][Written(IndexOf(z))] <= acq'[r][Written(IndexOf(z))]
    BY <1>7, <2>2
  <2> QED
    BY <2>1, <2>2, <2>3, <2>4
<1>10. ASSUME hist[State(i)][k].val.flag = AvailableFlag(y)
       PROVE  \A z \in (base + 1) .. y :
                /\ z <= Highest
                /\ cur'[r][State(IndexOf(z))] >= Pos(z) /\ acq'[r][Written(IndexOf(z))] >= Pos(z)
  <2>1. y <= Highest /\ cur'[r][State(i)] >= Pos(y) /\ acq'[r][Written(i)] >= Pos(y)
    <3>1. y <= Highest /\ k >= Pos(y) /\ hist[State(i)][k].view[Written(i)] >= Pos(y)
      BY <1>8, <1>10
    <3>2. cur'[r][State(i)] >= k /\ acq'[r][Written(i)] >= hist[State(i)][k].view[Written(i)]
      BY <1>3, <1>7
    <3>3. /\ cur'[r][State(i)] \in Int /\ acq'[r][Written(i)] \in Int
          /\ hist[State(i)][k].view[Written(i)] \in Int
      <4>1. hist[State(i)][k].view \in Views
        BY <1>3, <1>4, <1>7, MemoryTypes
      <4>2. ASSUME NEW v \in Views PROVE \A l \in Locations : v[l] \in Int
        BY <4>2 DEF Views
      <4> QED
        BY <1>7, <4>1, <4>2
    <3> QED
      BY <1>4, <3>1, <3>2, <3>3
  <2>2. ASSUME NEW z \in (base + 1) .. y PROVE z = y \/ z \in (base + 1) .. (y - 1)
    BY <1>4
  <2> QED
    BY <1>1, <1>9, <2>1, <2>2
<1>11. ASSUME NEW top \in Int, base < top, \A l \in Locations : cur'[r][l] >= acq'[r][l],
              \A z \in (base + 1) .. top :
                /\ z <= Highest
                /\ cur'[r][State(IndexOf(z))] >= Pos(z) /\ acq'[r][Written(IndexOf(z))] >= Pos(z)
       PROVE  top <= Highest /\ Covers(cur'[r], top)
  <2>1. top <= Highest
    BY <1>4, <1>11
  <2>2. Covers(cur'[r], base)
    <3>1. base <= base
      BY <1>4
    <3> QED
      BY <1>4, <1>6, <1>7, <3>1, CoversLess
  <2>3. ASSUME NEW z \in 0 .. top
        PROVE  cur'[r][Written(IndexOf(z))] >= Pos(z) /\ cur'[r][State(IndexOf(z))] >= Pos(z)
    <3>1. CASE z <= base
      <4>1. z \in 0 .. base
        BY <1>4, <3>1
      <4> QED
        BY <2>2, <4>1 DEF Covers
    <3>2. CASE z > base
      <4>1. z \in (base + 1) .. top /\ z \in Int
        BY <1>4, <3>2
      <4>2. cur'[r][State(IndexOf(z))] >= Pos(z) /\ acq'[r][Written(IndexOf(z))] >= Pos(z)
        BY <1>11, <4>1
      <4>3. Written(IndexOf(z)) \in Locations /\ Pos(z) \in Int
        BY <4>1, PosType DEF Locations
      <4>4. cur'[r][Written(IndexOf(z))] >= acq'[r][Written(IndexOf(z))]
        BY <1>11, <4>3
      <4>5. cur'[r][Written(IndexOf(z))] \in Int /\ acq'[r][Written(IndexOf(z))] \in Int
        BY <1>7, <4>3 DEF Views
      <4> QED
        BY <4>2, <4>3, <4>4, <4>5
    <3> QED
      BY <1>4, <3>1, <3>2
  <2> QED
    BY <2>1, <2>3 DEF Covers
<1>12. CASE hist[State(i)][k].val.flag = AvailableFlag(y) /\ y < rd[r].top
  <2>1. /\ rpc'[r] = "scan"
        /\ d = [base |-> base, top |-> rd[r].top, pos |-> y + 1, sd |-> rd[r].sd \/ hist[State(i)][k].val.down]
    BY <1>1, <1>3, <1>12 DEF ScanEnds
  <2>2. d.base = base /\ d.top = rd[r].top /\ d.pos = y + 1
    BY <2>1
  <2>3. y + 1 - 1 = y /\ y + 1 # base + 1 /\ base < y + 1 /\ y + 1 <= rd[r].top
    <3>1. y \in Int /\ base \in Int /\ rd[r].top \in Int
      BY <1>4
    <3>2. base < y /\ y < rd[r].top
      BY <1>5, <1>12
    <3> QED
      BY <3>1, <3>2
  <2>4. \A z \in (base + 1) .. (d.pos - 1) :
          /\ z <= Highest
          /\ cur'[r][State(IndexOf(z))] >= Pos(z) /\ acq'[r][Written(IndexOf(z))] >= Pos(z)
    <3>1. \A z \in (base + 1) .. y :
            /\ z <= Highest
            /\ cur'[r][State(IndexOf(z))] >= Pos(z) /\ acq'[r][Written(IndexOf(z))] >= Pos(z)
      BY <1>10, <1>12
    <3>2. d.pos - 1 = y
      <4>1. d.pos = y + 1 /\ y \in Int
        BY <1>4, <2>2
      <4> QED
        BY <4>1
    <3> QED
      BY <3>1, <3>2
  <2> QED
    BY <1>2, <1>3, <1>5, <2>1, <2>2, <2>3, <2>4
<1>13. ASSUME NEW top \in Int, base < top, top <= y, \A l \in Locations : cur'[r][l] >= acq'[r][l],
              \A z \in (base + 1) .. top :
                /\ z <= Highest
                /\ cur'[r][State(IndexOf(z))] >= Pos(z) /\ acq'[r][Written(IndexOf(z))] >= Pos(z),
              rpc'[r] = "guard", told'[r] = "Ok",
              d = [base |-> base, top |-> top, pos |-> base + 1, sd |-> FALSE]
       PROVE  /\ d.base = base /\ base < d.pos /\ base < d.top
              /\ d.top <= base + Capacity /\ d.top <= Highest
              /\ d.pos <= d.top + 1 /\ Covers(cur'[r], d.top)
  <2>1. d.base = base /\ d.top = top /\ d.pos = base + 1
    BY <1>13
  <2>2. top <= Highest /\ Covers(cur'[r], top)
    BY <1>11, <1>13
  <2>3. base < base + 1 /\ top <= base + Capacity /\ base + 1 <= top + 1
    <3>1. y \in Int /\ base \in Int /\ rd[r].top \in Int /\ Capacity \in Int
      BY <1>4
    <3>2. base < top /\ top <= y /\ y <= rd[r].top /\ rd[r].top <= base + Capacity
      BY <1>5, <1>13
    <3> QED
      BY <3>1, <3>2
  <2> QED
    BY <1>13, <2>1, <2>2, <2>3
<1>14. CASE hist[State(i)][k].val.flag = AvailableFlag(y) /\ ~(y < rd[r].top)
  <2>1. /\ rpc'[r] = "guard" /\ told'[r] = "Ok" /\ \A l \in Locations : cur'[r][l] >= acq'[r][l]
        /\ d = [base |-> base, top |-> y, pos |-> base + 1, sd |-> FALSE]
    BY <1>1, <1>3, <1>14 DEF ScanEnds
  <2>2. y <= y
    BY <1>4
  <2> QED
    BY <1>2, <1>3, <1>4, <1>5, <1>10, <1>13, <1>14, <2>1, <2>2
<1>15. CASE hist[State(i)][k].val.flag # AvailableFlag(y) /\ base < y - 1
  <2>1. /\ rpc'[r] = "guard" /\ told'[r] = "Ok" /\ \A l \in Locations : cur'[r][l] >= acq'[r][l]
        /\ d = [base |-> base, top |-> y - 1, pos |-> base + 1, sd |-> FALSE]
    BY <1>1, <1>3, <1>15 DEF ScanEnds
  <2>2. y - 1 <= y /\ y - 1 \in Int
    BY <1>4
  <2> QED
    BY <1>2, <1>3, <1>5, <1>9, <1>13, <1>15, <2>1, <2>2
<1>16. CASE hist[State(i)][k].val.flag # AvailableFlag(y) /\ ~(base < y - 1)
  <2>1. rpc'[r] = "idle" /\ (told'[r] = "Disconnected" => rd[r].sd \/ hist[State(i)][k].val.down)
    BY <1>1, <1>3, <1>16 DEF ScanEnds
  <2>2. y = base + 1
    <3>1. y \in Int /\ base \in Int
      BY <1>4
    <3>2. base < y
      BY <1>5
    <3>3. ~(base < y - 1)
      BY <1>16
    <3> QED
      BY <3>1, <3>2, <3>3
  <2>3. ASSUME told'[r] = "Disconnected" PROVE Closed /\ Highest = Cursor(r)
    <3>1. hist[State(i)][k].val.down
      BY <1>5, <2>1, <2>2, <2>3
    <3>2. Closed /\ y = Highest + 1
      BY <1>1, <1>2, <1>3, <1>16, <3>1, ScanBit
    <3>3. Highest = base
      <4>1. base \in Int /\ Highest \in Int
        BY <1>4
      <4> QED
        BY <2>2, <3>2, <4>1
    <3> QED
      BY <1>5, <3>2, <3>3
  <2> QED
    BY <1>2, <1>3, <1>5, <2>1, <2>3
<1> QED
  BY <1>12, <1>14, <1>15, <1>16

\* What a step of a receiver leaves known to it (receiver.rs and consumer.rs: a scan,
\* then a guard on what it found).
LEMMA ReaderActs ==
  ASSUME TypeOK, IndInv, NEW r \in Receivers, ReceiverStep(r), NEW d, d = rd'[r]
  PROVE  /\ rpc'[r] = "scan" =>
              /\ d.base = Cursor(r)' /\ d.base < d.pos /\ d.pos <= d.top /\ d.top <= d.base + Capacity
              /\ d.pos = d.base + 1 => ~d.sd
              /\ \A z \in (d.base + 1) .. (d.pos - 1) :
                   /\ z <= Highest'
                   /\ cur'[r][State(IndexOf(z))] >= Pos(z) /\ acq'[r][Written(IndexOf(z))] >= Pos(z)
         /\ rpc'[r] = "guard" =>
              /\ d.base = Cursor(r)' /\ d.base < d.pos /\ d.base < d.top
              /\ d.top <= d.base + Capacity /\ d.top <= Highest'
              /\ d.pos <= d.top + 1 /\ told'[r] = "Ok"
              /\ Covers(cur'[r], d.top)
<1>1. CASE \E n \in Limits : StartRecv(r, n)
  <2>1. PICK n \in Limits : StartRecv(r, n)
    BY <1>1
  <2>2. hist' = hist
    BY <2>1, StartRecvLoads
  <2>3. PICK base : base = Cursor(r)
    OBVIOUS
  <2>4. /\ rpc'[r] = "scan" /\ d = [base |-> base, top |-> base + n, pos |-> base + 1, sd |-> FALSE]
    BY <2>1, <2>3 DEF StartRecv, TypeOK, LocalsOK
  <2>5. base \in Int /\ n \in 1 .. Capacity /\ Capacity \in Nat \ {0}
    BY <2>3, WordTypes, CallsAssumption, CapacityAssumption DEF TypeOK
  <2>6. d.base = base /\ d.top = base + n /\ d.pos = base + 1 /\ ~d.sd
    BY <2>4
  <2>7. Cursor(r)' = base
    BY <2>2, <2>3
  <2>8. d.base < d.pos /\ d.pos <= d.top /\ d.top <= d.base + Capacity
    BY <2>5, <2>6
  <2>9. (d.base + 1) .. (d.pos - 1) = {}
    BY <2>5, <2>6
  <2>10. d.base = Cursor(r)' /\ ~d.sd
    BY <2>6, <2>7
  <2> QED
    BY <2>4, <2>8, <2>9, <2>10
<1>2. CASE ScanSlot(r)
  <2>1. PICK base : base = rd[r].base
    OBVIOUS
  <2>2. rpc[r] = "scan" /\ hist' = hist /\ base = Cursor(r)
    BY <1>2, <2>1, ScanKept
  <2>3. Cursor(r)' = base /\ Highest' = Highest
    BY <2>2 DEF Highest
  <2>4. rpc'[r] = "scan" =>
          /\ d.base = base /\ base < d.pos /\ d.pos <= d.top /\ d.top <= base + Capacity
          /\ d.pos = base + 1 => ~d.sd
          /\ \A z \in (base + 1) .. (d.pos - 1) :
               /\ z <= Highest
               /\ cur'[r][State(IndexOf(z))] >= Pos(z) /\ acq'[r][Written(IndexOf(z))] >= Pos(z)
    BY <1>2, <2>1, ScanKept
  <2>5. rpc'[r] = "guard" =>
          /\ d.base = base /\ base < d.pos /\ base < d.top
          /\ d.top <= base + Capacity /\ d.top <= Highest
          /\ d.pos <= d.top + 1 /\ told'[r] = "Ok"
          /\ Covers(cur'[r], d.top)
    BY <1>2, <2>1, ScanKept
  <2> QED
    BY <2>3, <2>4, <2>5
<1>3. CASE ReadItem(r)
  <2>1. PICK y, l : y = rd[r].pos /\ l = ReadBy(IndexOf(y), r)
    OBVIOUS
  <2>2. /\ y \in Int /\ rd[r].top \in Int /\ rpc[r] = "guard" /\ rpc' = rpc
        /\ y <= rd[r].top
        /\ d = [base |-> rd[r].base, top |-> rd[r].top, pos |-> y + 1, sd |-> rd[r].sd]
    BY <1>3, <2>1, ReadFacts
  <2>3. told' = told
    BY <1>3 DEF ReadItem
  <2>4. /\ rd[r].base = Cursor(r) /\ rd[r].base < y /\ rd[r].base < rd[r].top
        /\ rd[r].top <= rd[r].base + Capacity /\ rd[r].top <= Highest
        /\ told[r] = "Ok" /\ Covers(cur[r], rd[r].top)
    BY <2>1, <2>2 DEF IndInv, ReaderSound
  <2>5. hist'[Consumed(r)] = hist[Consumed(r)] /\ hist'[Claimed] = hist[Claimed]
    <3>1. ~FinishGuard(r) /\ ~DropReceiver(r)
      <4>1. ~DropReceiver(r)
        BY <2>2 DEF DropReceiver
      <4>2. rpc'[r] = "guard"
        BY <2>2
      <4>3. FinishGuard(r) => rpc'[r] = "idle"
        BY DEF FinishGuard, TypeOK, LocalsOK
      <4> QED
        BY <4>1, <4>2, <4>3
    <3>2. Consumed(r) \in Locations /\ Claimed \in Locations
      BY DEF Locations
    <3> QED
      BY <3>1, <3>2, ReceiverHist DEF Claimed, Consumed, ReadBy
  <2>6. Cursor(r)' = Cursor(r) /\ Highest' = Highest
    BY <2>5 DEF Highest
  <2>7. Covers(cur'[r], rd[r].top)
    <3>1. MemoryOK /\ MemoryOK' /\ Grows /\ r \in Threads
      BY MemoryKept DEF TypeOK, Next, Threads
    <3>2. cur[r] \in Views /\ cur'[r] \in Views /\ \A n \in Locations : cur[r][n] <= cur'[r][n]
      BY <3>1 DEF MemoryOK, Grows
    <3>3. rd[r].top <= rd[r].top
      BY <2>2
    <3> QED
      BY <2>2, <2>4, <3>2, <3>3, CoversLess
  <2>8. d.base = rd[r].base /\ d.top = rd[r].top /\ d.pos = y + 1
    BY <2>2
  <2>9. rd[r].base < y + 1 /\ y + 1 <= rd[r].top + 1
    <3>1. rd[r].base \in Int
      BY DEF TypeOK, LocalsOK
    <3>2. rd[r].base < y
      BY <2>4
    <3> QED
      BY <2>2, <3>1, <3>2
  <2> QED
    BY <2>2, <2>3, <2>4, <2>6, <2>7, <2>8, <2>9
<1>4. CASE FinishGuard(r) \/ DropReceiver(r)
  <2>1. rpc'[r] \in {"idle", "dropped"}
    BY <1>4 DEF FinishGuard, DropReceiver, TypeOK, LocalsOK
  <2> QED
    BY <2>1
<1> QED
  BY <1>1, <1>2, <1>3, <1>4 DEF ReceiverStep

\* A receiver steps, or its locals and its cursor stay.
LEMMA ReceiverCases ==
  ASSUME TypeOK, IndInv, [Next]_vars, NEW q \in Receivers
  PROVE  \/ \E r \in Receivers : ReceiverStep(r) /\ r = q
         \/ /\ rpc'[q] = rpc[q] /\ rd'[q] = rd[q] /\ told'[q] = told[q]
            /\ hist'[Consumed(q)] = hist[Consumed(q)]
<1>1. Consumed(q) \in Locations /\ \A r \in Receivers : Consumed(q) = Consumed(r) => q = r
  BY DEF Locations, Consumed
<1>2. ASSUME NEW s \in Senders, SenderStep(s)
      PROVE  /\ rpc'[q] = rpc[q] /\ rd'[q] = rd[q] /\ told'[q] = told[q]
             /\ hist'[Consumed(q)] = hist[Consumed(q)]
  <2>1. UNCHANGED <<rpc, rd, told>>
    BY <1>2, SenderLocals
  <2>2. hist'[Consumed(q)] = hist[Consumed(q)]
    BY <1>1, <1>2, SenderHist DEF Claimed, Refs, Written, State, Consumed
  <2> QED
    BY <2>1, <2>2
<1>3. ASSUME NEW r \in Receivers, ReceiverStep(r), r # q
      PROVE  /\ rpc'[q] = rpc[q] /\ rd'[q] = rd[q] /\ told'[q] = told[q]
             /\ hist'[Consumed(q)] = hist[Consumed(q)]
  <2>1. rpc'[q] = rpc[q] /\ rd'[q] = rd[q] /\ told'[q] = told[q]
    BY <1>3, ReceiverLocals
  <2>2. \A i : Consumed(q) # ReadBy(i, r)
    BY DEF Consumed, ReadBy
  <2>3. hist'[Consumed(q)] = hist[Consumed(q)]
    BY <1>1, <1>3, <2>2, ReceiverHist
  <2> QED
    BY <2>1, <2>3
<1>4. CASE UNCHANGED vars
  BY <1>4 DEF vars, memVars, readerVars
<1> QED
  BY <1>2, <1>3, <1>4 DEF Next, Terminated

\* The scans and the guards.
LEMMA ReaderKept ==
  ASSUME TypeOK, IndInv, [Next]_vars
  PROVE  ReaderSound'
<1>1. MemoryOK /\ MemoryOK' /\ Grows
  BY MemoryKept DEF TypeOK, IndInv
<1>2. /\ Highest \in Int /\ Highest' \in Int /\ Highest <= Highest'
  BY HighestGrows
<1>3. ASSUME NEW q \in Receivers, rpc'[q] = rpc[q], rd'[q] = rd[q], told'[q] = told[q],
             hist'[Consumed(q)] = hist[Consumed(q)], NEW d, d = rd[q]
      PROVE  /\ rpc'[q] = "scan" =>
                  /\ d.base = Cursor(q)' /\ d.base < d.pos /\ d.pos <= d.top /\ d.top <= d.base + Capacity
                  /\ d.pos = d.base + 1 => ~d.sd
                  /\ \A z \in (d.base + 1) .. (d.pos - 1) :
                       /\ z <= Highest'
                       /\ cur'[q][State(IndexOf(z))] >= Pos(z) /\ acq'[q][Written(IndexOf(z))] >= Pos(z)
             /\ rpc'[q] = "guard" =>
                  /\ d.base = Cursor(q)' /\ d.base < d.pos /\ d.base < d.top
                  /\ d.top <= d.base + Capacity /\ d.top <= Highest'
                  /\ d.pos <= d.top + 1 /\ told'[q] = "Ok"
                  /\ Covers(cur'[q], d.top)
  <2>1. Cursor(q)' = Cursor(q)
    BY <1>3
  <2>2. d.base \in Int /\ d.top \in Int /\ d.pos \in Int
    BY <1>3 DEF TypeOK, LocalsOK
  <2>3. /\ cur[q] \in Views /\ cur'[q] \in Views /\ acq[q] \in Views /\ acq'[q] \in Views
        /\ \A l \in Locations : cur[q][l] <= cur'[q][l] /\ acq[q][l] <= acq'[q][l]
    BY <1>1 DEF MemoryOK, Grows, Threads
  <2>4. ASSUME rpc[q] = "scan", NEW z \in (d.base + 1) .. (d.pos - 1)
        PROVE  /\ z <= Highest'
               /\ cur'[q][State(IndexOf(z))] >= Pos(z) /\ acq'[q][Written(IndexOf(z))] >= Pos(z)
    <3>1. /\ z <= Highest
          /\ cur[q][State(IndexOf(z))] >= Pos(z) /\ acq[q][Written(IndexOf(z))] >= Pos(z)
      BY <1>3, <2>4 DEF IndInv, ReaderSound
    <3>2. z \in Int /\ Pos(z) \in Int /\ State(IndexOf(z)) \in Locations /\ Written(IndexOf(z)) \in Locations
      <4>1. z \in Int
        BY <2>2
      <4> QED
        BY <4>1, PosType DEF Locations
    <3>3. /\ cur[q][State(IndexOf(z))] \in Int /\ cur'[q][State(IndexOf(z))] \in Int
          /\ acq[q][Written(IndexOf(z))] \in Int /\ acq'[q][Written(IndexOf(z))] \in Int
      BY <2>3, <3>2 DEF Views
    <3>4. /\ cur[q][State(IndexOf(z))] <= cur'[q][State(IndexOf(z))]
          /\ acq[q][Written(IndexOf(z))] <= acq'[q][Written(IndexOf(z))]
      BY <2>3, <3>2
    <3>5. z <= Highest'
      BY <1>2, <3>1, <3>2
    <3> QED
      BY <3>1, <3>2, <3>3, <3>4, <3>5
  <2>5. ASSUME rpc[q] = "scan"
        PROVE  /\ d.base = Cursor(q) /\ d.base < d.pos /\ d.pos <= d.top /\ d.top <= d.base + Capacity
               /\ d.pos = d.base + 1 => ~d.sd
    BY <1>3, <2>5 DEF IndInv, ReaderSound
  <2>6. ASSUME rpc[q] = "guard"
        PROVE  /\ d.base = Cursor(q) /\ d.base < d.pos /\ d.base < d.top
               /\ d.top <= d.base + Capacity /\ d.top <= Highest
               /\ d.pos <= d.top + 1 /\ told[q] = "Ok"
               /\ Covers(cur[q], d.top)
    BY <1>3, <2>6 DEF IndInv, ReaderSound
  <2>7. ASSUME rpc[q] = "guard"
        PROVE  d.top <= Highest' /\ Covers(cur'[q], d.top)
    <3>1. d.top <= Highest' /\ d.top <= d.top
      BY <1>2, <2>2, <2>6, <2>7
    <3> QED
      BY <2>2, <2>3, <2>6, <2>7, <3>1, CoversLess
  <2> QED
    BY <1>3, <2>1, <2>4, <2>5, <2>6, <2>7
<1>4. ASSUME NEW q \in Receivers
      PROVE  /\ rpc'[q] = "scan" =>
                  /\ rd'[q].base = Cursor(q)' /\ rd'[q].base < rd'[q].pos
                  /\ rd'[q].pos <= rd'[q].top /\ rd'[q].top <= rd'[q].base + Capacity
                  /\ rd'[q].pos = rd'[q].base + 1 => ~rd'[q].sd
                  /\ \A z \in (rd'[q].base + 1) .. (rd'[q].pos - 1) :
                       /\ z <= Highest'
                       /\ cur'[q][State(IndexOf(z))] >= Pos(z) /\ acq'[q][Written(IndexOf(z))] >= Pos(z)
             /\ rpc'[q] = "guard" =>
                  /\ rd'[q].base = Cursor(q)' /\ rd'[q].base < rd'[q].pos /\ rd'[q].base < rd'[q].top
                  /\ rd'[q].top <= rd'[q].base + Capacity /\ rd'[q].top <= Highest'
                  /\ rd'[q].pos <= rd'[q].top + 1 /\ told'[q] = "Ok"
                  /\ Covers(cur'[q], rd'[q].top)
  <2>1. CASE \E r \in Receivers : ReceiverStep(r) /\ r = q
    <3>1. PICK r \in Receivers : ReceiverStep(r) /\ r = q
      BY <2>1
    <3>2. PICK d : d = rd'[r]
      OBVIOUS
    <3>3. /\ rpc'[r] = "scan" =>
               /\ d.base = Cursor(r)' /\ d.base < d.pos /\ d.pos <= d.top /\ d.top <= d.base + Capacity
               /\ d.pos = d.base + 1 => ~d.sd
               /\ \A z \in (d.base + 1) .. (d.pos - 1) :
                    /\ z <= Highest'
                    /\ cur'[r][State(IndexOf(z))] >= Pos(z) /\ acq'[r][Written(IndexOf(z))] >= Pos(z)
      BY <3>1, <3>2, ReaderActs
    <3>4. /\ rpc'[r] = "guard" =>
               /\ d.base = Cursor(r)' /\ d.base < d.pos /\ d.base < d.top
               /\ d.top <= d.base + Capacity /\ d.top <= Highest'
               /\ d.pos <= d.top + 1 /\ told'[r] = "Ok"
               /\ Covers(cur'[r], d.top)
      BY <3>1, <3>2, ReaderActs
    <3> QED
      BY <3>1, <3>2, <3>3, <3>4
  <2>2. CASE /\ rpc'[q] = rpc[q] /\ rd'[q] = rd[q] /\ told'[q] = told[q]
             /\ hist'[Consumed(q)] = hist[Consumed(q)]
    BY <1>3, <2>2
  <2> QED
    BY <2>1, <2>2, ReceiverCases
<1> QED
  BY <1>4 DEF ReaderSound

\* Only a scan changes a receiver's last answer.
LEMMA AnswerStep ==
  ASSUME TypeOK, IndInv, NEW r \in Receivers, ReceiverStep(r), told'[r] # told[r]
  PROVE  ScanSlot(r) /\ rpc'[r] # "scan"
<1>1. ScanSlot(r)
  BY DEF ReceiverStep, StartRecv, ReadItem, FinishGuard, DropReceiver
<1>2. PICK y, i : y = rd[r].pos /\ i = IndexOf(y)
  OBVIOUS
<1>3. PICK k \in 1 .. Last(State(i)) : ScanEnds(r, k)
  BY <1>1, <1>2, ScanCases
<1>4. rpc'[r] = "scan" => told'[r] = told[r]
  BY <1>3 DEF ScanEnds
<1> QED
  BY <1>1, <1>4

\* Disconnected is told only of a channel that is closed and drained, and it stays so.
LEMMA StaleDisconnectKept ==
  ASSUME TypeOK, IndInv, [Next]_vars
  PROVE  StaleDisconnect'
<1>1. ASSUME NEW q \in Receivers, told'[q] = "Disconnected", rpc'[q] # "dropped"
      PROVE  Closed' /\ Cursor(q)' = Highest'
  <2>1. rpc[q] # "dropped"
    BY <1>1, DroppedStays
  <2>2. CASE told[q] = "Disconnected"
    <3>1. Closed /\ Cursor(q) = Highest
      BY <2>1, <2>2 DEF IndInv, StaleDisconnect, Closed, Highest
    <3>2. Closed' /\ Highest' = Highest
      BY <3>1, ClosedStays
    <3>3. ~FinishGuard(q) /\ ~DropReceiver(q)
      <4>1. FinishGuard(q) => told[q] = "Ok"
        <5>1. PICK c : c = IF rpc[q] = "guard" THEN rd[q].top ELSE SHUTDOWN_OPEN
          OBVIOUS
        <5> QED
          BY <5>1, CommitFacts
      <4>2. DropReceiver(q) => rpc'[q] = "dropped"
        BY DEF DropReceiver, TypeOK, LocalsOK
      <4> QED
        BY <1>1, <2>2, <4>1, <4>2
    <3>4. Cursor(q)' = Cursor(q)
      BY <3>3, CommitOrStay
    <3> QED
      BY <3>1, <3>2, <3>4
  <2>3. CASE told[q] # "Disconnected"
    <3>1. PICK r \in Receivers : ReceiverStep(r) /\ r = q
      BY <1>1, <2>3, ReceiverCases
    <3>2. ScanSlot(r) /\ rpc'[r] # "scan"
      BY <1>1, <2>3, <3>1, AnswerStep
    <3>3. PICK base, d : base = rd[r].base /\ d = rd'[r]
      OBVIOUS
    <3>4. hist' = hist /\ (told'[r] = "Disconnected" /\ rpc'[r] # "scan" => Closed /\ Highest = Cursor(r))
      BY <3>2, <3>3, ScanKept
    <3>5. Closed /\ Highest = Cursor(q)
      BY <1>1, <3>1, <3>2, <3>4
    <3>6. Closed'
      BY <3>5, ClosedStays
    <3>7. Highest' = Highest /\ Cursor(q)' = Cursor(q)
      BY <3>4 DEF Highest
    <3> QED
      BY <3>5, <3>6, <3>7
  <2> QED
    BY <2>2, <2>3
<1> QED
  BY <1>1 DEF StaleDisconnect, Closed, Highest

Working == {"idle", "gate", "cas", "write", "publish"}
Closing == {"cload", "cscan", "cmark", "cstore"}

\* A sender works with its clone until it drops it; then it closes, if it was the
\* last (pub_mul.rs:98-103).
LEMMA PlaceStep ==
  ASSUME TypeOK, NEW s \in Senders, SenderStep(s)
  PROVE  \/ pc[s] \in Working /\ pc'[s] \in Working
         \/ pc[s] \in Closing /\ pc'[s] \in Closing \cup {"dropped"}
         \/ /\ DropSender(s) /\ pc[s] = "idle"
            /\ pc' = [pc EXCEPT ![s] = IF Newest(Refs).val = 1 THEN "cload" ELSE "dropped"]
<1>1. pc \in [Senders -> SenderPlaces]
  BY DEF TypeOK, LocalsOK
<1>2. CASE \E n \in Limits : StartClaim(s, n)
  BY <1>1, <1>2 DEF StartClaim, Go, Working
<1>3. CASE LoadConsumed(s)
  <2>1. pc[s] = "gate"
    BY <1>3 DEF LoadConsumed
  <2>2. UNCHANGED pc \/ pc' = [pc EXCEPT ![s] = "cas"] \/ pc' = [pc EXCEPT ![s] = "idle"]
    BY <1>3, SenderLoads
  <2> QED
    BY <1>1, <2>1, <2>2 DEF Working
<1>4. CASE CasClaim(s)
  BY <1>1, <1>4 DEF CasClaim, Go, Working
<1>5. CASE CasRetry(s)
  BY <1>1, <1>5 DEF CasRetry, Go, Working
<1>6. CASE FillSlot(s)
  BY <1>1, <1>6 DEF FillSlot, Working
<1>7. CASE StartPublish(s)
  BY <1>1, <1>7 DEF StartPublish, Go, Working
<1>8. CASE PublishSlot(s)
  BY <1>1, <1>8 DEF PublishSlot, Go, Working
<1>9. CASE DropSender(s)
  BY <1>1, <1>9 DEF DropSender, Go
<1>10. CASE CloseLoad(s)
  BY <1>1, <1>10 DEF CloseLoad, Go, Closing
<1>11. CASE CloseScan(s)
  BY <1>1, <1>11 DEF CloseScan, Go, Closing
<1>12. CASE CloseMark(s)
  BY <1>1, <1>12 DEF CloseMark, Go, Closing
<1>13. CASE CloseStore(s)
  BY <1>1, <1>13 DEF CloseStore, Go, Closing
<1> QED
  BY <1>2, <1>3, <1>4, <1>5, <1>6, <1>7, <1>8, <1>9, <1>10, <1>11, <1>12, <1>13 DEF SenderStep

\* Only the drop of a clone changes who stays.
LEMMA StayingStep ==
  ASSUME TypeOK, [Next]_vars
  PROVE  \/ \E s \in Senders : /\ DropSender(s) /\ pc[s] = "idle" /\ Staying' = Staying \ {s}
                               /\ s \in Staying
                               /\ pc' = [pc EXCEPT ![s] = IF Newest(Refs).val = 1 THEN "cload" ELSE "dropped"]
         \/ /\ Staying' = Staying /\ hist'[Refs] = hist[Refs]
            /\ \A u \in Senders : pc[u] = "dropped" => pc'[u] = "dropped"
            /\ \A u \in Senders : pc'[u] \in Closing => pc[u] \in Closing
<1>1. ASSUME NEW s \in Senders, SenderStep(s), ~DropSender(s)
      PROVE  /\ Staying' = Staying /\ hist'[Refs] = hist[Refs]
             /\ \A u \in Senders : pc[u] = "dropped" => pc'[u] = "dropped"
             /\ \A u \in Senders : pc'[u] \in Closing => pc[u] \in Closing
  <2>1. \/ pc[s] \in Working /\ pc'[s] \in Working
        \/ pc[s] \in Closing /\ pc'[s] \in Closing \cup {"dropped"}
    BY <1>1, PlaceStep
  <2>2. \A u \in Senders \ {s} : pc'[u] = pc[u]
    BY <1>1, SenderLocals
  <2>3. hist'[Refs] = hist[Refs]
    <3>1. Refs \in Locations
      BY DEF Locations
    <3> QED
      BY <1>1, <3>1, SenderHist DEF Claimed, Refs, Written, State
  <2>4. \A u \in Senders : pc'[u] \in Working <=> pc[u] \in Working
    BY <2>1, <2>2 DEF Working, Closing
  <2>5. /\ \A u \in Senders : pc[u] = "dropped" => pc'[u] = "dropped"
        /\ \A u \in Senders : pc'[u] \in Closing => pc[u] \in Closing
    BY <2>1, <2>2 DEF Working, Closing
  <2> QED
    BY <2>3, <2>4, <2>5 DEF Staying, Working
<1>2. ASSUME NEW r \in Receivers, ReceiverStep(r)
      PROVE  pc' = pc /\ hist'[Refs] = hist[Refs]
  <2>1. pc' = pc
    BY <1>2, ReceiverLocals
  <2>2. Refs \in Locations
    BY DEF Locations
  <2>3. hist'[Refs] = hist[Refs]
    BY <1>2, <2>2, ReceiverHist DEF Consumed, ReadBy, Refs
  <2> QED
    BY <2>1, <2>3
<1>3. ASSUME pc' = pc PROVE Staying' = Staying
  BY <1>3 DEF Staying
<1>4. CASE UNCHANGED vars
  BY <1>3, <1>4 DEF vars, memVars, senderVars
<1>5. ASSUME NEW s \in Senders, DropSender(s), SenderStep(s)
      PROVE  /\ pc[s] = "idle" /\ Staying' = Staying \ {s} /\ s \in Staying
             /\ pc' = [pc EXCEPT ![s] = IF Newest(Refs).val = 1 THEN "cload" ELSE "dropped"]
  <2>1. /\ pc[s] = "idle"
        /\ pc' = [pc EXCEPT ![s] = IF Newest(Refs).val = 1 THEN "cload" ELSE "dropped"]
    BY <1>5 DEF DropSender, Go
  <2>2. pc'[s] \notin Working /\ \A u \in Senders \ {s} : pc'[u] = pc[u]
    BY <2>1 DEF TypeOK, LocalsOK, Working
  <2>3. s \in Staying
    BY <2>1 DEF Staying
  <2>4. \A u \in Senders : u \in Staying' <=> u \in Staying /\ u # s
    BY <2>2 DEF Staying, Working
  <2>5. Staying' \subseteq Senders /\ Staying \subseteq Senders
    BY DEF Staying
  <2> QED
    BY <2>1, <2>3, <2>4, <2>5
<1>6. CASE \E s \in Senders : SenderStep(s)
  <2>1. PICK s \in Senders : SenderStep(s)
    BY <1>6
  <2> QED
    BY <1>1, <1>5, <2>1
<1>7. CASE \E r \in Receivers : ReceiverStep(r)
  BY <1>2, <1>3, <1>7
<1> QED
  BY <1>4, <1>6, <1>7 DEF Next, Terminated

\* The drop of a clone leaves one fewer; the count tells the last one.
LEMMA DropFacts ==
  ASSUME TypeOK, IndInv, NEW s \in Senders, s \in Staying, NEW n, n = Newest(Refs).val
  PROVE  /\ n \in Int /\ n = Cardinality(Staying) /\ Cardinality(Staying \ {s}) = n - 1
         /\ n = 1 <=> Staying = {s}
<1>1. n = Cardinality(Staying)
  BY DEF IndInv, RefsSound
<1>2. IsFiniteSet(Staying)
  <2>1. Staying \subseteq Senders
    BY DEF Staying
  <2> QED
    BY <2>1, SendersAssumption, FS_Subset
<1>3. /\ IsFiniteSet(Staying \ {s})
      /\ Cardinality(Staying \ {s}) = Cardinality(Staying) - 1
  BY <1>2, FS_RemoveElement
<1>4. Cardinality(Staying) \in Nat /\ Cardinality(Staying \ {s}) \in Nat
  BY <1>2, <1>3, FS_CardinalityType
<1>5. Cardinality(Staying \ {s}) = 0 <=> Staying \ {s} = {}
  BY <1>3, FS_EmptySet
<1>6. Staying \ {s} = {} <=> Staying = {s}
  OBVIOUS
<1>7. Cardinality(Staying) = 1 <=> Cardinality(Staying \ {s}) = 0
  BY <1>3, <1>4
<1> QED
  BY <1>1, <1>3, <1>4, <1>5, <1>6, <1>7

\* The words whose newest message someone who stays must know.
KeptWords == {Claimed} \cup {State(i) : i \in Slots}

\* A word that a step changes is known to the one who changed it, or nobody stays.
LEMMA ChangedWords ==
  ASSUME TypeOK, IndInv, [Next]_vars, NEW l \in KeptWords, hist'[l] # hist[l]
  PROVE  \/ \E s \in Senders : s \in Staying' /\ cur'[s][l] = Len(hist'[l])
         \/ Staying = {}
<1>1. l \in Locations /\ l # Refs
  BY DEF KeptWords, Locations, Claimed, Refs, State
<1>2. ~UNCHANGED vars
  BY DEF vars, memVars
<1>3. ASSUME NEW r \in Receivers, ReceiverStep(r) PROVE FALSE
  BY <1>1, <1>3, ReceiverHist DEF KeptWords, Claimed, State, Consumed, ReadBy
<1>4. PICK s \in Senders : SenderStep(s)
  BY <1>2, <1>3 DEF Next, Terminated
<1>5. \/ l = Claimed /\ (CasClaim(s) \/ CloseStore(s))
      \/ l = State(IndexOf(own[s].nxt)) /\ PublishSlot(s)
      \/ l = State(IndexOf(cl[s].pos)) /\ CloseMark(s)
  <2>1. l # Written(IndexOf(own[s].nxt))
    BY DEF KeptWords, Claimed, State, Written
  <2> QED
    BY <1>1, <1>4, <2>1, SenderHist
<1>6. ASSUME pc[s] \in {"cmark", "cstore"} PROVE Staying = {}
  <2>1. \A u \in Senders \ {s} : pc[u] = "dropped"
    BY <1>6 DEF IndInv, CloserSound
  <2> QED
    BY <1>6, <2>1 DEF Staying
<1>7. CASE CloseStore(s) \/ CloseMark(s)
  BY <1>6, <1>7 DEF CloseStore, CloseMark
<1>8. CASE l = Claimed /\ CasClaim(s)
  <2>1. PICK hi : hi = att[s].last + MinOf(AvailableSlots(att[s].last, att[s].gmin), att[s].want)
    OBVIOUS
  <2>2. \E w \in Views : Appends(hist, hist', Claimed, [seq |-> hi, down |-> FALSE], w)
    BY <1>8, <2>1, CasEffect
  <2>3. cur'[s][Claimed] = Last(Claimed) + 1
    BY <1>8, <2>1, CasEffect
  <2>4. Len(hist'[Claimed]) = Last(Claimed) + 1
    BY <2>2 DEF Appends
  <2>5. pc'[s] = "write"
    BY <1>8 DEF CasClaim, Go, TypeOK, LocalsOK
  <2> QED
    BY <1>8, <2>3, <2>4, <2>5 DEF Staying
<1>9. CASE l = State(IndexOf(own[s].nxt)) /\ PublishSlot(s)
  <2>1. PICK x : x = own[s].nxt /\ l = State(IndexOf(x))
    BY <1>9
  <2>2. Appends(hist, hist', l, [flag |-> AvailableFlag(x), down |-> FALSE],
                [rel[s] EXCEPT ![l] = Last(l) + 1])
    BY <1>9, <2>1, PublishEffect
  <2>3. cur' = [cur EXCEPT ![s] = [@ EXCEPT ![l] = Last(l) + 1]]
    BY <1>9 DEF PublishSlot, Store
  <2>4. Len(hist'[l]) = Last(l) + 1
    BY <2>2 DEF Appends
  <2>5. cur'[s][l] = Last(l) + 1
    <3>1. cur \in [Threads -> Views] /\ s \in Threads
      BY DEF TypeOK, MemoryOK, Threads
    <3>2. cur[s] \in [Locations -> Nat \ {0}]
      BY <3>1 DEF Views
    <3>3. cur'[s] = [cur[s] EXCEPT ![l] = Last(l) + 1]
      BY <2>3, <3>1
    <3> QED
      BY <1>1, <3>2, <3>3
  <2>6. pc'[s] \in {"publish", "idle"}
    BY <1>9 DEF PublishSlot, Go, TypeOK, LocalsOK
  <2> QED
    BY <2>4, <2>5, <2>6 DEF Staying
<1> QED
  BY <1>5, <1>7, <1>8, <1>9

\* The count of the Arc, and who knows the newest words.
LEMMA RefsKept ==
  ASSUME TypeOK, IndInv, [Next]_vars
  PROVE  RefsSound'
<1>1. MemoryOK /\ MemoryOK' /\ Grows
  BY MemoryKept DEF TypeOK, IndInv
<1>2. /\ Newest(Refs).val = Cardinality(Staying)
      /\ Staying # {} => \A l \in KeptWords :
           Newest(Refs).view[l] = Last(l) \/ \E u \in Staying : Knows(u, l)
  BY DEF IndInv, RefsSound, KeptWords
<1>3. \A l \in KeptWords : l \in Locations /\ l # Refs
  BY DEF KeptWords, Locations, Claimed, Refs, State
<1>4. Staying \subseteq Threads
  BY DEF Staying, Threads
<1>5. CASE /\ Staying' = Staying /\ hist'[Refs] = hist[Refs]
  <2>1. Newest(Refs)'.val = Cardinality(Staying')
    BY <1>2, <1>5
  <2>2. ASSUME Staying' # {}, NEW l \in KeptWords
        PROVE  Newest(Refs)'.view[l] = Last(l)' \/ \E u \in Staying' : Knows(u, l)'
    <3>1. CASE hist'[l] = hist[l]
      <4>1. CASE Newest(Refs).view[l] = Last(l)
        BY <1>5, <3>1, <4>1
      <4>2. CASE \E u \in Staying : Knows(u, l)
        <5>1. PICK u \in Staying : Knows(u, l)
          BY <4>2
        <5>2. cur'[u][l] = Last(l)'
          BY <1>1, <1>3, <1>4, <2>2, <3>1, <5>1, NewestStaysKnown
        <5> QED
          BY <1>5, <5>1, <5>2 DEF Knows
      <4> QED
        BY <1>2, <1>5, <2>2, <4>1, <4>2
    <3>2. CASE hist'[l] # hist[l]
      <4>1. PICK s \in Senders : s \in Staying' /\ cur'[s][l] = Len(hist'[l])
        BY <1>5, <2>2, <3>2, ChangedWords
      <4> QED
        BY <4>1 DEF Knows
    <3> QED
      BY <3>1, <3>2
  <2> QED
    BY <2>1, <2>2 DEF RefsSound, KeptWords
<1>6. ASSUME NEW s \in Senders, DropSender(s), Staying' = Staying \ {s}, s \in Staying
      PROVE  RefsSound'
  <2>1. PICK n : n = Newest(Refs).val
    OBVIOUS
  <2>2. Cardinality(Staying \ {s}) = n - 1
    <3>1. s \in Staying
      BY <1>6
    <3> QED
      BY <2>1, <3>1, DropFacts
  <2>3. PICK w \in Views :
          /\ Appends(hist, hist', Refs, n - 1, w)
          /\ \A m \in Locations : w[m] >= Newest(Refs).view[m] /\ w[m] >= cur'[s][m]
    BY <1>6, <2>1, DropEffect
  <2>4. /\ \A m \in Locations : cur'[s][m] >= cur[s][m]
        /\ \A u \in Threads \ {s} : cur'[u] = cur[u]
    BY <1>6, <2>1, DropEffect
  <2>5. /\ Newest(Refs)'.val = n - 1 /\ Newest(Refs)'.view = w
        /\ \A m \in Locations \ {Refs} : hist'[m] = hist[m]
    BY <2>3 DEF Appends
  <2>6. ASSUME Staying' # {}, NEW l \in KeptWords
        PROVE  Newest(Refs)'.view[l] = Last(l)' \/ \E u \in Staying' : Knows(u, l)'
    <3>1. l \in Locations /\ hist'[l] = hist[l] /\ Last(l) \in Int
      <4>1. l \in Locations /\ hist'[l] = hist[l]
        BY <1>3, <2>5, <2>6
      <4> QED
        BY <1>1, <4>1, MemoryTypes
    <3>2. w[l] \in Int /\ w[l] <= Last(l)
      <4>1. Refs \in Locations
        BY DEF Locations
      <4>2. \A m \in Locations : Newest(Refs)'.view[m] <= Last(m)'
        <5>1. Last(Refs)' \in Nat /\ Last(Refs)' >= 1
          <6>1. Last(Refs) \in Nat
            BY <1>1, <4>1, MemoryTypes
          <6>2. Last(Refs)' = Last(Refs) + 1
            BY <2>3 DEF Appends
          <6> QED
            BY <6>1, <6>2
        <5>2. ASSUME NEW l0 \in Locations, l0 = Refs, NEW k \in 1 .. Last(l0)', NEW m \in Locations
              PROVE  hist'[l0][k].view[m] <= Last(m)'
          BY <1>1 DEF MemoryOK
        <5>3. Last(Refs)' \in 1 .. Last(Refs)'
          BY <5>1
        <5> QED
          BY <4>1, <5>2, <5>3
      <4>3. w[l] \in Int
        BY <2>3, <3>1 DEF Views
      <4> QED
        BY <2>5, <3>1, <4>2, <4>3
    <3>3. CASE Newest(Refs).view[l] = Last(l)
      BY <2>3, <2>5, <3>1, <3>2, <3>3
    <3>4. CASE Knows(s, l)
      <4>1. w[l] >= cur'[s][l] /\ cur'[s][l] >= cur[s][l] /\ cur[s][l] = Last(l)
        BY <2>3, <2>4, <3>1, <3>4 DEF Knows
      <4>2. cur'[s][l] \in Int
        BY <1>1, <3>1 DEF MemoryOK, Views, Threads
      <4> QED
        BY <2>5, <3>1, <3>2, <4>1, <4>2
    <3>5. CASE \E u \in Staying \ {s} : Knows(u, l)
      BY <1>4, <1>6, <2>4, <3>1, <3>5 DEF Knows
    <3> QED
      BY <1>2, <1>6, <2>6, <3>3, <3>4, <3>5
  <2> QED
    BY <1>6, <2>2, <2>5, <2>6 DEF RefsSound, KeptWords
<1> QED
  BY <1>5, <1>6, StayingStep DEF TypeOK

\* The last sender takes over what the others knew (the acquire fence of Arc::drop).
LEMMA LastDrop ==
  ASSUME TypeOK, IndInv, [Next]_vars, NEW s \in Senders, DropSender(s), Newest(Refs).val = 1
  PROVE  /\ \A u \in Senders \ {s} : pc'[u] = "dropped"
         /\ \A l \in KeptWords : cur'[s][l] = Len(hist'[l])
<1>1. PICK n : n = Newest(Refs).val
  OBVIOUS
<1>2. pc[s] = "idle" /\ s \in Staying
  BY DEF DropSender, Staying
<1>3. Staying = {s}
  BY <1>1, <1>2, DropFacts
<1>4. \A l \in KeptWords : l \in Locations /\ l # Refs
  BY DEF KeptWords, Locations, Claimed, Refs, State
<1>5. MemoryOK /\ MemoryOK' /\ s \in Threads
  BY MemoryKept DEF TypeOK, Threads
<1>6. \A u \in Senders \ {s} : pc'[u] = "dropped"
  <2>1. pc \in [Senders -> SenderPlaces]
    BY DEF TypeOK, LocalsOK
  <2>2. ASSUME NEW u \in Senders \ {s} PROVE pc[u] = "dropped"
    <3>1. pc[u] \notin Working
      BY <1>3 DEF Staying, Working
    <3>2. pc[u] \notin Closing
      BY <1>2, <2>2 DEF IndInv, CloserSound, Closing
    <3> QED
      BY <2>1, <3>1, <3>2 DEF SenderPlaces, Working, Closing
  <2>3. \A u \in Senders \ {s} : pc'[u] = pc[u]
    BY DEF DropSender, Go, TypeOK, LocalsOK
  <2> QED
    BY <2>2, <2>3
<1>7. ASSUME NEW l \in KeptWords PROVE cur'[s][l] = Len(hist'[l])
  <2>1. /\ \A m \in Locations : cur'[s][m] >= Newest(Refs).view[m]
        /\ \A m \in Locations : cur'[s][m] >= cur[s][m]
    BY <1>1, DropEffect
  <2>2. PICK w \in Views : Appends(hist, hist', Refs, n - 1, w)
    BY <1>1, DropEffect
  <2>3. l \in Locations /\ hist'[l] = hist[l]
    BY <1>4, <1>7, <2>2 DEF Appends
  <2>4. Newest(Refs).view[l] = Last(l) \/ cur[s][l] = Last(l)
    BY <1>3 DEF IndInv, RefsSound, KeptWords, Knows
  <2>5. cur'[s][l] >= Last(l)
    BY <2>1, <2>3, <2>4
  <2>6. cur'[s][l] \in Int /\ cur'[s][l] <= Last(l)'
    BY <1>5, <2>3 DEF MemoryOK, Views
  <2>7. Last(l) \in Int
    BY <1>5, <2>3, MemoryTypes
  <2> QED
    BY <2>3, <2>5, <2>6, <2>7
<1> QED
  BY <1>6, <1>7

\* What a step of close() knows and where it is (pub_mul.rs:57-91).
LEMMA CloseStep ==
  ASSUME TypeOK, IndInv, [Next]_vars, NEW s \in Senders, SenderStep(s), pc[s] \in Closing,
         pc'[s] \in Closing, NEW c, c = cl'[s]
  PROVE  /\ pc'[s] # "cload" /\ c.val = Highest'
         /\ pc'[s] = "cscan" => /\ Highest' >= 0 /\ c.pos \in WindowStart(Highest') .. Highest'
                                /\ \A i \in Slots : cur'[s][State(i)] = Len(hist'[State(i)])
         /\ pc'[s] = "cmark" => c.pos = Highest' + 1
<1>1. Highest \in Int /\ -1 <= Highest
  BY HighestIsBound
<1>2. MemoryOK /\ MemoryOK' /\ Grows /\ s \in Threads /\ pc \in [Senders -> SenderPlaces]
      /\ cl \in [Senders -> [val : Int, pos : Nat]]
  BY MemoryKept DEF TypeOK, LocalsOK, Threads
<1>3. ASSUME hist' = hist, \A i \in Slots : Knows(s, State(i))
      PROVE  \A i \in Slots : cur'[s][State(i)] = Len(hist'[State(i)])
  <2>1. ASSUME NEW i \in Slots PROVE cur'[s][State(i)] = Last(State(i))'
    <3>1. State(i) \in Locations
      BY DEF Locations
    <3> QED
      BY <1>2, <1>3, <3>1, NewestStaysKnown
  <2> QED
    BY <2>1
<1>4. CASE CloseLoad(s)
  <2>1. PICK k \in Readable(s, Claimed) :
          LET val == hist[Claimed][k].val.seq IN
          /\ pc[s] = "cload"
          /\ cl' = [cl EXCEPT ![s] = [val |-> val, pos |-> IF val < 0 THEN 0 ELSE WindowStart(val)]]
          /\ pc' = [pc EXCEPT ![s] = IF val < 0 THEN "cmark" ELSE "cscan"]
          /\ hist' = hist
    BY <1>4 DEF CloseLoad, Go
  <2>2. k = Last(Claimed)
    <3>1. cur[s][Claimed] = Last(Claimed)
      BY <2>1 DEF IndInv, CloserSound, Knows
    <3>2. Last(Claimed) \in Int
      BY <1>2, MemoryTypes DEF Locations
    <3> QED
      BY <2>1, <3>1, <3>2 DEF Readable
  <2>3. hist[Claimed][k].val.seq = Highest /\ Highest' = Highest
    BY <2>1, <2>2 DEF Highest
  <2>4. /\ c.val = Highest /\ c.pos = IF Highest < 0 THEN 0 ELSE WindowStart(Highest)
        /\ pc'[s] = IF Highest < 0 THEN "cmark" ELSE "cscan"
    <3>1. c = [val |-> Highest, pos |-> IF Highest < 0 THEN 0 ELSE WindowStart(Highest)]
      BY <1>2, <2>1, <2>3
    <3> QED
      BY <1>2, <2>1, <2>3, <3>1
  <2>5. \A i \in Slots : Knows(s, State(i))
    BY <2>1 DEF IndInv, CloserSound
  <2>6. CASE Highest < 0
    <3>1. Highest + 1 = 0
      BY <1>1, <2>6
    <3> QED
      BY <2>3, <2>4, <2>6, <3>1
  <2>7. CASE ~(Highest < 0)
    <3>1. WindowStart(Highest) \in WindowStart(Highest) .. Highest /\ Highest >= 0
      BY <1>1, <2>7, CapacityAssumption DEF WindowStart, MaxOf
    <3> QED
      BY <1>3, <2>1, <2>3, <2>4, <2>5, <2>7, <3>1
  <2> QED
    BY <2>6, <2>7
<1>5. CASE CloseScan(s)
  <2>1. PICK y, i : y = cl[s].pos /\ i = IndexOf(y)
    OBVIOUS
  <2>2. PICK k \in Readable(s, State(i)) :
          LET available == hist[State(i)][k].val.flag = AvailableFlag(y)
              more == available /\ y < cl[s].val
          IN /\ pc[s] = "cscan"
             /\ cl' = [cl EXCEPT ![s].pos = IF available THEN y + 1 ELSE y]
             /\ pc' = [pc EXCEPT ![s] = IF more THEN "cscan" ELSE "cmark"]
             /\ hist' = hist
    BY <1>5, <2>1 DEF CloseScan, Go
  <2>3. /\ \A j \in Slots : Knows(s, State(j))
        /\ cl[s].val = Highest /\ Highest >= 0 /\ y \in WindowStart(Highest) .. Highest
    BY <2>1, <2>2 DEF IndInv, CloserSound
  <2>4. y \in (Highest - Capacity + 1) .. Highest /\ y >= 0
    BY <1>1, <2>3, CapacityAssumption DEF WindowStart, MaxOf
  <2>5. i \in Slots /\ Newest(State(i)).val.flag = AvailableFlag(y)
    BY <2>1, <2>2, <2>4, AllPublished
  <2>6. k = Last(State(i))
    <3>1. cur[s][State(i)] = Last(State(i))
      BY <2>3, <2>5 DEF Knows
    <3>2. Last(State(i)) \in Int
      BY <1>2, <2>5, MemoryTypes DEF Locations
    <3> QED
      BY <2>2, <3>1, <3>2 DEF Readable
  <2>7. /\ cl' = [cl EXCEPT ![s].pos = y + 1]
        /\ pc' = [pc EXCEPT ![s] = IF y < Highest THEN "cscan" ELSE "cmark"]
        /\ hist' = hist
    BY <2>2, <2>3, <2>5, <2>6
  <2>8. Highest' = Highest
    BY <2>7 DEF Highest
  <2>9. c.val = Highest /\ c.pos = y + 1
    BY <1>2, <2>3, <2>7
  <2>10. pc'[s] = IF y < Highest THEN "cscan" ELSE "cmark"
    BY <1>2, <2>7
  <2>11. y \in Int /\ WindowStart(Highest) \in Int
    BY <1>1, <2>4, CapacityAssumption DEF WindowStart, MaxOf
  <2>12. \A j \in Slots : cur'[s][State(j)] = Len(hist'[State(j)])
    BY <1>3, <2>3, <2>7
  <2>13. CASE y < Highest
    <3>1. y + 1 \in WindowStart(Highest) .. Highest
      BY <1>1, <2>3, <2>11, <2>13
    <3> QED
      BY <2>3, <2>8, <2>9, <2>10, <2>12, <2>13, <3>1
  <2>14. CASE ~(y < Highest)
    <3>1. y = Highest
      BY <1>1, <2>3, <2>11, <2>14
    <3> QED
      BY <2>8, <2>9, <2>10, <2>14, <3>1
  <2> QED
    BY <2>13, <2>14
<1>6. CASE CloseMark(s)
  <2>1. pc[s] = "cmark" /\ pc'[s] = "cstore" /\ cl' = cl
    BY <1>2, <1>6 DEF CloseMark, Go
  <2>2. hist'[Claimed] = hist[Claimed]
    <3>1. Claimed \in Locations
      BY DEF Locations
    <3>2. ~CasClaim(s) /\ ~CloseStore(s)
      BY <2>1 DEF CasClaim, CloseStore
    <3> QED
      BY <3>1, <3>2, SenderHist DEF Claimed, Refs, Written, State
  <2>3. Highest' = Highest /\ c.val = Highest
    BY <2>1, <2>2 DEF IndInv, CloserSound, Highest
  <2> QED
    BY <2>1, <2>3
<1>7. CloseLoad(s) \/ CloseScan(s) \/ CloseMark(s)
  <2>1. ~CloseStore(s)
    <3>1. CloseStore(s) => pc'[s] = "dropped"
      BY <1>2 DEF CloseStore, Go
    <3> QED
      BY <3>1 DEF Closing
  <2>2. /\ \A n \in Limits : ~StartClaim(s, n)
        /\ ~LoadConsumed(s) /\ ~CasClaim(s) /\ ~CasRetry(s)
        /\ ~FillSlot(s) /\ ~StartPublish(s) /\ ~PublishSlot(s) /\ ~DropSender(s)
    BY DEF Closing, StartClaim, LoadConsumed, CasClaim, CasRetry, FillSlot, StartPublish,
           PublishSlot, DropSender
  <2> QED
    BY <2>1, <2>2 DEF SenderStep
<1> QED
  BY <1>4, <1>5, <1>6, <1>7

\* The close of the last sender finds everything published, whatever it may read.
LEMMA CloserKept ==
  ASSUME TypeOK, IndInv, [Next]_vars
  PROVE  CloserSound'
<1>1. MemoryOK /\ MemoryOK' /\ Grows /\ pc \in [Senders -> SenderPlaces]
  BY MemoryKept DEF TypeOK, LocalsOK, IndInv
<1>2. /\ Claimed \in KeptWords /\ \A i \in Slots : State(i) \in KeptWords
      /\ \A l \in KeptWords : l \in Locations
  BY DEF KeptWords, Locations
<1>3. ASSUME NEW q \in Senders, pc'[q] \in Closing
      PROVE  /\ \A u \in Senders \ {q} : pc'[u] = "dropped"
             /\ pc'[q] = "cload" => cur'[q][Claimed] = Len(hist'[Claimed])
             /\ pc'[q] \in {"cload", "cscan"} => \A i \in Slots : cur'[q][State(i)] = Len(hist'[State(i)])
             /\ pc'[q] # "cload" => cl'[q].val = Highest'
             /\ pc'[q] = "cscan" => Highest' >= 0 /\ cl'[q].pos \in WindowStart(Highest') .. Highest'
             /\ pc'[q] = "cmark" => cl'[q].pos = Highest' + 1
  <2>1. CASE \E s \in Senders : /\ DropSender(s) /\ pc[s] = "idle"
                                /\ pc' = [pc EXCEPT ![s] = IF Newest(Refs).val = 1 THEN "cload" ELSE "dropped"]
    <3>1. PICK s \in Senders : /\ DropSender(s) /\ pc[s] = "idle"
                               /\ pc' = [pc EXCEPT ![s] = IF Newest(Refs).val = 1 THEN "cload" ELSE "dropped"]
      BY <2>1
    <3>2. q = s
      <4>1. ASSUME q # s PROVE FALSE
        <5>1. pc[q] \in Closing
          BY <1>1, <1>3, <3>1, <4>1
        <5>2. pc[s] = "dropped"
          BY <4>1, <5>1 DEF IndInv, CloserSound, Closing
        <5> QED
          BY <3>1, <5>2
      <4> QED
        BY <4>1
    <3>3. Newest(Refs).val = 1 /\ pc'[q] = "cload"
      BY <1>1, <1>3, <3>1, <3>2 DEF Closing
    <3>4. /\ \A u \in Senders \ {s} : pc'[u] = "dropped"
          /\ \A l \in KeptWords : cur'[s][l] = Len(hist'[l])
      BY <3>1, <3>3, LastDrop
    <3> QED
      BY <1>2, <3>2, <3>3, <3>4
  <2>2. CASE /\ \A u \in Senders : pc[u] = "dropped" => pc'[u] = "dropped"
             /\ \A u \in Senders : pc'[u] \in Closing => pc[u] \in Closing
    <3>1. pc[q] \in Closing
      BY <1>3, <2>2
    <3>2. \A u \in Senders \ {q} : pc[u] = "dropped" /\ pc'[u] = "dropped"
      BY <2>2, <3>1 DEF IndInv, CloserSound, Closing
    <3>3. CASE \E s \in Senders : SenderStep(s)
      <4>1. PICK s \in Senders : SenderStep(s)
        BY <3>3
      <4>2. s = q
        <5>1. pc[s] # "dropped"
          BY <4>1, PlaceStep DEF Working, Closing
        <5> QED
          BY <3>2, <5>1
      <4>3. PICK c : c = cl'[s]
        OBVIOUS
      <4>4. /\ pc'[s] # "cload" /\ c.val = Highest'
            /\ pc'[s] = "cscan" => /\ Highest' >= 0 /\ c.pos \in WindowStart(Highest') .. Highest'
                                   /\ \A i \in Slots : cur'[s][State(i)] = Len(hist'[State(i)])
            /\ pc'[s] = "cmark" => c.pos = Highest' + 1
        BY <1>3, <3>1, <4>1, <4>2, <4>3, CloseStep
      <4> QED
        BY <1>3, <3>2, <4>2, <4>3, <4>4
    <3>4. CASE ~ \E s \in Senders : SenderStep(s)
      <4>1. /\ pc' = pc /\ cl' = cl
            /\ \A l \in KeptWords : hist'[l] = hist[l]
        <5>1. CASE UNCHANGED vars
          BY <5>1 DEF vars, memVars, senderVars
        <5>2. CASE \E r \in Receivers : ReceiverStep(r)
          <6>1. PICK r \in Receivers : ReceiverStep(r)
            BY <5>2
          <6>2. pc' = pc /\ cl' = cl
            BY <6>1, ReceiverLocals
          <6>3. \A l \in KeptWords : hist'[l] = hist[l]
            BY <1>2, <6>1, ReceiverHist DEF KeptWords, Claimed, State, Consumed, ReadBy
          <6> QED
            BY <6>2, <6>3
        <5> QED
          BY <3>4, <5>1, <5>2 DEF Next, Terminated
      <4>2. Highest' = Highest
        BY <1>2, <4>1 DEF Highest
      <4>3. ASSUME NEW l \in KeptWords, Knows(q, l) PROVE cur'[q][l] = Len(hist'[l])
        <5>1. q \in Threads /\ l \in Locations /\ hist'[l] = hist[l]
          BY <1>2, <4>1 DEF Threads
        <5>2. cur'[q][l] = Last(l)'
          BY <1>1, <4>3, <5>1, NewestStaysKnown
        <5> QED
          BY <5>2
      <4>4. /\ pc[q] = "cload" => Knows(q, Claimed)
            /\ pc[q] \in {"cload", "cscan"} => \A i \in Slots : Knows(q, State(i))
            /\ pc[q] # "cload" => cl[q].val = Highest
            /\ pc[q] = "cscan" => Highest >= 0 /\ cl[q].pos \in WindowStart(Highest) .. Highest
            /\ pc[q] = "cmark" => cl[q].pos = Highest + 1
        BY <3>1 DEF IndInv, CloserSound, Closing
      <4>5. /\ pc[q] = "cload" => cur'[q][Claimed] = Len(hist'[Claimed])
            /\ pc[q] \in {"cload", "cscan"} => \A i \in Slots : cur'[q][State(i)] = Len(hist'[State(i)])
        BY <1>2, <4>3, <4>4
      <4> QED
        BY <3>2, <4>1, <4>2, <4>4, <4>5
    <3> QED
      BY <3>3, <3>4
  <2> QED
    BY <2>1, <2>2, StayingStep
<1> QED
  BY <1>3 DEF CloserSound, Closing, Knows

-------------------------------------------------------------------------------
(* The start. *)

\* What the words say when the channel is built.
LEMMA InitialValues ==
  ASSUME NEW i \in Slots, NEW r \in Receivers
  PROVE  /\ Initially(Claimed) = [seq |-> -1, down |-> FALSE]
         /\ Initially(Refs) = Cardinality(Senders)
         /\ Initially(State(i)) = [flag |-> EmptyFlag, down |-> FALSE]
         /\ Initially(Consumed(r)) = -1
         /\ Initially(Written(i)) = -1 /\ Initially(ReadBy(i, r)) = -1
<1>1. Initially(Claimed) = [seq |-> -1, down |-> FALSE]
  BY DEF Initially, State, Claimed, Refs
<1>2. Initially(Refs) = Cardinality(Senders)
  BY DistinctLocations DEF Initially, Claimed, Refs
<1>3. Initially(State(i)) = [flag |-> EmptyFlag, down |-> FALSE]
  BY DEF Initially, State, Claimed, Refs
<1>4. Initially(Consumed(r)) = -1
  BY DEF Initially, State, Claimed, Refs, Consumed
<1>5. Initially(Written(i)) = -1
  BY DEF Initially, State, Claimed, Refs, Written
<1>6. Initially(ReadBy(i, r)) = -1
  BY DEF Initially, State, Claimed, Refs, ReadBy
<1> QED
  BY <1>1, <1>2, <1>3, <1>4, <1>5, <1>6

\* One message everywhere, which everybody knows.
LEMMA InitialMemory ==
  ASSUME Init, NEW start, start = [l \in Locations |-> 1]
  PROVE  /\ MemoryOK /\ start \in Views
         /\ \A l \in Locations : /\ Last(l) = 1 /\ start[l] = 1
                                 /\ hist[l][1].val = Initially(l) /\ hist[l][1].view = start
         /\ \A t \in Threads : cur[t] = start /\ acq[t] = start /\ rel[t] = start
<1>1. start \in Views /\ \A l \in Locations : start[l] = 1
  BY DEF Views
<1>2. ASSUME NEW l \in Locations PROVE Initially(l) \in ValuesOf(l)
  <2>1. CASE l = Claimed
    <3>1. Initially(l) = [seq |-> -1, down |-> FALSE]
      BY <2>1 DEF Initially, State, Claimed, Refs
    <3> QED
      BY <2>1, <3>1 DEF ValuesOf
  <2>2. CASE \E i \in Slots : l = State(i)
    <3>1. EmptyFlag \in Flags
      BY LapsAssumption DEF EmptyFlag, Flags
    <3>2. Initially(l) = [flag |-> EmptyFlag, down |-> FALSE]
      BY <2>2 DEF Initially, State, Claimed, Refs
    <3>3. ValuesOf(l) = [flag : Flags, down : BOOLEAN]
      <4>1. l # Claimed
        BY <2>2 DEF State, Claimed
      <4>2. l \in {State(i) : i \in Slots}
        BY <2>2
      <4> QED
        BY <4>1, <4>2 DEF ValuesOf
    <3> QED
      BY <3>1, <3>2, <3>3
  <2>3. CASE l # Claimed /\ ~ \E i \in Slots : l = State(i)
    <3>1. Cardinality(Senders) \in Int
      BY SendersAssumption, FS_CardinalityType
    <3>2. Initially(l) = IF l = Refs THEN Cardinality(Senders) ELSE -1
      BY <2>3 DEF Initially
    <3>3. ValuesOf(l) = Int
      BY <2>3 DEF ValuesOf
    <3> QED
      BY <3>1, <3>2, <3>3
  <2> QED
    BY <2>1, <2>2, <2>3
<1>3. hist = [l \in Locations |-> <<[val |-> Initially(l), view |-> start]>>]
  BY DEF Init
<1>4. ASSUME NEW l \in Locations
      PROVE  /\ hist[l] \in Seq([val : ValuesOf(l), view : Views]) /\ Last(l) = 1
             /\ hist[l][1].val = Initially(l) /\ hist[l][1].view = start
  <2>1. hist[l] = <<[val |-> Initially(l), view |-> start]>>
    BY <1>3
  <2>2. PICK m : m = [val |-> Initially(l), view |-> start]
    OBVIOUS
  <2>3. m \in [val : ValuesOf(l), view : Views] /\ m.val = Initially(l) /\ m.view = start
    BY <1>1, <1>2, <2>2
  <2>4. hist[l] = <<m>>
    BY <2>1, <2>2
  <2> QED
    BY <2>3, <2>4
<1>5. ASSUME NEW t \in Threads PROVE cur[t] = start /\ acq[t] = start /\ rel[t] = start
  BY DEF Init
<1>6. /\ cur = [t \in Threads |-> start] /\ acq = [t \in Threads |-> start]
      /\ rel = [t \in Threads |-> start]
  BY DEF Init
<1>7. cur \in [Threads -> Views] /\ acq \in [Threads -> Views] /\ rel \in [Threads -> Views]
  BY <1>1, <1>6
<1>8. ASSUME NEW l \in Locations, NEW k \in 1 .. Last(l), NEW m \in Locations
      PROVE  hist[l][k].view[m] <= Last(m)
  <2>1. Last(l) = 1 /\ hist[l][1].view = start /\ Last(m) = 1
    BY <1>4
  <2>2. k = 1
    BY <2>1
  <2> QED
    BY <1>1, <2>1, <2>2
<1>9. ASSUME NEW t \in Threads, NEW l \in Locations
      PROVE  cur[t][l] <= Last(l) /\ acq[t][l] <= Last(l) /\ rel[t][l] <= cur[t][l]
  <2>1. Last(l) = 1
    BY <1>4
  <2> QED
    BY <1>1, <1>5, <2>1
<1>10. DOMAIN hist = Locations /\ \A l \in Locations : Last(l) >= 1
  <2>1. DOMAIN hist = Locations
    BY <1>3
  <2>2. ASSUME NEW l \in Locations PROVE Last(l) >= 1
    <3>1. Last(l) = 1
      BY <1>4
    <3> QED
      BY <3>1
  <2> QED
    BY <2>1, <2>2
<1> QED
  BY <1>1, <1>4, <1>5, <1>7, <1>8, <1>9, <1>10 DEF MemoryOK

\* The channel starts as the types and the invariant say.
LEMMA InitSound ==
  ASSUME Init
  PROVE  TypeOK /\ IndInv
<1>1. PICK start : start = [l \in Locations |-> 1]
  OBVIOUS
<1>2. /\ MemoryOK /\ start \in Views
      /\ \A l \in Locations : /\ Last(l) = 1 /\ start[l] = 1
                              /\ hist[l][1].val = Initially(l) /\ hist[l][1].view = start
      /\ \A t \in Threads : cur[t] = start /\ acq[t] = start /\ rel[t] = start
  BY <1>1, InitialMemory
<1>3. /\ pc = [s \in Senders |-> "idle"] /\ att = [s \in Senders |-> NoAttempt]
      /\ own = [s \in Senders |-> NoClaim] /\ cl = [s \in Senders |-> NoClose]
      /\ rpc = [r \in Receivers |-> "idle"] /\ rd = [r \in Receivers |-> NoScan]
      /\ told = [r \in Receivers |-> "none"]
  BY DEF Init
<1>4. LocalsOK
  <2>1. 0 \in Receivers
    BY ThreadsAssumption DEF Receivers
  <2>2. NoAttempt \in [want : Nat, last : Int, gi : Receivers, gmin : Int]
    BY <2>1, OpenAssumption DEF NoAttempt, Attempt
  <2>3. /\ NoClaim \in [lo : Int, hi : Int, nxt : Int] /\ NoClose \in [val : Int, pos : Nat]
        /\ NoScan \in [base : Int, top : Int, pos : Nat, sd : BOOLEAN]
    BY DEF NoClaim, NoClose, NoScan
  <2> HIDE DEF NoAttempt, NoClaim, NoClose, NoScan
  <2> QED
    BY <1>3, <2>2, <2>3 DEF LocalsOK, SenderPlaces
<1>5. Capacity \in Nat \ {0} /\ SHUTDOWN_OPEN \in Nat
  BY CapacityAssumption, OpenAssumption
<1>6. /\ Claimed \in Locations /\ Refs \in Locations
      /\ \A r \in Receivers : Consumed(r) \in Locations
      /\ \A i \in Slots : /\ State(i) \in Locations /\ Written(i) \in Locations
                          /\ \A r \in Receivers : ReadBy(i, r) \in Locations
  BY DEF Locations
<1>7. Senders \subseteq Threads /\ Receivers \subseteq Threads /\ Staying = Senders
  BY <1>3 DEF Threads, Staying
<1>8. Highest = -1
  <2>1. hist[Claimed][1].val = [seq |-> -1, down |-> FALSE] /\ Last(Claimed) = 1
    BY <1>2, <1>6 DEF Initially, State, Claimed, Refs
  <2> QED
    BY <2>1 DEF Highest
<1>9. ASSUME NEW r \in Receivers
      PROVE  Cursor(r) = -1 /\ hist[Consumed(r)][1].val = -1
  <2>1. hist[Consumed(r)][1].val = -1 /\ Last(Consumed(r)) = 1
    BY <1>2, <1>6 DEF Initially, State, Claimed, Refs, Consumed
  <2> QED
    BY <2>1
<1>10. ASSUME NEW s \in Senders
       PROVE  Holds(s) = {} /\ pc[s] = "idle" /\ own[s] = NoClaim
  <2>1. pc[s] = "idle" /\ own[s] = NoClaim
    BY <1>3
  <2> QED
    BY <2>1 DEF Held, NoClaim
<1>11. ClaimsSound
  <2>1. hist[Claimed][1].val = [seq |-> -1, down |-> FALSE] /\ Last(Claimed) = 1
    BY <1>2, <1>6 DEF Initially, State, Claimed, Refs
  <2>2. -1 \in -1 .. Highest /\ Highest < SHUTDOWN_OPEN
    BY <1>5, <1>8
  <2>3. \A k \in 1 .. 1 : k = 1
    OBVIOUS
  <2> QED
    BY <2>1, <2>2, <2>3 DEF ClaimsSound, Shut
<1>12. 0 .. Highest = {}
  BY <1>8
<1>13. HoldsSound
  BY <1>10, <1>12 DEF HoldsSound
<1>14. 2 .. 1 = {}
  OBVIOUS
<1>15. WrittenSound
  <2>1. ASSUME NEW i \in Slots PROVE 2 .. Last(Written(i)) = {}
    <3>1. Last(Written(i)) = 1
      BY <1>2, <1>6
    <3> QED
      BY <1>14, <3>1
  <2> QED
    BY <2>1 DEF WrittenSound
<1>16. StateSound
  <2>1. \A i \in Slots : Last(State(i)) = 1
    BY <1>2, <1>6
  <2>2. ASSUME NEW i \in Slots
        PROVE  hist[State(i)][1].val = [flag |-> EmptyFlag, down |-> FALSE]
    BY <1>2, <1>6 DEF Initially, State, Claimed, Refs
  <2>3. ASSUME NEW i \in Slots PROVE 2 .. Last(State(i)) = {}
    <3>1. Last(State(i)) = 1
      BY <2>1
    <3> QED
      BY <1>14, <3>1
  <2> QED
    BY <2>2, <2>3 DEF StateSound
<1>17. AttemptSound /\ WriterSound /\ CloserSound
  <2>1. WriterSound
    BY <1>10 DEF WriterSound
  <2> QED
    BY <1>10, <2>1 DEF AttemptSound, CloserSound
<1>18. \A v : Covers(v, -1)
  <2>1. 0 .. -1 = {}
    OBVIOUS
  <2> QED
    BY <2>1 DEF Covers
<1>19. ASSUME NEW r \in Receivers PROVE KnowsReads(hist, start, r, -1)
  <2>1. \A i \in Slots : Len(hist[ReadBy(i, r)]) = 1 /\ start[ReadBy(i, r)] = 1
    BY <1>2, <1>6
  <2>2. \A j \in 1 .. 1 : j <= 1
    OBVIOUS
  <2> QED
    BY <2>1, <2>2 DEF KnowsReads
<1>20. CursorSound
  <2>1. ASSUME NEW r \in Receivers
        PROVE  /\ Cursor(r) \in -1 .. Highest /\ Highest <= Cursor(r) + Capacity
               /\ Covers(cur[r], Cursor(r)) /\ rpc[r] = "idle"
    <3>1. Cursor(r) = -1 /\ rpc[r] = "idle"
      BY <1>3, <1>9
    <3>2. -1 \in -1 .. Highest /\ Highest <= -1 + Capacity
      BY <1>5, <1>8
    <3> QED
      BY <1>18, <3>1, <3>2
  <2>2. ASSUME NEW r \in Receivers, NEW k \in 1 .. Last(Consumed(r))
        PROVE  LET m == hist[Consumed(r)][k] IN
               /\ KnowsReads(hist, m.view, r, m.val) /\ m.val <= Cursor(r)
               /\ m.val # SHUTDOWN_OPEN /\ CursorKnown(m.view, m.val)
    <3>1. Last(Consumed(r)) = 1 /\ hist[Consumed(r)][1].view = start
      BY <1>2, <1>6
    <3>2. k = 1
      BY <3>1
    <3>3. hist[Consumed(r)][k].val = -1 /\ hist[Consumed(r)][k].view = start /\ Cursor(r) = -1
      BY <1>9, <3>1, <3>2
    <3>4. CursorKnown(start, -1)
      <4>1. -1 \in -1 .. Highest
        BY <1>8
      <4> QED
        BY <1>10, <1>18, <4>1 DEF CursorKnown
    <3>5. -1 <= -1 /\ -1 # SHUTDOWN_OPEN
      BY <1>5
    <3> QED
      BY <1>19, <3>3, <3>4, <3>5
  <2> QED
    BY <2>1, <2>2 DEF CursorSound
<1>21. ReadsSound
  <2>1. ASSUME NEW r \in Receivers, NEW i \in Slots
        PROVE  cur[r][ReadBy(i, r)] = Last(ReadBy(i, r)) /\ 2 .. Last(ReadBy(i, r)) = {}
    <3>1. Last(ReadBy(i, r)) = 1 /\ cur[r] = start /\ start[ReadBy(i, r)] = 1
      BY <1>2, <1>6, <1>7
    <3> QED
      BY <3>1
  <2> QED
    BY <2>1 DEF ReadsSound, Knows
<1>22. ReaderSound /\ StaleDisconnect
  BY <1>3 DEF ReaderSound, StaleDisconnect
<1>23. RefsSound
  <2>1. Newest(Refs).val = Cardinality(Senders)
    <3>1. hist[Refs][1].val = Cardinality(Senders) /\ Last(Refs) = 1
      BY <1>2, <1>6 DEF Initially, State, Claimed, Refs
    <3> QED
      BY <3>1
  <2>2. ASSUME NEW l \in KeptWords PROVE Newest(Refs).view[l] = Last(l)
    <3>1. l \in Locations
      BY DEF KeptWords, Locations
    <3>2. Last(Refs) = 1 /\ hist[Refs][1].view = start /\ Last(l) = 1 /\ start[l] = 1
      BY <1>2, <1>6, <3>1
    <3> QED
      BY <3>2
  <2> QED
    BY <1>7, <2>1, <2>2 DEF RefsSound, KeptWords
<1> QED
  BY <1>2, <1>4, <1>11, <1>13, <1>15, <1>16, <1>17, <1>20, <1>21, <1>22, <1>23 DEF TypeOK, IndInv

-------------------------------------------------------------------------------
(* The theorems. *)

\* The types and the invariant are inductive.
LEMMA StepSound ==
  ASSUME TypeOK, IndInv, [Next]_vars
  PROVE  TypeOK' /\ IndInv'
<1>1. MemoryOK'
  BY MemoryKept
<1>2. LocalsOK'
  BY LocalsKept DEF IndInv
<1>3. ClaimsSound' /\ HoldsSound' /\ WrittenSound' /\ StateSound'
  BY ClaimsKept, HoldsKept, WrittenKept, StateKept
<1>4. AttemptSound' /\ WriterSound'
  BY AttemptKept, WriterKept
<1>5. CursorSound' /\ ReadsSound' /\ ReaderSound'
  BY CursorKept, ReadsKept, ReaderKept
<1>6. RefsSound' /\ CloserSound' /\ StaleDisconnect'
  BY RefsKept, CloserKept, StaleDisconnectKept
<1> QED
  BY <1>1, <1>2, <1>3, <1>4, <1>5, <1>6 DEF TypeOK, IndInv

\* What a guard covers was written last for the sequence it is asked for: the next
\* write of its slot waits for the cursor (pub_mul.rs:136-148).
LEMMA CoveredIsNewest ==
  ASSUME TypeOK, IndInv, NEW r \in Receivers, rpc[r] = "guard",
         NEW y \in (rd[r].base + 1) .. rd[r].top, NEW l, l = Written(IndexOf(y))
  PROVE  Knows(r, l) /\ Newest(l).val = y
<1>1. /\ rd[r].base = Cursor(r) /\ rd[r].top <= Highest /\ Covers(cur[r], rd[r].top)
  BY DEF IndInv, ReaderSound
<1>2. Cursor(r) \in -1 .. Highest /\ Highest <= Cursor(r) + Capacity
  BY DEF IndInv, CursorSound
<1>3. /\ rd[r].base \in Int /\ rd[r].top \in Int /\ Highest \in Int /\ Capacity \in Int
      /\ MemoryOK /\ r \in Threads
  BY HighestIsBound, CapacityAssumption DEF TypeOK, LocalsOK, Threads
<1>4. y \in 0 .. rd[r].top /\ y \in Int /\ y >= 0
  BY <1>1, <1>2, <1>3
<1>5. Pos(y) \in Int /\ Pos(y) >= 2 /\ IndexOf(y) \in Slots /\ l \in Locations
  BY <1>4, PosType DEF Locations
<1>6. cur[r][l] >= Pos(y)
  BY <1>1, <1>4 DEF Covers
<1>7. Last(l) \in Int /\ cur[r][l] \in 1 .. Last(l)
  BY <1>3, <1>5, MemoryTypes
<1>8. PICK x : x = Newest(l).val
  OBVIOUS
<1>9. IndexOf(x) = IndexOf(y) /\ Pos(x) = Last(l) /\ x \in 0 .. Highest
  <2>1. Last(l) \in 2 .. Last(l)
    BY <1>5, <1>6, <1>7
  <2> QED
    BY <1>5, <1>8, <2>1 DEF IndInv, WrittenSound
<1>10. x \in Int
  BY <1>3, <1>9
<1>11. y + Capacity > Highest
  BY <1>1, <1>2, <1>3, <1>4
<1>12. ~(y < x)
  <2>1. y < x => y + Capacity <= x
    BY <1>4, <1>9, <1>10, PosOrder
  <2> QED
    BY <1>3, <1>4, <1>9, <1>10, <1>11, <2>1
<1>13. ~(x < y)
  <2>1. x < y => Pos(x) < Pos(y)
    BY <1>4, <1>9, <1>10, PosOrder
  <2> QED
    BY <1>5, <1>6, <1>7, <1>9, <2>1
<1>14. x = y
  BY <1>4, <1>10, <1>12, <1>13
<1>15. cur[r][l] = Last(l)
  <2>1. Pos(x) = Pos(y)
    BY <1>14
  <2> QED
    BY <1>5, <1>6, <1>7, <1>9, <2>1
<1> QED
  BY <1>8, <1>14, <1>15 DEF Knows

\* The invariant gives the properties of the slots and of the state words.
LEMMA InvariantImplies ==
  ASSUME TypeOK, IndInv
  PROVE  WritesAreOrdered /\ ReadsAreOrdered /\ StateStoresAreOrdered /\ StaleDisconnect
<1>1. WritesAreOrdered
  BY DEF IndInv, WriterSound, WritesAreOrdered
<1>2. ReadsAreOrdered
  BY CoveredIsNewest DEF ReadsAreOrdered
<1>3. StateStoresAreOrdered
  <2>1. ASSUME NEW s \in Senders, pc[s] = "publish" PROVE own[s].nxt \in Holds(s)
    <3>1. own[s].lo <= own[s].nxt /\ own[s].nxt <= own[s].hi
      BY <2>1 DEF IndInv, WriterSound
    <3>2. own[s].lo \in Int /\ own[s].nxt \in Int /\ own[s].hi \in Int
      BY DEF TypeOK, LocalsOK
    <3>3. own[s].nxt \in own[s].lo .. own[s].hi /\ own[s].nxt <= own[s].nxt
      BY <3>1, <3>2
    <3> QED
      BY <3>3 DEF Held
  <2> QED
    BY <2>1 DEF IndInv, WriterSound, StateStoresAreOrdered
<1>4. StaleDisconnect
  BY DEF IndInv
<1> QED
  BY <1>1, <1>2, <1>3, <1>4

\* The invariant of the orderings holds in every state, and with it the types: the
\* k-th write and the k-th state word of a slot are about the same sequence, and a
\* view that knows one of them knows what it stands for (ringbuffer.rs:17-28).
THEOREM Invariant == Spec => [](TypeOK /\ IndInv)
<1>1. Init => TypeOK /\ IndInv
  BY InitSound
<1>2. TypeOK /\ IndInv /\ [Next]_vars => (TypeOK /\ IndInv)'
  BY StepSound
<1> QED
  BY <1>1, <1>2, PTL DEF Spec

\* The memory and the locals keep their types: no view knows of a message that is
\* not there, and a relaxed store hands on no more than its thread has seen.
THEOREM TypeCorrect == Spec => []TypeOK
<1>1. TypeOK /\ IndInv => TypeOK
  OBVIOUS
<1> QED
  BY <1>1, Invariant, PTL

\* The inductive invariant itself, which the fences runs check.
THEOREM Inductive == Spec => []IndInv
<1>1. TypeOK /\ IndInv => IndInv
  OBVIOUS
<1> QED
  BY <1>1, Invariant, PTL

\* Whoever is about to write a slot has every earlier write and read of it happen
\* before: claiming, writing and consuming race nowhere, whatever stale values the
\* relaxed loads return (ringbuffer.rs:10-28; the gate's acquire, con_fanout.rs:34-43),
\* in the channel of callers who use no reference of a batch after its guard.
THEOREM WritesOrdered ==
  ASSUME ReadsEndWithGuard
  PROVE  KeptSpec => []WritesAreOrdered
<1>1. TypeOK /\ IndInv => WritesAreOrdered
  BY InvariantImplies
<1>2. [Next \/ \E r \in Receivers : ReadKept(r)]_vars => [Next]_vars
  BY DEF ReadKept, ReadsEndWithGuard
<1>3. KeptSpec => Spec
  BY <1>2, PTL DEF KeptSpec, Spec
<1> QED
  BY <1>1, <1>3, Invariant, PTL

\* Whatever a live guard covers, its holder has seen the write of it, which is that of
\* the sequence asked for (slot_states.rs:158-162: the fence after the scan).
THEOREM ReadsOrdered == Spec => []ReadsAreOrdered
<1>1. TypeOK /\ IndInv => ReadsAreOrdered
  BY InvariantImplies
<1> QED
  BY <1>1, Invariant, PTL

\* The relaxed stores of a state word never go back to an older flag: the publisher
\* has seen every earlier store of the word (slot_states.rs:131-141).
THEOREM StateStoresOrdered == Spec => []StateStoresAreOrdered
<1>1. TypeOK /\ IndInv => StateStoresAreOrdered
  BY InvariantImplies
<1> QED
  BY <1>1, Invariant, PTL

\* Disconnected is told only when nothing claimed is left to consume, although the
\* scan that tells it reads with relaxed loads (lib.rs:314-320, consumer.rs:57-68).
THEOREM DisconnectSound == Spec => []StaleDisconnect
<1>1. TypeOK /\ IndInv => StaleDisconnect
  BY InvariantImplies
<1> QED
  BY <1>1, Invariant, PTL

-------------------------------------------------------------------------------
(* The refinement: the newest messages, whoever has seen them, are a state of   *)
(* FanoutLog, and each step is one of its steps.                                *)

\* What receivers see when each slot was last written for the sequence asked for.
View == [r \in Receivers |-> [y \in Covered(r) |-> y]]

LEMMA ShownIsView ==
  ASSUME TypeOK, IndInv
  PROVE  Shown = View
<1>1. ASSUME NEW r \in Receivers, NEW y \in Covered(r)
      PROVE  LastSeen(r, Written(IndexOf(y))) = y
  <2>1. rpc[r] = "guard" /\ y \in (rd[r].base + 1) .. rd[r].top
    BY DEF Covered
  <2>2. /\ Knows(r, Written(IndexOf(y)))
        /\ hist[Written(IndexOf(y))][Len(hist[Written(IndexOf(y))])].val = y
    BY <2>1, CoveredIsNewest
  <2> QED
    BY <2>2 DEF LastSeen, Knows
<1> QED
  BY <1>1 DEF Shown, View

LEMMA ViewKept ==
  ASSUME \A r \in Receivers : Covered(r)' = Covered(r)
  PROVE  View' = View
BY DEF View

\* A step of one receiver changes only what it sees itself.
LEMMA ViewChanged ==
  ASSUME NEW r \in Receivers, NEW G, Covered(r)' = G,
         \A q \in Receivers \ {r} : rpc'[q] = rpc[q] /\ rd'[q] = rd[q]
  PROVE  View' = [View EXCEPT ![r] = [y \in G |-> y]]
<1>1. \A q \in Receivers \ {r} : Covered(q)' = Covered(q)
  BY DEF Covered
<1>2. \A q \in Receivers : View'[q] = IF q = r THEN [y \in G |-> y] ELSE View[q]
  BY <1>1 DEF View
<1> QED
  BY <1>2 DEF View

\* A receiver without a guard sees nothing.
LEMMA NothingSeen ==
  ASSUME NEW r \in Receivers, rpc[r] # "guard"
  PROVE  View[r] = Log!NoBatch
<1>1. Covered(r) = {}
  BY DEF Covered
<1> QED
  BY <1>1 DEF View, Log!NoBatch

\* A receiver is live as long as it is not dropped.
LEMMA LiveWhenNotDropped ==
  ASSUME TypeOK, IndInv, NEW r \in Receivers
  PROVE  /\ rpc[r] # "dropped" => Log!Live(r) /\ Cursor(r) \in -1 .. Highest
         /\ Log!Live(r) => rpc[r] # "dropped"
         /\ Cursors[r] = Cursor(r) /\ Itself[r] = r
<1>1. Cursors[r] = Cursor(r) /\ Itself[r] = r
  BY DEF Cursors, Itself
<1>2. rpc[r] = "dropped" => Cursor(r) = SHUTDOWN_OPEN
  BY DEF IndInv, CursorSound
<1>3. Highest \in Int /\ Highest < SHUTDOWN_OPEN /\ SHUTDOWN_OPEN \in Int
  BY HighestIsBound, OpenAssumption DEF IndInv, ClaimsSound
<1>4. rpc[r] # "dropped" => Cursor(r) \in -1 .. Highest
  BY DEF IndInv, CursorSound
<1>5. rpc[r] # "dropped" => Cursor(r) # SHUTDOWN_OPEN
  BY <1>3, <1>4
<1> QED
  BY <1>1, <1>2, <1>4, <1>5 DEF Log!Live

\* What was claimed is held by a sender, or published (pub_mul.rs:151-168).
LEMMA PublishedIs ==
  ASSUME TypeOK, IndInv
  PROVE  /\ Published = (0 .. Highest) \ Owned
         /\ Owned \subseteq 0 .. Highest
         /\ Highest \in Int /\ -1 <= Highest
<1>1. Highest \in Int /\ -1 <= Highest
  BY HighestIsBound
<1>2. Owned \subseteq 0 .. Highest
  BY DEF Owned, IndInv, HoldsSound
<1>3. ASSUME NEW x \in 0 .. Highest, x \notin Owned PROVE Pos(x) <= Last(State(IndexOf(x)))
  BY <1>3 DEF Owned, IndInv, HoldsSound
<1>4. ASSUME NEW x \in 0 .. Highest, x \in Owned PROVE ~(Pos(x) <= Last(State(IndexOf(x))))
  <2>1. PICK s \in Senders : x \in Holds(s)
    BY <1>4 DEF Owned
  <2>2. Last(State(IndexOf(x))) = Pos(x) - 1
    BY <2>1 DEF IndInv, WriterSound
  <2>3. Pos(x) \in Int
    BY <1>1, PosType
  <2> QED
    BY <2>2, <2>3
<1>5. Published = (0 .. Highest) \ Owned
  BY <1>3, <1>4 DEF Published
<1> QED
  BY <1>1, <1>2, <1>5

\* What the log's variables follow.
LEMMA ClaimedStays ==
  ASSUME hist'[Claimed] = hist[Claimed]
  PROVE  Highest' = Highest /\ Shut' = Shut /\ LogTail' = LogTail
<1>1. Highest' = Highest /\ Shut' = Shut
  BY DEF Highest, Shut
<1> QED
  BY <1>1 DEF LogTail

LEMMA CursorsStay ==
  ASSUME \A q \in Receivers : hist'[Consumed(q)] = hist[Consumed(q)]
  PROVE  Cursors' = Cursors
BY DEF Cursors

LEMMA CursorsChanged ==
  ASSUME NEW r \in Receivers, NEW c, Cursor(r)' = c,
         \A q \in Receivers \ {r} : hist'[Consumed(q)] = hist[Consumed(q)]
  PROVE  Cursors' = [Cursors EXCEPT ![r] = c]
<1>1. \A q \in Receivers \ {r} : Cursor(q)' = Cursor(q)
  OBVIOUS
<1> HIDE DEF Cursor
<1> QED
  BY <1>1 DEF Cursors

\* The log's variables that depend on several locations, put simply.
Exact == Shown = View /\ Published = (0 .. Highest) \ Owned

\* Steps of senders leave the cursors and the guards alone.
LEMMA SenderKeepsReaders ==
  ASSUME TypeOK, IndInv, Exact, Exact', NEW s \in Senders, SenderStep(s)
  PROVE  Cursors' = Cursors /\ Shown' = Shown /\ told' = told
<1>1. \A q \in Receivers : hist'[Consumed(q)] = hist[Consumed(q)]
  <2>1. \A q \in Receivers : Consumed(q) \in Locations
    BY DEF Locations
  <2> QED
    BY <2>1, SenderHist DEF Claimed, Refs, Written, State, Consumed
<1>2. Cursors' = Cursors
  BY <1>1, CursorsStay
<1>3. UNCHANGED <<rpc, rd, told>>
  BY SenderLocals
<1>4. View' = View
  BY <1>3, ViewKept DEF Covered
<1>5. Shown' = Shown
  BY <1>4 DEF Exact
<1> QED
  BY <1>2, <1>3, <1>5

\* What senders hold together, in terms of the sender that moves.
LEMMA OwnedParts ==
  ASSUME TypeOK, NEW s \in Senders, SenderStep(s)
  PROVE  /\ Owned = Holds(s) \cup UNION {Holds(u) : u \in Senders \ {s}}
         /\ Owned' = Held(own'[s], pc'[s]) \cup UNION {Holds(u) : u \in Senders \ {s}}
<1>1. \A u \in Senders \ {s} : Held(own'[u], pc'[u]) = Holds(u)
  BY SenderLocals
<1>2. Owned = Holds(s) \cup UNION {Holds(u) : u \in Senders \ {s}}
  BY DEF Owned
<1>3. Owned' = Held(own'[s], pc'[s]) \cup UNION {Held(own'[u], pc'[u]) : u \in Senders \ {s}}
  BY DEF Owned
<1>4. UNION {Held(own'[u], pc'[u]) : u \in Senders \ {s}} = UNION {Holds(u) : u \in Senders \ {s}}
  BY <1>1
<1> QED
  BY <1>2, <1>3, <1>4

\* A claim adds the sequences after the highest.
LEMMA OwnedByClaim ==
  ASSUME TypeOK, IndInv, NEW s \in Senders, CasClaim(s)
  PROVE  Owned' = Owned \cup ((Highest + 1) .. Highest')
<1>1. SenderStep(s)
  BY DEF SenderStep
<1>2. PICK X : X = UNION {Holds(u) : u \in Senders \ {s}}
  OBVIOUS
<1>3. Owned = Holds(s) \cup X /\ Owned' = Held(own'[s], pc'[s]) \cup X
  BY <1>1, <1>2, OwnedParts
<1>4. own[s] = NoClaim /\ own'[s] = [lo |-> Highest + 1, hi |-> Highest', nxt |-> Highest + 1]
      /\ pc'[s] = "write"
  BY ClaimFacts
<1>5. Holds(s) = {}
  BY <1>4 DEF Held, NoClaim
<1>6. Held(own'[s], pc'[s]) = (Highest + 1) .. Highest'
  BY <1>4 DEF Held
<1> QED
  BY <1>3, <1>5, <1>6

\* A publication takes its sequence from what its sender holds, and nobody else
\* holds it.
LEMMA OwnedByPublish ==
  ASSUME TypeOK, IndInv, NEW s \in Senders, PublishSlot(s), NEW x, x = own[s].nxt
  PROVE  x \in Owned /\ Owned' = Owned \ {x}
<1>1. SenderStep(s) /\ ~CasClaim(s)
  BY DEF SenderStep, PublishSlot, CasClaim
<1>2. PICK X : X = UNION {Holds(u) : u \in Senders \ {s}}
  OBVIOUS
<1>3. Owned = Holds(s) \cup X /\ Owned' = Held(own'[s], pc'[s]) \cup X
  BY <1>1, <1>2, OwnedParts
<1>4. x \in Holds(s)
  BY NextIsHeld
<1>5. x \notin X
  <2>1. \A u \in Senders \ {s} : \A y \in Holds(u) : x # y
    <3>1. HoldsSound
      BY DEF IndInv
    <3> HIDE DEF Holds
    <3> QED
      BY <1>4, <3>1 DEF HoldsSound
  <2> QED
    BY <1>2, <2>1
<1>6. Held(own'[s], pc'[s]) = Holds(s) \ {x}
  BY <1>1, HoldsStep
<1> QED
  BY <1>3, <1>4, <1>5, <1>6

\* Nothing else changes what senders hold.
LEMMA OwnedStays ==
  ASSUME TypeOK, IndInv, NEW s \in Senders, SenderStep(s), ~CasClaim(s), ~PublishSlot(s)
  PROVE  Owned' = Owned
<1>1. Held(own'[s], pc'[s]) = Holds(s)
  BY HoldsStep
<1> QED
  BY <1>1, OwnedParts

\* The end is announced by the mark of the last sender's close.
LEMMA ClosedStep ==
  ASSUME TypeOK, IndInv, NEW s \in Senders, SenderStep(s)
  PROVE  IF CloseMark(s) THEN Closed' ELSE Closed' = Closed
<1>0. pc \in [Senders -> SenderPlaces] /\ \A u \in Senders \ {s} : pc'[u] = pc[u]
  BY SenderLocals DEF TypeOK, LocalsOK
<1>1. CASE CloseMark(s)
  <2>1. \A u \in Senders \ {s} : pc[u] = "dropped"
    BY <1>1 DEF CloseMark, IndInv, CloserSound
  <2>2. pc'[s] = "cstore"
    BY <1>0, <1>1 DEF CloseMark, Go
  <2> QED
    BY <1>0, <1>1, <2>1, <2>2 DEF Closed
<1>2. CASE DropSender(s)
  <2>1. PICK n : n = Newest(Refs).val
    OBVIOUS
  <2>2. pc[s] = "idle" /\ s \in Staying /\ ~Closed /\ ~CloseMark(s)
    BY <1>2 DEF DropSender, Staying, Closed, CloseMark
  <2>3. CASE n = 1
    <3>1. pc'[s] = "cload"
      BY <1>0, <1>2, <2>1, <2>3 DEF DropSender, Go
    <3> QED
      BY <2>2, <3>1 DEF Closed
  <2>4. CASE n # 1
    <3>1. PICK u \in Staying : u # s
      BY <2>1, <2>2, <2>4, DropFacts
    <3>2. u \in Senders /\ pc'[u] \in {"idle", "gate", "cas", "write", "publish"}
      BY <1>0, <3>1 DEF Staying
    <3> QED
      BY <2>2, <3>2 DEF Closed
  <2> QED
    BY <2>3, <2>4
<1>3. CASE CloseStore(s)
  <2>1. pc[s] = "cstore" /\ pc'[s] = "dropped" /\ ~CloseMark(s)
    BY <1>0, <1>3 DEF CloseStore, CloseMark, Go
  <2> QED
    BY <1>0, <2>1 DEF Closed
<1>4. CASE ~CloseMark(s) /\ ~DropSender(s) /\ ~CloseStore(s)
  <2>1. pc[s] \notin {"cstore", "dropped"} /\ pc'[s] \notin {"cstore", "dropped"}
    BY <1>0, <1>4 DEF SenderStep, StartClaim, LoadConsumed, CasClaim, CasRetry, FillSlot,
                      StartPublish, PublishSlot, CloseLoad, CloseScan, Go
  <2> QED
    BY <1>4, <2>1 DEF Closed
<1> QED
  BY <1>1, <1>2, <1>3, <1>4

\* A successful compare_exchange gives out the next sequences of the log, within
\* reach of every receiver although the cursors met may be old (pub_mul.rs:151-168).
LEMMA CasIsClaim ==
  ASSUME TypeOK, IndInv, Exact, Exact', Closed' = Closed, NEW s \in Senders, CasClaim(s)
  PROVE  \E n \in 1 .. Capacity : Log!Claim(n)
<1>1. PICK g, hi : /\ g = att[s].gmin
                   /\ hi = att[s].last + MinOf(AvailableSlots(att[s].last, att[s].gmin), att[s].want)
  OBVIOUS
<1>2. /\ Highest \in Int /\ g \in -1 .. Highest /\ hi \in Int
      /\ Highest < hi /\ hi <= g + Capacity /\ Highest' = hi
      /\ \A r \in Receivers : g <= Cursor(r)
  BY <1>1, ClaimFacts
<1>3. hist'[Claimed][Last(Claimed) + 1].val = [seq |-> hi, down |-> FALSE]
  BY <1>1, ClaimFacts
<1>4. Shut = FALSE
  BY DEF CasClaim, Shut
<1>5. Shut' = FALSE
  <2>1. PICK w \in Views : Appends(hist, hist', Claimed, [seq |-> hi, down |-> FALSE], w)
    BY <1>1, CasEffect
  <2>2. Last(Claimed)' = Last(Claimed) + 1
    BY <2>1 DEF Appends
  <2> QED
    BY <1>3, <2>2 DEF Shut
<1>6. LogTail = Highest /\ LogTail' = hi
  BY <1>2, <1>4, <1>5 DEF LogTail
<1>7. Owned' = Owned \cup ((Highest + 1) .. hi)
  BY <1>2, OwnedByClaim
<1>8. Published' = Published
  <2>1. Published = (0 .. Highest) \ Owned /\ Published' = (0 .. hi) \ Owned'
    BY <1>2 DEF Exact
  <2>2. \A x : x \in 0 .. hi <=> x \in 0 .. Highest \/ (x \in 0 .. hi /\ x \in (Highest + 1) .. hi)
    BY <1>2
  <2>3. Owned \subseteq 0 .. Highest /\ -1 <= Highest
    BY PublishedIs
  <2>4. \A x : ~(x \in 0 .. Highest /\ x \in (Highest + 1) .. hi)
    BY <1>2
  <2> QED
    BY <1>7, <2>1, <2>2, <2>3, <2>4
<1>9. Cursors' = Cursors /\ Shown' = Shown /\ told' = told
  BY SenderKeepsReaders DEF SenderStep
<1> DEFINE n == hi - Highest
<1>10. n \in Int /\ 1 <= n /\ Highest + n = hi
  BY <1>2
<1>11. n <= Capacity
  BY <1>2, CapacityAssumption
<1>12. \A r \in Receivers : Highest + n <= Cursors[r] + Capacity
  <2>1. ASSUME NEW r \in Receivers PROVE hi <= Cursor(r) + Capacity
    <3>1. Cursor(r) \in Int
      BY WordTypes DEF TypeOK
    <3>2. PICK c : c = Cursor(r) /\ c \in Int /\ g <= c
      BY <1>2, <3>1
    <3>3. hi <= c + Capacity
      BY <1>2, <3>2, CapacityAssumption
    <3> QED
      BY <3>2, <3>3
  <2> QED
    BY <1>10, <2>1 DEF Cursors
<1> HIDE DEF n
<1>13. n \in 1 .. Capacity
  BY <1>10, <1>11, CapacityAssumption
<1>14. Log!Claim(n)
  BY <1>4, <1>5, <1>6, <1>7, <1>8, <1>9, <1>10, <1>12 DEF Log!Claim
<1> QED
  BY <1>13, <1>14

\* The store of a state word publishes the next sequence of its sender's claim
\* (slot_states.rs:131-141).
LEMMA PublishIsPublish ==
  ASSUME TypeOK, IndInv, Exact, Exact', Closed' = Closed, NEW s \in Senders, PublishSlot(s)
  PROVE  \E x \in Owned : Log!Publish(x)
<1>1. PICK x : x = own[s].nxt
  OBVIOUS
<1>2. x \in Owned /\ Owned' = Owned \ {x}
  BY <1>1, OwnedByPublish
<1>3. hist'[Claimed] = hist[Claimed]
  <2>1. SenderStep(s) /\ ~CasClaim(s) /\ ~CloseStore(s) /\ ~DropSender(s)
    BY DEF SenderStep, PublishSlot, CasClaim, CloseStore, DropSender
  <2>2. Claimed \in Locations
    BY DEF Locations
  <2> QED
    BY <2>1, <2>2, SenderHist DEF Claimed, Written, State
<1>4. Highest' = Highest /\ Shut' = Shut /\ LogTail' = LogTail
  BY <1>3, ClaimedStays
<1>5. Published' = Published \cup {x}
  <2>1. Published = (0 .. Highest) \ Owned /\ Published' = (0 .. Highest) \ Owned'
    BY <1>4 DEF Exact
  <2>2. x \in 0 .. Highest
    BY <1>2, PublishedIs
  <2> QED
    BY <1>2, <2>1, <2>2
<1>6. Cursors' = Cursors /\ Shown' = Shown /\ told' = told
  BY SenderKeepsReaders DEF SenderStep
<1>7. Log!Publish(x)
  BY <1>2, <1>4, <1>5, <1>6 DEF Log!Publish
<1> QED
  BY <1>2, <1>7

\* The store of `claimed` at the end of close() shuts the log, unless nothing was
\* ever claimed and it changes nothing (pub_mul.rs:116-134).
LEMMA CloseIsShutdown ==
  ASSUME TypeOK, IndInv, Exact, Exact', Closed' = Closed, NEW s \in Senders, CloseStore(s)
  PROVE  Log!Shutdown \/ UNCHANGED Log!logVars
<1>1. SenderStep(s) /\ ~CasClaim(s) /\ ~PublishSlot(s)
  BY DEF SenderStep, CloseStore, CasClaim, PublishSlot
<1>2. Owned' = Owned
  BY <1>1, OwnedStays
<1>3. Highest' = Highest /\ Shut' = (Highest # -1)
  BY CloseStoreFacts
<1>4. Published' = Published
  BY <1>2, <1>3 DEF Exact
<1>5. Cursors' = Cursors /\ Shown' = Shown /\ told' = told
  BY <1>1, SenderKeepsReaders
<1>6. CASE Highest # -1
  <2>1. Shut' = TRUE /\ LogTail' = -1
    BY <1>3, <1>6 DEF LogTail
  <2>2. Closed
    <3>1. CloserSound /\ pc[s] = "cstore"
      BY DEF IndInv, CloseStore
    <3> QED
      BY <3>1 DEF CloserSound, Closed
  <2> QED
    BY <1>2, <1>4, <1>5, <2>1, <2>2 DEF Log!Shutdown
<1>7. CASE Highest = -1
  <2>1. ~Shut
    BY <1>7 DEF IndInv, ClaimsSound
  <2>2. Shut \in BOOLEAN
    BY NewestTypes DEF TypeOK, Shut, Locations, ValuesOf
  <2>3. Shut' = Shut /\ LogTail' = LogTail
    BY <1>3, <1>7, <2>1, <2>2 DEF LogTail
  <2> QED
    BY <1>2, <1>4, <1>5, <2>3 DEF Log!logVars
<1> QED
  BY <1>6, <1>7

\* Sender steps that only load, write a slot or work on the other words are none of
\* the log's.
LEMMA SenderStutters ==
  ASSUME TypeOK, IndInv, Exact, Exact', Closed' = Closed, NEW s \in Senders, SenderStep(s),
         ~CasClaim(s), ~PublishSlot(s), ~CloseStore(s)
  PROVE  UNCHANGED Log!logVars
<1>1. hist'[Claimed] = hist[Claimed]
  BY SenderHist DEF Claimed, Refs, Written, State, Locations
<1>2. Highest' = Highest /\ Shut' = Shut /\ LogTail' = LogTail
  BY <1>1, ClaimedStays
<1>3. Owned' = Owned
  BY OwnedStays
<1>4. Published' = Published
  BY <1>2, <1>3 DEF Exact
<1> QED
  BY <1>2, <1>3, <1>4, SenderKeepsReaders DEF Log!logVars

\* The mark announces the end (pub_mul.rs:85-95).
LEMMA MarkIsAnnounce ==
  ASSUME TypeOK, IndInv, Exact, Exact', NEW s \in Senders, SenderStep(s), CloseMark(s)
  PROVE  Log!Announce
<1>1. ~CasClaim(s) /\ ~PublishSlot(s) /\ ~CloseStore(s)
  BY DEF CloseMark, CasClaim, PublishSlot, CloseStore
<1>2. hist'[Claimed] = hist[Claimed]
  BY <1>1, SenderHist DEF Claimed, Refs, Written, State, Locations
<1>3. Highest' = Highest /\ Shut' = Shut /\ LogTail' = LogTail
  BY <1>2, ClaimedStays
<1>4. Owned' = Owned
  BY <1>1, OwnedStays
<1>5. Published' = Published
  BY <1>3, <1>4 DEF Exact
<1>6. Closed'
  BY ClosedStep
<1> QED
  BY <1>3, <1>4, <1>5, <1>6, SenderKeepsReaders DEF Log!Announce

\* Steps of receivers leave the claims and the published log alone.
LEMMA ReceiverKeepsSenders ==
  ASSUME TypeOK, IndInv, Exact, Exact', NEW r \in Receivers, ReceiverStep(r)
  PROVE  /\ Highest' = Highest /\ Shut' = Shut /\ LogTail' = LogTail
         /\ Owned' = Owned /\ Published' = Published /\ Closed' = Closed
<1>1. hist'[Claimed] = hist[Claimed]
  BY ReceiverHist DEF Claimed, ReadBy, Consumed, Locations
<1>2. Highest' = Highest /\ Shut' = Shut /\ LogTail' = LogTail
  BY <1>1, ClaimedStays
<1>3. Owned' = Owned
  BY ReceiverLocals DEF Owned
<1>4. Published' = Published
  BY <1>2, <1>3 DEF Exact
<1>5. Closed' = Closed
  BY ReceiverLocals DEF Closed
<1> QED
  BY <1>2, <1>3, <1>4, <1>5

\* Only the commit of a guard and the drop of its receiver move a cursor.
LEMMA ReceiverKeepsCursors ==
  ASSUME TypeOK, NEW r \in Receivers, ReceiverStep(r), NEW q \in Receivers,
         q # r \/ ~(FinishGuard(r) \/ DropReceiver(r))
  PROVE  hist'[Consumed(q)] = hist[Consumed(q)]
<1>1. Consumed(q) \in Locations /\ (q # r => Consumed(q) # Consumed(r))
  BY DEF Consumed, Locations
<1> QED
  BY <1>1, ReceiverHist DEF ReadBy, Consumed

\* The commit of a guard consumes the batch it covers (guards.rs, consumer.rs:71-79).
LEMMA FinishIsDone ==
  ASSUME TypeOK, IndInv, Exact, Exact', NEW r \in Receivers, FinishGuard(r)
  PROVE  \E n \in 1 .. Capacity : Log!Done(r, n)
<1> DEFINE n == rd[r].top - Cursor(r)
<1>1. ReceiverStep(r) /\ ~DropReceiver(r) /\ rpc[r] = "guard"
  BY DEF ReceiverStep, FinishGuard, DropReceiver
<1>2. /\ rd[r].base = Cursor(r) /\ rd[r].base < rd[r].top /\ rd[r].top <= rd[r].base + Capacity
      /\ rd[r].base \in Int /\ rd[r].top \in Int
  BY <1>1 DEF IndInv, ReaderSound, TypeOK, LocalsOK
<1>3. n \in 1 .. Capacity /\ Cursor(r) + n = rd[r].top /\ Cursor(r) \in Int
  BY <1>2, CapacityAssumption
<1>4. Cursor(r)' = rd[r].top /\ rpc'[r] = "idle"
  <2>1. PICK c : c = IF rpc[r] = "guard" THEN rd[r].top ELSE SHUTDOWN_OPEN
    OBVIOUS
  <2>2. Cursor(r)' = c /\ rpc'[r] = "idle"
    BY <2>1, CommitFacts
  <2> QED
    BY <1>1, <2>1, <2>2
<1>5. Cursors' = [Cursors EXCEPT ![r] = rd[r].top]
  BY <1>1, <1>4, ReceiverKeepsCursors, CursorsChanged
<1>6. Log!Live(r) /\ Cursors[r] = Cursor(r) /\ Itself[r] = r
  BY <1>1, LiveWhenNotDropped
<1>7. Covered(r) = (Cursor(r) + 1) .. rd[r].top
  BY <1>1, <1>2 DEF Covered
<1>8. View[r] = [y \in (Cursor(r) + 1) .. rd[r].top |-> y]
  BY <1>7 DEF View
<1>9. View' = [View EXCEPT ![r] = Log!NoBatch]
  <2>1. Covered(r)' = {} /\ \A q \in Receivers \ {r} : rpc'[q] = rpc[q] /\ rd'[q] = rd[q]
    BY <1>1, <1>4, ReceiverLocals DEF Covered
  <2>2. View' = [View EXCEPT ![r] = [y \in {} |-> y]]
    BY <2>1, ViewChanged
  <2> QED
    BY <2>2 DEF Log!NoBatch
<1>10. Shown = View /\ Shown' = View' /\ told' = told
  BY DEF Exact, FinishGuard
<1> HIDE DEF n, Cursor
<1>11. Log!NextBatch(r, n) = (Cursor(r) + 1) .. rd[r].top
  BY <1>3, <1>6 DEF Log!NextBatch
<1>12. Cursors' = [Cursors EXCEPT ![r] = @ + n]
  BY <1>3, <1>5, <1>6
<1>13. /\ Log!Live(Itself[r]) /\ Shown[r] = [y \in Log!NextBatch(r, n) |-> y]
       /\ Cursors' = [Cursors EXCEPT ![Itself[r]] = @ + n]
       /\ Shown' = [Shown EXCEPT ![r] = Log!NoBatch]
  BY <1>6, <1>8, <1>9, <1>10, <1>11, <1>12
<1>14. LogTail' = LogTail /\ Shut' = Shut /\ Owned' = Owned /\ Published' = Published /\ Closed' = Closed
  BY <1>1, ReceiverKeepsSenders
<1>15. Log!Done(r, n)
  BY <1>10, <1>13, <1>14 DEF Log!Done
<1> QED
  BY <1>3, <1>15

\* A dropped receiver leaves the log (consumer.rs:82-88).
LEMMA DropIsLeave ==
  ASSUME TypeOK, IndInv, Exact, Exact', NEW r \in Receivers, DropReceiver(r)
  PROVE  Log!Leave(r)
<1>1. ReceiverStep(r) /\ ~FinishGuard(r) /\ rpc[r] = "idle"
  BY DEF ReceiverStep, FinishGuard, DropReceiver
<1>2. Cursor(r)' = SHUTDOWN_OPEN /\ rpc'[r] = "dropped"
  <2>1. PICK c : c = IF rpc[r] = "guard" THEN rd[r].top ELSE SHUTDOWN_OPEN
    OBVIOUS
  <2>2. Cursor(r)' = c /\ rpc'[r] = "dropped"
    BY <2>1, CommitFacts
  <2> QED
    BY <1>1, <2>1, <2>2
<1>3. Cursors' = [Cursors EXCEPT ![r] = SHUTDOWN_OPEN]
  BY <1>1, <1>2, ReceiverKeepsCursors, CursorsChanged
<1>4. \A q \in Receivers : Covered(q)' = Covered(q)
  <2>1. Covered(r)' = Covered(r)
    BY <1>1, <1>2 DEF Covered
  <2>2. \A q \in Receivers \ {r} : Covered(q)' = Covered(q)
    BY <1>1, ReceiverLocals DEF Covered
  <2> QED
    BY <2>1, <2>2
<1>5. Shown' = Shown /\ Shown[r] = Log!NoBatch
  BY <1>1, <1>4, ViewKept, NothingSeen DEF Exact
<1>6. \A q \in Receivers : Itself[q] = r => Shown[q] = Log!NoBatch
  BY <1>5 DEF Itself
<1>7. LogTail' = LogTail /\ Shut' = Shut /\ Owned' = Owned /\ Published' = Published /\ Closed' = Closed
  BY <1>1, ReceiverKeepsSenders
<1>8. told' = told
  BY DEF DropReceiver
<1> QED
  BY <1>3, <1>5, <1>6, <1>7, <1>8 DEF Log!Leave

\* How one load of a scan leaves its receiver.
LEMMA ScanAnswers ==
  ASSUME TypeOK, NEW r \in Receivers, ScanSlot(r)
  PROVE  /\ rpc[r] = "scan"
         /\ \/ rpc' = rpc /\ told' = told
            \/ rpc' = [rpc EXCEPT ![r] = "guard"] /\ told' = [told EXCEPT ![r] = "Ok"]
            \/ /\ rpc' = [rpc EXCEPT ![r] = "idle"]
               /\ \E answer \in {"Empty", "Disconnected"} : told' = [told EXCEPT ![r] = answer]
<1>1. rpc[r] = "scan"
  BY DEF ScanSlot
<1>2. PICK k : Scans(r, k)
  BY ScanEffect
<1> DEFINE d == rd[r]
           m == hist[State(IndexOf(d.pos))][k]
           ready == m.val.flag = AvailableFlag(d.pos)
           outcome == ScanOutcome(d.base, IF ready THEN d.pos ELSE d.pos - 1, d.sd \/ m.val.down)
<1>3. \/ rpc' = rpc /\ told' = told
      \/ /\ told' = [told EXCEPT ![r] = outcome]
         /\ IF outcome = "Ok" THEN rpc' = [rpc EXCEPT ![r] = "guard"]
                             ELSE rpc' = [rpc EXCEPT ![r] = "idle"]
  <2> HIDE DEF Last, Newest
  <2> QED
    BY <1>2 DEF Scans
<1>4. outcome \in {"Ok", "Empty", "Disconnected"}
  BY DEF ScanOutcome
<1> HIDE DEF outcome
<1> QED
  BY <1>1, <1>3, <1>4

\* Until its scan is over, a receiver sees and is told nothing new.
LEMMA WithoutGuard ==
  ASSUME TypeOK, NEW r \in Receivers, ReceiverStep(r), rpc[r] # "guard", rpc'[r] # "guard"
  PROVE  View' = View
<1>1. Covered(r)' = Covered(r)
  BY DEF Covered
<1>2. \A q \in Receivers \ {r} : Covered(q)' = Covered(q)
  BY ReceiverLocals DEF Covered
<1> QED
  BY <1>1, <1>2, ViewKept

\* A scan that found items shows them: all of them are published, and its fence
\* hands on the writes (slot_states.rs:144-164).
LEMMA ScanIsShow ==
  ASSUME TypeOK, IndInv, TypeOK', Exact, Exact', NEW r \in Receivers, ScanSlot(r),
         rpc' = [rpc EXCEPT ![r] = "guard"], told' = [told EXCEPT ![r] = "Ok"]
  PROVE  \E n \in 1 .. Capacity : Log!Show(r, n)
<1>1. ReceiverStep(r) /\ ~FinishGuard(r) /\ ~DropReceiver(r) /\ rpc[r] = "scan" /\ hist' = hist
  BY DEF ReceiverStep, ScanSlot, FinishGuard, DropReceiver
<1>2. rpc'[r] = "guard"
  BY DEF TypeOK, LocalsOK
<1>3. PICK base, d : base = rd[r].base /\ d = rd'[r]
  OBVIOUS
<1>4. /\ base = Cursor(r) /\ d.base = base /\ base < d.top
      /\ d.top <= base + Capacity /\ d.top <= Highest /\ Covers(cur'[r], d.top)
  BY <1>2, <1>3, ScanKept
<1>5. /\ Cursor(r) \in -1 .. Highest /\ Log!Live(r) /\ Cursors[r] = Cursor(r) /\ Itself[r] = r
      /\ View[r] = Log!NoBatch
  BY <1>1, LiveWhenNotDropped, NothingSeen
<1>6. /\ base \in Int /\ d.top \in Int /\ Highest \in Int /\ Capacity \in Nat /\ MemoryOK' /\ r \in Threads
  BY <1>3, HighestIsBound, CapacityAssumption DEF TypeOK, LocalsOK, Threads
<1> DEFINE n == d.top - base
<1>7. n \in 1 .. Capacity /\ base + n = d.top
  BY <1>4, <1>6
<1>8. ASSUME NEW y \in (base + 1) .. d.top PROVE y \in Published
  <2>1. y \in 0 .. d.top /\ y \in 0 .. Highest /\ y \in Int
    <3>1. -1 <= base
      BY <1>4, <1>5
    <3> QED
      BY <1>4, <1>6, <3>1
  <2>2. cur'[r][State(IndexOf(y))] >= Pos(y)
    BY <1>4, <2>1 DEF Covers
  <2>3. Pos(y) \in Int /\ State(IndexOf(y)) \in Locations
    BY <2>1, PosType DEF Locations
  <2>4. cur'[r][State(IndexOf(y))] <= Len(hist[State(IndexOf(y))]) /\ cur'[r][State(IndexOf(y))] \in Int
    <3>1. cur'[r][State(IndexOf(y))] <= Len(hist'[State(IndexOf(y))])
      BY <1>6, <2>3 DEF MemoryOK
    <3>2. cur'[r] \in Views
      BY <1>6 DEF MemoryOK
    <3>3. cur'[r][State(IndexOf(y))] \in Int
      BY <2>3, <3>2 DEF Views
    <3> QED
      BY <1>1, <3>1, <3>3
  <2>5. Last(State(IndexOf(y))) \in Int
    BY <2>3, MemoryTypes DEF TypeOK
  <2>6. Pos(y) <= Last(State(IndexOf(y)))
    BY <2>2, <2>3, <2>4, <2>5
  <2> QED
    BY <2>1, <2>6 DEF Published
<1>9. View' = [View EXCEPT ![r] = [y \in (base + 1) .. d.top |-> y]]
  <2>1. Covered(r)' = (base + 1) .. d.top
    BY <1>2, <1>3, <1>4 DEF Covered
  <2>2. \A q \in Receivers \ {r} : rpc'[q] = rpc[q] /\ rd'[q] = rd[q]
    BY <1>1, ReceiverLocals
  <2> QED
    BY <2>1, <2>2, ViewChanged
<1>10. Cursors' = Cursors
  BY <1>1, CursorsStay
<1>11. LogTail' = LogTail /\ Shut' = Shut /\ Owned' = Owned /\ Published' = Published /\ Closed' = Closed
  BY <1>1, ReceiverKeepsSenders
<1> HIDE DEF n, Cursor
<1>12. Log!NextBatch(r, n) = (base + 1) .. d.top
  BY <1>4, <1>5, <1>7 DEF Log!NextBatch
<1>13. Log!NextBatch(r, n) \subseteq Published
  BY <1>8, <1>12
<1>14. Shown[r] = Log!NoBatch /\ Shown' = [Shown EXCEPT ![r] = [y \in Log!NextBatch(r, n) |-> y]]
  BY <1>5, <1>9, <1>12 DEF Exact
<1>15. Log!Live(Itself[r])
  BY <1>5
<1>16. Log!Show(r, n)
  BY <1>10, <1>11, <1>13, <1>14, <1>15 DEF Log!Show
<1> QED
  BY <1>7, <1>16

\* A scan that found nothing misses, and what it tells of the end is true at once:
\* only Empty may be told of an item published meanwhile (consumer.rs:57-68).
LEMMA ScanIsMiss ==
  ASSUME TypeOK, IndInv, Exact, Exact', NEW r \in Receivers, ScanSlot(r),
         NEW answer \in {"Empty", "Disconnected"},
         rpc' = [rpc EXCEPT ![r] = "idle"], told' = [told EXCEPT ![r] = answer]
  PROVE  Log!Miss(r, answer)
<1>1. ReceiverStep(r) /\ ~FinishGuard(r) /\ ~DropReceiver(r) /\ rpc[r] = "scan" /\ hist' = hist
  BY DEF ReceiverStep, ScanSlot, FinishGuard, DropReceiver
<1>2. rpc'[r] = "idle" /\ told'[r] = answer
  BY DEF TypeOK, LocalsOK
<1>3. /\ Cursor(r) \in -1 .. Highest /\ Log!Live(r) /\ Cursors[r] = Cursor(r) /\ Itself[r] = r
      /\ View[r] = Log!NoBatch
  BY <1>1, LiveWhenNotDropped, NothingSeen
<1>4. answer = "Disconnected" => Cursor(r) + 1 \notin Published /\ Closed
  <2>1. PICK base, d : base = rd[r].base /\ d = rd'[r]
    OBVIOUS
  <2>2. answer = "Disconnected" => Highest = Cursor(r) /\ Closed
    BY <1>2, <2>1, ScanKept
  <2>3. \A x \in Published : x <= Highest
    BY DEF Published
  <2>4. ~(Highest + 1 <= Highest)
    BY HighestIsBound
  <2> QED
    BY <2>2, <2>3, <2>4
<1>5. View' = View
  BY <1>1, <1>2, WithoutGuard
<1>6. Cursors' = Cursors
  BY <1>1, CursorsStay
<1>7. LogTail' = LogTail /\ Shut' = Shut /\ Owned' = Owned /\ Published' = Published /\ Closed' = Closed
  BY <1>1, ReceiverKeepsSenders
<1> HIDE DEF Cursor
<1>8. Shown' = Shown /\ Shown[r] = Log!NoBatch
  BY <1>3, <1>5 DEF Exact
<1>9. answer = "Disconnected" => Cursors[Itself[r]] + 1 \notin Published /\ Closed
  BY <1>3, <1>4
<1>10. Log!Live(Itself[r])
  BY <1>3
<1> QED
  BY <1>6, <1>7, <1>8, <1>9, <1>10 DEF Log!Miss

\* Receiver steps that load, scan on or look at an item are none of the log's.
LEMMA ReceiverStutters ==
  ASSUME TypeOK, IndInv, Exact, Exact', NEW r \in Receivers, ReceiverStep(r),
         ~FinishGuard(r), ~DropReceiver(r), told' = told, View' = View
  PROVE  UNCHANGED Log!logVars
<1>1. Cursors' = Cursors
  BY ReceiverKeepsCursors, CursorsStay
<1>2. LogTail' = LogTail /\ Shut' = Shut /\ Owned' = Owned /\ Published' = Published /\ Closed' = Closed
  BY ReceiverKeepsSenders
<1>3. Shown' = Shown
  BY DEF Exact
<1> QED
  BY <1>1, <1>2, <1>3 DEF Log!logVars

\* Every step of the receivers is one of the log's, or none.
LEMMA ReceiverLogStep ==
  ASSUME TypeOK, IndInv, TypeOK', Exact, Exact', NEW r \in Receivers, ReceiverStep(r)
  PROVE  [Log!Next]_(Log!logVars)
<1>1. CASE \E n \in Limits : StartRecv(r, n)
  <2>1. /\ rpc[r] = "idle" /\ rpc'[r] = "scan" /\ told' = told /\ ~FinishGuard(r) /\ ~DropReceiver(r)
    BY <1>1 DEF StartRecv, FinishGuard, DropReceiver, TypeOK, LocalsOK
  <2>2. View' = View
    BY <2>1, WithoutGuard
  <2> QED
    BY <2>1, <2>2, ReceiverStutters
<1>2. CASE ScanSlot(r)
  <2>1. CASE rpc' = rpc /\ told' = told
    <3>1. /\ ~FinishGuard(r) /\ ~DropReceiver(r) /\ rpc[r] # "guard" /\ rpc'[r] # "guard"
      BY <1>2, <2>1 DEF ScanSlot, FinishGuard, DropReceiver
    <3>2. View' = View
      BY <3>1, WithoutGuard
    <3> QED
      BY <2>1, <3>1, <3>2, ReceiverStutters
  <2>2. CASE rpc' = [rpc EXCEPT ![r] = "guard"] /\ told' = [told EXCEPT ![r] = "Ok"]
    BY <1>2, <2>2, ScanIsShow DEF Log!Next
  <2>3. CASE rpc' = [rpc EXCEPT ![r] = "idle"]
             /\ \E answer \in {"Empty", "Disconnected"} : told' = [told EXCEPT ![r] = answer]
    BY <1>2, <2>3, ScanIsMiss DEF Log!Next
  <2> QED
    BY <1>2, <2>1, <2>2, <2>3, ScanAnswers
<1>3. CASE ReadItem(r)
  <2>1. /\ rpc[r] = "guard" /\ rpc' = rpc /\ told' = told /\ ~FinishGuard(r) /\ ~DropReceiver(r)
    <3>1. rpc[r] = "guard" /\ rpc' = rpc /\ told' = told /\ ~DropReceiver(r)
      BY <1>3 DEF ReadItem, DropReceiver
    <3>2. ~FinishGuard(r)
      <4>1. ASSUME FinishGuard(r) PROVE rpc'[r] = "idle"
        BY <4>1 DEF FinishGuard, TypeOK, LocalsOK
      <4> QED
        BY <3>1, <4>1
    <3> QED
      BY <3>1, <3>2
  <2>2. rd'[r].base = rd[r].base /\ rd'[r].top = rd[r].top
    <3>1. PICK y, l : y = rd[r].pos /\ l = ReadBy(IndexOf(y), r)
      OBVIOUS
    <3>2. rd'[r] = [base |-> rd[r].base, top |-> rd[r].top, pos |-> y + 1, sd |-> rd[r].sd]
      BY <1>3, <3>1, ReadFacts
    <3> QED
      BY <3>2
  <2>3. View' = View
    <3>1. \A q \in Receivers \ {r} : Covered(q)' = Covered(q)
      BY ReceiverLocals DEF Covered
    <3>2. Covered(r)' = Covered(r)
      BY <2>1, <2>2 DEF Covered
    <3> QED
      BY <3>1, <3>2, ViewKept
  <2> QED
    BY <2>1, <2>3, ReceiverStutters
<1>4. CASE FinishGuard(r)
  BY <1>4, FinishIsDone DEF Log!Next
<1>5. CASE DropReceiver(r)
  BY <1>5, DropIsLeave DEF Log!Next
<1> QED
  BY <1>1, <1>2, <1>3, <1>4, <1>5 DEF ReceiverStep

\* Every step is one of the log's, or none.
LEMMA LogStep ==
  ASSUME TypeOK, IndInv, TypeOK', Exact, Exact', [Next]_vars
  PROVE  [Log!Next]_(Log!logVars)
<1>1. CASE UNCHANGED vars
  <2>1. hist' = hist /\ pc' = pc /\ own' = own /\ rpc' = rpc /\ rd' = rd /\ told' = told /\ cur' = cur
    BY <1>1 DEF vars, memVars, senderVars, readerVars
  <2>2. LogTail' = LogTail /\ Shut' = Shut /\ Cursors' = Cursors
    BY <2>1, ClaimedStays, CursorsStay
  <2>3. Owned' = Owned /\ Published' = Published /\ Closed' = Closed
    BY <2>1 DEF Owned, Published, Highest, Closed
  <2>4. View' = View
    BY <2>1, ViewKept DEF Covered
  <2> QED
    BY <2>1, <2>2, <2>3, <2>4 DEF Log!logVars, Exact
<1>2. ASSUME NEW s \in Senders, SenderStep(s) PROVE [Log!Next]_(Log!logVars)
  <2>1. CASE CloseMark(s)
    BY <1>2, <2>1, MarkIsAnnounce DEF Log!Next
  <2>2. CASE ~CloseMark(s)
    <3>1. Closed' = Closed
      BY <1>2, <2>2, ClosedStep
    <3>2. CASE CasClaim(s)
      BY <3>1, <3>2, CasIsClaim DEF Log!Next
    <3>3. CASE PublishSlot(s)
      BY <3>1, <3>3, PublishIsPublish DEF Log!Next
    <3>4. CASE CloseStore(s)
      BY <3>1, <3>4, CloseIsShutdown DEF Log!Next
    <3>5. CASE ~CasClaim(s) /\ ~PublishSlot(s) /\ ~CloseStore(s)
      BY <1>2, <3>1, <3>5, SenderStutters
    <3> QED
      BY <3>2, <3>3, <3>4, <3>5
  <2> QED
    BY <2>1, <2>2
<1>3. ASSUME NEW r \in Receivers, ReceiverStep(r) PROVE [Log!Next]_(Log!logVars)
  BY <1>3, ReceiverLogStep
<1> QED
  BY <1>1, <1>2, <1>3 DEF Next, Terminated

LEMMA StateIsExact ==
  ASSUME TypeOK, IndInv
  PROVE  Exact
BY ShownIsView, PublishedIs DEF Exact

LEMMA InitLog ==
  ASSUME Init
  PROVE  Log!Init
<1>1. \A l \in Locations : hist[l] = <<[val |-> Initially(l), view |-> [m \in Locations |-> 1]]>>
  BY DEF Init
<1>2. ASSUME NEW l \in Locations PROVE Newest(l).val = Initially(l)
  <2>1. PICK m : m = [val |-> Initially(l), view |-> [n \in Locations |-> 1]] /\ hist[l] = <<m>>
    BY <1>1
  <2>2. Len(hist[l]) = 1 /\ hist[l][1] = m
    BY <2>1
  <2>3. m.val = Initially(l)
    BY <2>1
  <2> QED
    BY <2>2, <2>3
<1>3. Highest = -1 /\ Shut = FALSE
  <2>1. Claimed \in Locations /\ Initially(Claimed) = [seq |-> -1, down |-> FALSE]
    BY DEF Locations, Initially, State, Claimed, Refs
  <2>2. Newest(Claimed).val = [seq |-> -1, down |-> FALSE]
    BY <1>2, <2>1
  <2> QED
    BY <2>2 DEF Highest, Shut
<1>4. Cursors = [r \in Receivers |-> -1]
  <2>1. ASSUME NEW r \in Receivers PROVE Cursor(r) = -1
    <3>1. Consumed(r) \in Locations /\ Initially(Consumed(r)) = -1
      BY DEF Locations, Initially, State, Claimed, Refs, Consumed
    <3> QED
      BY <1>2, <3>1
  <2> HIDE DEF Cursor
  <2> QED
    BY <2>1 DEF Cursors
<1>5. Owned = {}
  BY DEF Init, Owned, Held, NoClaim
<1>6. Published = {}
  BY <1>3 DEF Published
<1>7. Shown = [r \in Receivers |-> Log!NoBatch]
  <2>1. \A r \in Receivers : Covered(r) = {}
    BY DEF Init, Covered
  <2> QED
    BY <2>1 DEF Shown, Log!NoBatch
<1>8. LogTail = -1 /\ told = [r \in Receivers |-> "none"]
  BY <1>3 DEF LogTail, Init
<1>9. Closed = FALSE
  BY SendersAssumption DEF Init, Closed
<1> QED
  BY <1>3, <1>4, <1>5, <1>6, <1>7, <1>8, <1>9 DEF Log!Init

\* The hot path with the code's relaxed, acquire and release operations implements
\* the same log as the channel whose threads see one value of each word: a claim
\* stays within reach of every receiver, a guard shows the items that come next,
\* Disconnected is told only once nothing is left, and all that stale loads can do
\* is to tell Empty late (lib.rs:262-320, ringbuffer.rs:10-28).
THEOREM FencesImplementLog == Spec => ImplementsLog
<1>1. Init => Log!Init
  BY InitLog
<1>2. TypeOK /\ IndInv => Exact
  BY StateIsExact
<1>3. TypeOK /\ IndInv /\ TypeOK' /\ Exact /\ Exact' /\ [Next]_vars => [Log!Next]_(Log!logVars)
  BY LogStep
<1> QED
  BY <1>1, <1>2, <1>3, Invariant, PTL DEF Spec, ImplementsLog, Log!Spec
===============================================================================
