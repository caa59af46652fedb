-------------------------- MODULE AsyncChannelProofs ---------------------------
(***************************************************************************)
(* Proofs about AsyncChannel: it implements EnsoChannel, so that every     *)
(* theorem of EnsoChannelProofs holds of it, and no wake-up is lost.       *)
(***************************************************************************)
EXTENDS AsyncChannel, EnsoChannelProofs

-------------------------------------------------------------------------------
(* The channel with wake-ups implements the channel. *)

Asked == AsyncTypeOK /\ CallsHaveLimits

LEMMA AsyncInitAsked ==
  ASSUME AsyncInit
  PROVE  Asked
BY ReceiversAssumption DEF AsyncInit, Asked, AsyncTypeOK, CallsHaveLimits, TaskPlaces

\* A task that is inside a call has a limit that was given to it.
LEMMA AskedStep ==
  ASSUME Asked, [AsyncNext]_asyncVars
  PROVE  Asked'
<1> USE DEF Asked
<1>1. ASSUME NEW s \in Senders, AsyncSenderStep(s) PROVE Asked'
  <2>1. CASE UNCHANGED wakeVars
    BY <2>1 DEF wakeVars, AsyncTypeOK, CallsHaveLimits
  <2>2. ASSUME NEW x \in held[s], Commit(s, x) PROVE Asked'
    BY <2>2, ReceiversAssumption DEF Commit, AsyncTypeOK, CallsHaveLimits, CommitNotifies
  <2>3. CASE CloseAndNotify(s)
    BY <2>3, ReceiversAssumption DEF CloseAndNotify, AsyncTypeOK, CallsHaveLimits, CloseNotifies
  <2>4. CASE Notify(s)
    <3>1. wk[s] \in 0 .. NumReceivers /\ wk[s] # NumReceivers
      BY <2>4 DEF Notify, Notified, AsyncTypeOK
    <3>2. wk[s] + 1 \in 0 .. NumReceivers
      BY <3>1, ReceiversAssumption
    <3>3. wk' \in [Senders -> 0 .. NumReceivers]
      BY <2>4, <3>2 DEF Notify, AsyncTypeOK, NextWaker
    <3> QED
      BY <2>4, <3>3 DEF Notify, AsyncTypeOK, CallsHaveLimits
  <2> QED
    BY <1>1, <2>1, <2>2, <2>3, <2>4 DEF AsyncSenderStep
<1>2. CASE UNCHANGED wakeVars
  BY <1>2 DEF wakeVars, AsyncTypeOK, CallsHaveLimits
<1>3. ASSUME NEW g \in Readers, NEW k \in Limits, BeginRecv(g, k) PROVE Asked'
  BY <1>3 DEF BeginRecv, AsyncTypeOK, CallsHaveLimits, TaskPlaces
<1>4. ASSUME NEW g \in Readers, AttemptScan(g) PROVE Asked'
  <2>1. task[g] \in {"first", "second"} /\ ask[g] \in Limits
    BY <1>4 DEF AttemptScan, CallsHaveLimits
  <2>2. CASE UNCHANGED task
    BY <1>4, <2>2 DEF AttemptScan, AsyncTypeOK, CallsHaveLimits
  <2>3. CASE task' = [task EXCEPT ![g] = AfterAttempt(task[g], rres'[g])]
    <3>1. AfterAttempt(task[g], rres'[g]) \in TaskPlaces
      BY <2>1 DEF AfterAttempt, TaskPlaces
    <3> QED
      BY <1>4, <2>1, <2>3, <3>1 DEF AttemptScan, AsyncTypeOK, CallsHaveLimits
  <2> QED
    BY <1>4, <2>2, <2>3 DEF AttemptScan
<1>5. ASSUME NEW g \in Readers, Register(g) PROVE Asked'
  BY <1>5, ReadersAssumption DEF Register, AfterRegister, AsyncTypeOK, CallsHaveLimits, TaskPlaces
<1>6. ASSUME NEW g \in Readers, Recheck(g) \/ Repoll(g) \/ DropFuture(g) PROVE Asked'
  BY <1>6 DEF Recheck, Repoll, DropFuture, AsyncTypeOK, CallsHaveLimits, TaskPlaces
<1> QED
  BY <1>1, <1>2, <1>3, <1>4, <1>5, <1>6
  DEF AsyncNext, AsyncSenderCall, TaskStep, EndGuard, AsyncDropReceiver, asyncVars

\* Every step is a step of the channel or leaves its variables alone.
LEMMA AsyncStepIsStep ==
  ASSUME Asked, AsyncNext
  PROVE  Next \/ UNCHANGED vars
<1>1. ASSUME NEW s \in Senders, AsyncSenderStep(s) PROVE Next \/ UNCHANGED vars
  BY <1>1 DEF AsyncSenderStep, Commit, CloseAndNotify, Notify, Next, SenderNext, SenderStep
<1>2. ASSUME NEW s \in Senders, AsyncSenderCall(s) PROVE Next
  BY <1>2 DEF AsyncSenderCall, Next, SenderNext
<1>3. ASSUME NEW g \in Readers, TaskStep(g) \/ Repoll(g) \/ DropFuture(g) \/ EndGuard(g)
      PROVE  Next \/ UNCHANGED vars
  <2>1. Recheck(g) \/ Repoll(g) => ask[g] \in Limits
    BY DEF Recheck, Repoll, Asked, CallsHaveLimits
  <2> QED
    BY <1>3, <2>1 DEF TaskStep, BeginRecv, AttemptScan, Register, Recheck, Repoll, DropFuture,
                      EndGuard, Next, ReaderStep
<1>4. ASSUME NEW r \in Receivers, AsyncDropReceiver(r) PROVE Next
  BY <1>4 DEF AsyncDropReceiver, Next
<1>5. Terminated => Next
  BY DEF Next
<1> QED
  BY <1>1, <1>2, <1>3, <1>4, <1>5 DEF AsyncNext

\* The refinement: commit, close and every attempt of a task are those of the
\* channel; notify, registration and the executor change nothing it knows of.
THEOREM AsyncRefines == AsyncSpec => Spec
<1>1. AsyncInit => Init /\ Asked
  BY AsyncInitAsked DEF AsyncInit
<1>2. Asked /\ [AsyncNext]_asyncVars => Asked'
  BY AskedStep
<1>3. Asked /\ [AsyncNext]_asyncVars => [Next]_vars
  BY AsyncStepIsStep DEF asyncVars, Next
<1> QED
  BY <1>1, <1>2, <1>3, PTL DEF AsyncSpec, Spec
-------------------------------------------------------------------------------
(* No wake-up is lost. *)

\* A sender leaves the receivers and their tasks alone, except that notify
\* takes tasks out of the wakers.
LEMMA SenderFrame ==
  ASSUME NEW s \in Senders, AsyncSenderStep(s) \/ AsyncSenderCall(s)
  PROVE  /\ UNCHANGED <<consumed, readerVars, task, ask>>
         /\ UNCHANGED <<cell, woken>> \/ Notify(s)
<1>1. CASE AsyncSenderStep(s)
  BY <1>1 DEF AsyncSenderStep, Commit, CloseAndNotify, Notify, LoadConsumed, CasClaim, CasRetry,
              FillSlot, CloseLoad, CloseScan, CloseMark, CloseStore, PublishSlot, wakeVars,
              vars, readerVars
<1>2. CASE AsyncSenderCall(s)
  BY <1>2 DEF AsyncSenderCall, StartClaim, CommitPanic, SlotPermitPanic, ForgetSlotPermit, Abandon, DropSender,
              CloneSender, wakeVars, readerVars
<1> QED
  BY <1>1, <1>2

\* What the actions of a task do to it, and to nobody else.
LEMMA TaskFrame ==
  ASSUME TypeOK, AsyncTypeOK, NEW h \in Readers,
         TaskStep(h) \/ Repoll(h) \/ DropFuture(h) \/ EndGuard(h)
  PROVE  /\ UNCHANGED <<senderVars, slotVars, wk>>
         /\ \A g \in Readers \ {h} : /\ task'[g] = task[g] /\ rpc'[g] = rpc[g]
                                      /\ ask'[g] = ask[g] /\ woken'[g] = woken[g]
         /\ UNCHANGED consumed \/ FinishGuard(h)
         /\ UNCHANGED cell \/ Register(h)
<1> DEFINE Frame ==
      /\ UNCHANGED <<senderVars, slotVars, wk>>
      /\ \A g \in Readers \ {h} : /\ task'[g] = task[g] /\ rpc'[g] = rpc[g]
                                   /\ ask'[g] = ask[g] /\ woken'[g] = woken[g]
      /\ UNCHANGED consumed \/ FinishGuard(h)
      /\ UNCHANGED cell \/ Register(h)
<1>1. ASSUME NEW k, StartRecv(h, k)
      PROVE  UNCHANGED <<senderVars, slotVars, consumed>> /\ rpc' = [rpc EXCEPT ![h] = "scan"]
  BY <1>1 DEF StartRecv
<1>2. ASSUME ScanSlot(h)
      PROVE  /\ UNCHANGED <<senderVars, slotVars, consumed>>
             /\ \A g \in Readers \ {h} : rpc'[g] = rpc[g]
  BY <1>2 DEF ScanSlot, TypeOK
<1>3. ASSUME FinishGuard(h) \/ ForgetGuard(h)
      PROVE  /\ UNCHANGED <<senderVars, slotVars>>
             /\ UNCHANGED consumed \/ FinishGuard(h)
             /\ rpc' = [rpc EXCEPT ![h] = "idle"]
  BY <1>3 DEF FinishGuard, ForgetGuard
<1>4. ASSUME NEW k \in Limits, BeginRecv(h, k) PROVE Frame
  BY <1>1, <1>4 DEF BeginRecv, TypeOK, AsyncTypeOK
<1>5. ASSUME AttemptScan(h) PROVE Frame
  BY <1>2, <1>5 DEF AttemptScan, AsyncTypeOK
<1>6. ASSUME Register(h) PROVE Frame
  BY <1>6 DEF Register, vars, readerVars, AsyncTypeOK
<1>7. ASSUME Recheck(h) \/ Repoll(h) PROVE Frame
  BY <1>1, <1>7 DEF Recheck, Repoll, TypeOK, AsyncTypeOK
<1>8. ASSUME DropFuture(h) PROVE Frame
  BY <1>8 DEF DropFuture, vars, readerVars, AsyncTypeOK
<1>9. ASSUME FinishGuard(h) \/ ForgetGuard(h), UNCHANGED wakeVars PROVE Frame
  BY <1>3, <1>9 DEF wakeVars, TypeOK
<1> QED
  BY <1>4, <1>5, <1>6, <1>7, <1>8, <1>9 DEF TaskStep, EndGuard

LEMMA TasksInPlaceStep ==
  ASSUME IndInv, WakeInv, OneGuardPerReceiver, AsyncNext
  PROVE  TasksInPlace'
<1> USE DEF WakeInv
<1>0. TypeOK /\ AsyncTypeOK /\ TasksInPlace
  BY DEF IndInv
<1> DEFINE Placed(g) ==
      /\ rpc[g] = "scan" <=> task[g] \in {"first", "second"}
      /\ rpc[g] = "guard" => task[g] = "rest"
      /\ task[g] # "rest" => Open(rxOf[g])
<1>1. ASSUME NEW s \in Senders, AsyncSenderStep(s) \/ AsyncSenderCall(s) PROVE TasksInPlace'
  BY <1>0, <1>1, SenderFrame DEF TasksInPlace, Open, readerVars
<1>2. ASSUME NEW h \in Readers, TaskStep(h) \/ Repoll(h) \/ DropFuture(h) \/ EndGuard(h)
      PROVE  TasksInPlace'
  <2>0. Placed(h) /\ rpc \in [Readers -> {"idle", "scan", "guard"}] /\ rres \in [Readers -> Outcomes]
    BY <1>0 DEF TasksInPlace, TypeOK
  <2>1. Placed(h)'
    <3>1. ASSUME NEW k, StartRecv(h, k), task'[h] \in {"first", "second"} PROVE Placed(h)'
      BY <2>0, <3>1 DEF StartRecv, Open
    <3>2. CASE \E k \in Limits : BeginRecv(h, k)
      BY <1>0, <3>1, <3>2 DEF BeginRecv, AsyncTypeOK
    <3>3. CASE Recheck(h) \/ Repoll(h)
      BY <1>0, <3>1, <3>3 DEF Recheck, Repoll, AsyncTypeOK
    <3>4. CASE AttemptScan(h)
      <4>1. UNCHANGED consumed /\ Open(rxOf[h])
        BY <2>0, <3>4 DEF AttemptScan, ScanSlot
      <4>2. CASE rpc'[h] = "scan"
        BY <2>0, <3>4, <4>1, <4>2 DEF AttemptScan, Open
      <4>3. CASE rpc'[h] # "scan"
        <5>1. \/ rpc'[h] = "guard" /\ rres'[h] = "Ok"
              \/ rpc'[h] = "idle"
          BY <2>0, <3>4, <4>3 DEF AttemptScan, ScanSlot
        <5>2. task'[h] = AfterAttempt(task[h], rres'[h])
          BY <1>0, <3>4, <4>3 DEF AttemptScan, AsyncTypeOK
        <5>3. /\ task'[h] \notin {"first", "second"}
              /\ rres'[h] = "Ok" => task'[h] = "rest"
          BY <5>2 DEF AfterAttempt
        <5> QED
          BY <4>1, <5>1, <5>3 DEF Open
      <4> QED
        BY <4>2, <4>3
    <3>5. CASE Register(h)
      BY <1>0, <2>0, <3>5 DEF Register, AfterRegister, vars, readerVars, AsyncTypeOK, Open
    <3>6. CASE DropFuture(h)
      BY <1>0, <2>0, <3>6 DEF DropFuture, vars, readerVars, AsyncTypeOK, Open
    <3>7. CASE (FinishGuard(h) \/ ForgetGuard(h)) /\ UNCHANGED wakeVars
      BY <2>0, <3>7 DEF FinishGuard, ForgetGuard, wakeVars
    <3> QED
      BY <1>2, <3>2, <3>3, <3>4, <3>5, <3>6, <3>7 DEF TaskStep, EndGuard
  <2>2. ASSUME NEW g \in Readers \ {h} PROVE Placed(g)'
    <3>1. task'[g] = task[g] /\ rpc'[g] = rpc[g]
      BY <1>0, <1>2, TaskFrame
    <3>2. Open(rxOf[g]) => Open(rxOf[g])'
      <4>1. CASE UNCHANGED consumed
        BY <4>1 DEF Open
      <4>2. CASE FinishGuard(h)
        BY <4>2, FinishGuardEffect, OpenAssumption, ReadersAssumption DEF Open, IndInv, TypeOK
      <4> QED
        BY <1>0, <1>2, <4>1, <4>2, TaskFrame
    <3> QED
      BY <1>0, <3>1, <3>2 DEF TasksInPlace
  <2> QED
    BY <2>1, <2>2 DEF TasksInPlace
<1>3. ASSUME NEW r \in Receivers, AsyncDropReceiver(r) PROVE TasksInPlace'
  BY <1>0, <1>3 DEF AsyncDropReceiver, DropReceiver, TasksInPlace, Open, readerVars, wakeVars, TypeOK
<1>4. CASE Terminated /\ UNCHANGED wakeVars
  BY <1>0, <1>4 DEF Terminated, vars, readerVars, wakeVars, TasksInPlace, Open
<1> QED
  BY <1>1, <1>2, <1>3, <1>4 DEF AsyncNext

\* A registration lasts until the task is woken.
LEMMA RegisteredStep ==
  ASSUME WakeInv, TypeOK, OneGuardPerReceiver, AsyncNext
  PROVE  Registered'
<1> USE DEF WakeInv
<1>1. ASSUME NEW s \in Senders, AsyncSenderStep(s) \/ AsyncSenderCall(s) PROVE Registered'
  <2>1. CASE UNCHANGED <<cell, woken>>
    BY <1>1, <2>1, SenderFrame DEF Registered
  <2>2. CASE Notify(s)
    <3> SUFFICES ASSUME NEW g \in Readers, task'[g] \in {"recheck", "second", "parked"}
                 PROVE  woken'[g] \/ cell'[rxOf[g]] = g
      BY DEF Registered
    <3>1. woken[g] \/ cell[rxOf[g]] = g
      BY <2>2 DEF Notify, Registered
    <3>2. woken'[g] <=> (woken[g] \/ cell[wk[s]] = g)
      BY <2>2 DEF Notify
    <3>3. rxOf[g] # wk[s] => cell'[rxOf[g]] = cell[rxOf[g]]
      BY <2>2, ReadersAssumption DEF Notify, AsyncTypeOK
    <3> QED
      BY <3>1, <3>2, <3>3
  <2> QED
    BY <1>1, <2>1, <2>2, SenderFrame
<1>2. ASSUME NEW h \in Readers, TaskStep(h) \/ Repoll(h) \/ DropFuture(h) \/ EndGuard(h),
             NEW g \in Readers, task'[g] \in {"recheck", "second", "parked"}
      PROVE  woken'[g] \/ cell'[rxOf[g]] = g
  <2>1. CASE g # h
    <3>1. task'[g] = task[g] /\ woken'[g] = woken[g]
      BY <1>2, <2>1, TaskFrame
    <3>2. Register(h) => cell'[rxOf[g]] = cell[rxOf[g]]
      BY <2>1, ReadersAssumption DEF Register, OneGuardPerReceiver, AsyncTypeOK
    <3> QED
      BY <1>2, <3>1, <3>2, TaskFrame DEF Registered
  <2>2. CASE g = h
    <3>1. CASE Register(h)
      BY <2>2, <3>1, ReadersAssumption DEF Register, AsyncTypeOK
    <3>2. CASE Recheck(h)
      BY <1>2, <2>2, <3>2 DEF Recheck, Registered, AsyncTypeOK
    <3>3. CASE AttemptScan(h)
      <4>1. task[h] = "second"
        BY <1>2, <2>2, <3>3 DEF AttemptScan, AfterAttempt, AsyncTypeOK
      <4> QED
        BY <2>2, <3>3, <4>1 DEF AttemptScan, Registered
    <3>4. CASE Repoll(h) \/ DropFuture(h) \/ (\E k \in Limits : BeginRecv(h, k))
      BY <1>2, <2>2, <3>4 DEF Repoll, DropFuture, BeginRecv, AsyncTypeOK
    <3>5. CASE UNCHANGED wakeVars
      BY <1>2, <2>2, <3>5 DEF wakeVars, Registered
    <3> QED
      BY <1>2, <3>1, <3>2, <3>3, <3>4, <3>5 DEF TaskStep, EndGuard
  <2> QED
    BY <2>1, <2>2
<1>3. UNCHANGED wakeVars => Registered'
  BY DEF wakeVars, Registered
<1> QED
  BY <1>1, <1>2, <1>3 DEF AsyncNext, AsyncDropReceiver, Registered

\* A sender that is about to touch a state word, or has, goes on to notify.
LEMMA OwedStep ==
  ASSUME TypeOK, AsyncTypeOK, NEW r \in Receivers, AsyncNext
  PROVE  \/ \E s \in Senders : OwesWake(s, r)'
         \/ \E s \in Senders : Notify(s) /\ wk[s] = r
         \/ UNCHANGED slotVars /\ ~\E s \in Senders : OwesWake(s, r)
<1>0. r \in Nat /\ r < NumReceivers /\ NumReceivers \in Nat
  BY ReceiversAssumption DEF Receivers
<1>1. ASSUME NEW s \in Senders, NEW x \in held[s], Commit(s, x) PROVE OwesWake(s, r)'
  <2>1. CASE held[s] = {x}
    BY <1>0, <1>1, <2>1 DEF Commit, CommitNotifies, OwesWake, AsyncTypeOK
  <2>2. CASE held[s] # {x}
    BY <1>1, <2>2 DEF Commit, PublishSlot, OwesWake
  <2> QED
    BY <2>1, <2>2
<1>2. ASSUME NEW s \in Senders, CloseAndNotify(s) PROVE OwesWake(s, r)'
  BY <1>0, <1>2 DEF CloseAndNotify, CloseNotifies, OwesWake, AsyncTypeOK
<1>3. ASSUME NEW s \in Senders, CloseMark(s) PROVE OwesWake(s, r)'
  BY <1>3 DEF CloseMark, OwesWake, TypeOK
<1>4. ASSUME NEW s \in Senders, Notify(s)
      PROVE  \/ wk[s] = r
             \/ \E t \in Senders : OwesWake(t, r)'
             \/ UNCHANGED slotVars /\ ~\E t \in Senders : OwesWake(t, r)
  <2>1. UNCHANGED slotVars /\ UNCHANGED pc
    BY <1>4 DEF Notify, vars, senderVars
  <2>2. ASSUME NEW t \in Senders, OwesWake(t, r), wk[s] # r PROVE OwesWake(t, r)'
    <3>1. wk[s] \in Nat /\ wk' = [wk EXCEPT ![s] = wk[s] + 1] /\ wk[t] \in Nat
      BY <1>4 DEF Notify, NextWaker, AsyncTypeOK
    <3> QED
      BY <1>0, <2>1, <2>2, <3>1 DEF OwesWake, AsyncTypeOK
  <2> QED
    BY <2>1, <2>2
<1>5. ASSUME UNCHANGED slotVars, UNCHANGED wk,
             \A t \in Senders : pc[t] \in {"publish", "cstore"} => pc'[t] = pc[t]
      PROVE  \/ \E t \in Senders : OwesWake(t, r)'
             \/ UNCHANGED slotVars /\ ~\E t \in Senders : OwesWake(t, r)
  BY <1>5 DEF OwesWake
<1>6. ASSUME NEW s \in Senders,
             LoadConsumed(s) \/ CasClaim(s) \/ CasRetry(s) \/ FillSlot(s) \/ CloseLoad(s) \/ CloseScan(s)
      PROVE  /\ UNCHANGED slotVars
             /\ \A t \in Senders : pc[t] \in {"publish", "cstore"} => pc'[t] = pc[t]
  BY <1>6 DEF LoadConsumed, CasClaim, CasRetry, FillSlot, CloseLoad, CloseScan, GiveUp, TypeOK, slotVars
<1>7. ASSUME NEW s \in Senders, AsyncSenderCall(s)
      PROVE  /\ UNCHANGED slotVars
             /\ \A t \in Senders : pc[t] \in {"publish", "cstore"} => pc'[t] = pc[t]
  BY <1>7 DEF AsyncSenderCall, StartClaim, CommitPanic, SlotPermitPanic, ForgetSlotPermit, Abandon, DropSender,
              CloneSender, TypeOK, slotVars
<1>8. ASSUME NEW h \in Readers, TaskStep(h) \/ Repoll(h) \/ DropFuture(h) \/ EndGuard(h)
      PROVE  UNCHANGED <<slotVars, pc, wk>>
  BY <1>8, TaskFrame DEF senderVars
<1>9. ASSUME NEW q \in Receivers, AsyncDropReceiver(q) PROVE UNCHANGED <<slotVars, pc, wk>>
  BY <1>9 DEF AsyncDropReceiver, DropReceiver, senderVars, wakeVars
<1>10. CASE Terminated /\ UNCHANGED wakeVars
  BY <1>5, <1>10 DEF Terminated, vars, senderVars, wakeVars
<1>11. ASSUME NEW s \in Senders, AsyncSenderStep(s) \/ AsyncSenderCall(s),
              ~Notify(s), ~CloseAndNotify(s), ~CloseMark(s), ~\E x \in held[s] : Commit(s, x)
       PROVE  UNCHANGED wk
  BY <1>11 DEF AsyncSenderStep, AsyncSenderCall, wakeVars
<1>12. ASSUME NEW s \in Senders, AsyncSenderStep(s) \/ AsyncSenderCall(s)
       PROVE  \/ \E t \in Senders : OwesWake(t, r)'
              \/ Notify(s) /\ wk[s] = r
              \/ UNCHANGED slotVars /\ ~\E t \in Senders : OwesWake(t, r)
  BY <1>1, <1>2, <1>3, <1>4, <1>5, <1>6, <1>7, <1>11, <1>12 DEF AsyncSenderStep
<1> QED
  BY <1>5, <1>8, <1>9, <1>10, <1>12 DEF AsyncNext

\* A second attempt ends Empty only if the next slot has no item and no mark.
LEMMA ParkSeesNothing ==
  ASSUME IndInv, WakeInv, NEW g \in Readers, AttemptScan(g), task'[g] = "parked"
  PROVE  ~SomethingToSee(rxOf[g]) /\ UNCHANGED <<slotVars, consumed>>
<1> DEFINE r == rxOf[g]
           d == rd[g]
<1>0. AsyncTypeOK /\ TypeOK
  BY DEF IndInv, WakeInv
<1>1. ScanSlot(g) /\ rpc[g] = "scan" /\ UNCHANGED <<slotVars, consumed>>
  BY DEF AttemptScan, ScanSlot, slotVars
<1>2. rpc'[g] # "scan" /\ rres'[g] = "Empty"
  BY <1>0 DEF AttemptScan, AfterAttempt, AsyncTypeOK
<1>3. /\ r \in Receivers /\ d.base = consumed[r] /\ d.base < d.pos
      /\ d.base \in Int /\ d.pos \in Int /\ rres \in [Readers -> Outcomes]
  BY <1>1, LocalTypes DEF IndInv, ReaderSound, TypeOK, ScanType
<1>4. ~SlotReady(d.pos) /\ d.pos - 1 <= d.base /\ ~shut[IndexOf(d.pos)]
  BY <1>1, <1>2, <1>3 DEF ScanSlot, ScanOutcome
<1>5. d.pos = consumed[r] + 1
  BY <1>3, <1>4
<1> QED
  BY <1>1, <1>4, <1>5 DEF SomethingToSee

\* A task that sleeps on stays where it was, and so does its receiver.
LEMMA SleepsOn ==
  ASSUME IndInv, WakeInv, OneGuardPerReceiver, AsyncNext, NEW g \in Readers,
         task'[g] = "parked", ~woken'[g], task[g] = "parked"
  PROVE  ~woken[g] /\ consumed'[rxOf[g]] = consumed[rxOf[g]]
<1>0. AsyncTypeOK /\ TypeOK /\ TasksInPlace
  BY DEF IndInv, WakeInv
<1>1. ASSUME NEW s \in Senders, AsyncSenderStep(s) \/ AsyncSenderCall(s)
      PROVE  ~woken[g] /\ consumed'[rxOf[g]] = consumed[rxOf[g]]
  <2>1. Notify(s) => (woken[g] => woken'[g])
    BY DEF Notify
  <2> QED
    BY <1>1, <2>1, SenderFrame
<1>2. ASSUME NEW h \in Readers, TaskStep(h) \/ Repoll(h) \/ DropFuture(h) \/ EndGuard(h)
      PROVE  ~woken[g] /\ consumed'[rxOf[g]] = consumed[rxOf[g]]
  <2>1. FinishGuard(h) => /\ rpc[h] = "guard"
                          /\ consumed' = [consumed EXCEPT ![rxOf[h]] = rd[h].top]
    BY FinishGuardEffect
  <2>2. rpc[g] # "guard" /\ rpc[g] # "scan"
    BY <1>0 DEF TasksInPlace
  <2>3. FinishGuard(h) => rxOf[h] # rxOf[g]
    BY <2>1, <2>2 DEF OneGuardPerReceiver
  <2>4. consumed'[rxOf[g]] = consumed[rxOf[g]]
    BY <1>0, <1>2, <2>1, <2>3, TaskFrame, ReadersAssumption DEF TypeOK
  <2>5. CASE h # g
    BY <1>0, <1>2, <2>4, <2>5, TaskFrame
  <2>6. CASE h = g
    <3>1. ~Repoll(h)
      BY <1>0, <2>6 DEF Repoll, AsyncTypeOK
    <3>2. woken' = woken
      BY <1>2, <2>6, <3>1 DEF TaskStep, EndGuard, BeginRecv, AttemptScan, Register, Recheck,
                              DropFuture, wakeVars
    <3> QED
      BY <2>4, <3>2
  <2> QED
    BY <2>5, <2>6
<1>3. ASSUME NEW q \in Receivers, AsyncDropReceiver(q)
      PROVE  ~woken[g] /\ consumed'[rxOf[g]] = consumed[rxOf[g]]
  BY <1>3, <1>0, ReadersAssumption DEF AsyncDropReceiver, DropReceiver, wakeVars, TypeOK
<1>4. CASE Terminated /\ UNCHANGED wakeVars
  BY <1>4 DEF Terminated, vars, wakeVars
<1> QED
  BY <1>1, <1>2, <1>3, <1>4 DEF AsyncNext

LEMMA NoLostWakeupStep ==
  ASSUME IndInv, WakeInv, OneGuardPerReceiver, AsyncNext
  PROVE  NoLostWakeup'
<1>0. AsyncTypeOK /\ TypeOK /\ TasksInPlace /\ Registered /\ NoLostWakeup
  BY DEF IndInv, WakeInv
<1> SUFFICES ASSUME NEW g \in Readers, task'[g] = "parked", ~woken'[g]
             PROVE  /\ cell'[rxOf[g]] = g
                    /\ SomethingToSee(rxOf[g])' => \E s \in Senders : OwesWake(s, rxOf[g])'
  BY DEF NoLostWakeup
<1> DEFINE r == rxOf[g]
<1>1. r \in Receivers
  BY ReadersAssumption
<1>2. cell'[r] = g
  BY <1>0, RegisteredStep DEF Registered
<1>3. ASSUME NEW s \in Senders, Notify(s), wk[s] = r PROVE FALSE
  <2>1. task[g] = "parked" /\ (woken'[g] <=> (woken[g] \/ cell[r] = g))
    BY <1>3 DEF Notify
  <2> QED
    BY <1>0, <2>1 DEF Registered
<1>4. ASSUME UNCHANGED slotVars, ~\E s \in Senders : OwesWake(s, r), SomethingToSee(r)'
      PROVE  FALSE
  <2>1. CASE task[g] = "parked"
    <3>1. ~woken[g] /\ consumed'[r] = consumed[r]
      BY <2>1, SleepsOn
    <3>2. SomethingToSee(r)
      BY <1>4, <3>1 DEF SomethingToSee, SlotReady, slotVars
    <3> QED
      BY <1>0, <1>4, <2>1, <3>1, <3>2 DEF NoLostWakeup
  <2>2. CASE task[g] # "parked"
    <3>1. PICK h \in Readers : TaskStep(h) \/ Repoll(h) \/ DropFuture(h) \/ EndGuard(h)
      BY <2>2, SenderFrame DEF AsyncNext, AsyncDropReceiver, wakeVars
    <3>2. h = g
      BY <1>0, <2>2, <3>1, TaskFrame
    <3>3. AttemptScan(g)
      BY <1>0, <2>2, <3>1, <3>2
      DEF TaskStep, EndGuard, BeginRecv, Register, AfterRegister, Recheck, Repoll, DropFuture,
          wakeVars, AsyncTypeOK
    <3>4. ~SomethingToSee(r) /\ UNCHANGED <<slotVars, consumed>>
      BY <3>3, ParkSeesNothing
    <3> QED
      BY <1>4, <3>4 DEF SomethingToSee, SlotReady, slotVars
  <2> QED
    BY <2>1, <2>2
<1> QED
  BY <1>0, <1>1, <1>2, <1>3, <1>4, OwedStep

\* Everything a sleeping task relies on is kept by every step.
LEMMA WakeInvStep ==
  ASSUME OneGuardPerReceiver, LimitsFit, IndInv, WakeInv, [AsyncNext]_asyncVars
  PROVE  IndInv' /\ WakeInv'
<1>1. CASE AsyncNext
  <2>1. Asked' /\ (Next \/ UNCHANGED vars)
    BY <1>1, AskedStep, AsyncStepIsStep DEF WakeInv, Asked
  <2>2. IndInv'
    BY <2>1, NextIndInv DEF Next
  <2>3. TasksInPlace' /\ Registered' /\ NoLostWakeup'
    BY <1>1, TasksInPlaceStep, RegisteredStep, NoLostWakeupStep DEF IndInv
  <2> QED
    BY <2>1, <2>2, <2>3 DEF WakeInv, Asked
<1>2. CASE UNCHANGED asyncVars
  <2>1. IndInv'
    BY <1>2, NextIndInv DEF asyncVars
  <2>2. WakeInv'
    BY <1>2
    DEF asyncVars, wakeVars, vars, slotVars, senderVars, readerVars, WakeInv, AsyncTypeOK,
        CallsHaveLimits, TasksInPlace, Registered, NoLostWakeup, SomethingToSee, SlotReady,
        OwesWake, Open
  <2> QED
    BY <2>1, <2>2
<1> QED
  BY <1>1, <1>2

\* consumer.rs:97-121: where each task stands and whether it is registered fits
\* what its receiver has told it, nobody asleep is owed a wake that nobody has
\* still to give, for any number of senders and receivers.
THEOREM WakeInvariant ==
  ASSUME OneGuardPerReceiver, LimitsFit
  PROVE  AsyncSpec => []WakeInv
<1>1. AsyncInit => IndInv /\ WakeInv
  <2> SUFFICES ASSUME AsyncInit PROVE IndInv /\ WakeInv
    OBVIOUS
  <2>1. IndInv
    BY InitIndInv DEF AsyncInit
  <2>2. TasksInPlace /\ Registered /\ NoLostWakeup
    BY DEF AsyncInit, Init, TasksInPlace, Registered, NoLostWakeup
  <2> QED
    BY <2>1, <2>2, AsyncInitAsked DEF WakeInv, Asked
<1>2. (IndInv /\ WakeInv) /\ [AsyncNext]_asyncVars => (IndInv /\ WakeInv)'
  BY WakeInvStep
<1> QED
  BY <1>1, <1>2, PTL DEF AsyncSpec

\* consumer.rs:97-113 with con_ex.rs:36 and con_fanout.rs:45: no task is left
\* asleep with an item or a shutdown mark in front of it and nobody on the way
\* to wake it, for any number of senders and receivers.
THEOREM WakeupsNotLost ==
  ASSUME OneGuardPerReceiver, LimitsFit
  PROVE  AsyncSpec => []NoLostWakeup
<1>1. WakeInv => NoLostWakeup
  BY DEF WakeInv
<1> QED
  BY <1>1, WakeInvariant, PTL
===============================================================================
