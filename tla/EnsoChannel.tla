----------------------------- MODULE EnsoChannel ------------------------------
(***************************************************************************)
(* An enso channel at the grain of its atomic operations: any number of    *)
(* uses of cloned senders, the multi-publisher sequencer, the per-slot     *)
(* state words, and one (mpsc) or several (fanout) receivers.              *)
(*                                                                         *)
(* Every load, store, read-modify-write of a shared atomic is an action of *)
(* its own, and so is every write of a slot, so that two threads can       *)
(* interleave between any two of them.  Calls made by user code (try_send, *)
(* try_reserve, try_recv, drop, ...) begin where the environment chooses.  *)
(***************************************************************************)
EXTENDS RingMeta, FiniteSets

CONSTANTS
  Senders,        \* uses of a sender: a Sender clone, or one permit of it
  NumReceivers,   \* 1 for mpsc, the N of fanout::channel::<N>
  Readers,        \* guards alive at the same time: uses of a receiver
  rxOf,           \* the receiver each reader uses
  Ops,            \* the sender calls made: subset of {"send","reserve","batch"}
  Limits,         \* the limits given to try_send_at_most / try_recv_at_most
  Faults,         \* subset of FaultKinds: what user code may do wrong
  SeqBound,       \* bound: no call begins once this sequence is claimed
  I64_MAX,        \* the largest i64; a usize goes up to twice that, plus one
  SHUTDOWN_OPEN   \* Sequence::SHUTDOWN_OPEN (i64::MAX), above every sequence

Receivers == 0 .. (NumReceivers - 1)

\* Panics of the recycler in the drop of a permit or a batch, and in that of one
\* slot's permit; claims, permits of one slot, and guards that are forgotten.
FaultKinds == {"recycler_panic", "slot_panic", "lost_claim", "lost_slot", "lost_guard"}

ASSUME ReceiversAssumption == NumReceivers \in Nat \ {0}
ASSUME ReadersAssumption   == rxOf \in [Readers -> Receivers]
ASSUME OpsAssumption       == Ops \subseteq {"send", "reserve", "batch"}
ASSUME WidthAssumption     == I64_MAX \in Nat
ASSUME LimitsAssumption    == Limits \subseteq 1 .. (2 * I64_MAX + 1)
ASSUME FaultsAssumption    == Faults \subseteq FaultKinds
ASSUME BoundAssumption     == SeqBound \in Int
ASSUME OpenAssumption      == SHUTDOWN_OPEN \notin Int

VARIABLES
  claimed,      \* Cursor `claimed`: the last claimed sequence ...
  claimedDown,  \* ... and its shutdown bit (same atomic word)
  flag,         \* slot state words: the lap flag (31 low bits) ...
  shut,         \* ... and the shutdown bit of each slot (same atomic word)
  ring,         \* slot contents, named by the claim that wrote them
  consumed,     \* the cursor of each receiver, SHUTDOWN_OPEN once dropped
  pc,           \* where each sender use is
  op,           \* the call it is in
  att,          \* locals of try_claim_at_most
  held,         \* sequences it has claimed and not yet published
  nxt,          \* next_seq: the next one to write
  cl,           \* locals of close()
  rpc,          \* where each reader is
  rd,           \* locals of the consumer's try_claim_at_most, then of the guard
  rres,         \* the last outcome each reader saw
  published     \* history: every sequence ever published

claimVars  == <<claimed, claimedDown>>
slotVars   == <<flag, shut>>
senderVars == <<pc, op, att, held, nxt, cl>>
readerVars == <<rpc, rd, rres>>
vars == <<claimVars, slotVars, ring, consumed, senderVars, readerVars, published>>

-------------------------------------------------------------------------------
(* Locals at rest. *)

NoAttempt == [want |-> 0, last |-> -1, gi |-> 0, gmin |-> SHUTDOWN_OPEN]
NoClose   == [val |-> -1, pos |-> 0, ret |-> "idle"]
NoScan    == [base |-> -1, top |-> -1, pos |-> 0, sd |-> FALSE]

Init ==
  /\ claimed = -1 /\ claimedDown = FALSE
  /\ flag = [i \in Slots |-> EmptyFlag]
  /\ shut = [i \in Slots |-> FALSE]
  /\ ring = [i \in Slots |-> -1]
  /\ consumed = [r \in Receivers |-> -1]
  /\ \E first \in Senders : pc = [s \in Senders |-> IF s = first THEN "idle" ELSE "none"]
  /\ op = [s \in Senders |-> "none"]
  /\ att = [s \in Senders |-> NoAttempt]
  /\ held = [s \in Senders |-> {}]
  /\ nxt = [s \in Senders |-> 0]
  /\ cl = [s \in Senders |-> NoClose]
  /\ rpc = [g \in Readers |-> "idle"]
  /\ rd = [g \in Readers |-> NoScan]
  /\ rres = [g \in Readers |-> "none"]
  /\ published = {}

\* At most one guard of a receiver is alive at a time.  try_recv takes &self, so
\* this is a promise of the caller; NoConcurrentAccess and EachItemOnceInOrder
\* need it (run two_guards).
OneGuardPerReceiver == \A g, h \in Readers : rxOf[g] = rxOf[h] => g = h

\* A third promise cannot be seen here, where reads are no steps: no reference
\* that iter() yields is used after its guard (SlotFences!ReadsEndWithGuard).

\* No limit exceeds i64::MAX, another promise of the caller (run wide_send).
LimitsFit == \A k \in Limits : k <= I64_MAX

Alive(s) == pc[s] \notin {"none", "dropped"}
Open(r)  == consumed[r] # SHUTDOWN_OPEN

-------------------------------------------------------------------------------
(* Claiming: MultiPublisherSequencer::try_claim_at_most. *)

\* `limit as i64`: the upper half of usize comes out negative.
AsI64(k) == IF k <= I64_MAX THEN k ELSE k - 2 * (I64_MAX + 1)

\* The limit is cut to the ring's size.
CutLimit(k) == MinOf(AsI64(k), Capacity)

\* The gate keeps the fastest receiver instead of the slowest.
KeepFastest(a, b) == IF a = SHUTDOWN_OPEN THEN b
                     ELSE IF b = SHUTDOWN_OPEN THEN a ELSE MaxOf(a, b)

\* The gate's running minimum; SHUTDOWN_OPEN is above every sequence.
MinSeq(a, b) == IF a = SHUTDOWN_OPEN THEN b
                ELSE IF b = SHUTDOWN_OPEN THEN a ELSE MinOf(a, b)

HasRoom(lastClaimed, maxConsumed) ==
  /\ maxConsumed # SHUTDOWN_OPEN
  /\ lastClaimed + 1 <= lastClaimed + AvailableSlots(lastClaimed, maxConsumed)

\* The range a successful compare_exchange takes ends here.
ClaimEnd(a) == a.last + MinOf(AvailableSlots(a.last, a.gmin), a.want)

\* An exchange that does not compare: two senders can take the same range.
CasMatchesAlways(a) == ~claimedDown

CasMatches(a) == ~claimedDown /\ claimed = a.last

\* A call that finds the shutdown bit here returns Disconnected and changes
\* nothing, so only the open case is a step.
StartClaim(s, o, k) ==
  /\ pc[s] = "idle" /\ o \in Ops /\ ~claimedDown
  /\ o # "batch" => k = 1
  /\ claimed < SeqBound
  /\ pc' = [pc EXCEPT ![s] = "gate"]
  /\ op' = [op EXCEPT ![s] = o]
  /\ att' = [att EXCEPT ![s] = [want |-> CutLimit(k), last |-> claimed,
                                gi |-> 0, gmin |-> SHUTDOWN_OPEN]]
  /\ UNCHANGED <<claimVars, slotVars, ring, consumed, held, nxt, cl, readerVars, published>>

\* The call returns without a claim: Full or Disconnected.
GiveUp(s) ==
  /\ pc' = [pc EXCEPT ![s] = "idle"]
  /\ op' = [op EXCEPT ![s] = "none"]
  /\ att' = [att EXCEPT ![s] = NoAttempt]

\* One iteration of max_consumed's loop over the receivers' cursors.
LoadConsumed(s) ==
  LET a == att[s]
      m == MinSeq(a.gmin, consumed[a.gi])
  IN /\ pc[s] = "gate"
     /\ \/ /\ a.gi + 1 < NumReceivers
           /\ att' = [att EXCEPT ![s] = [want |-> a.want, last |-> a.last,
                                         gi |-> a.gi + 1, gmin |-> m]]
           /\ UNCHANGED <<pc, op>>
        \/ /\ a.gi + 1 = NumReceivers
           /\ HasRoom(a.last, m)
           /\ att' = [att EXCEPT ![s] = [want |-> a.want, last |-> a.last,
                                         gi |-> 0, gmin |-> m]]
           /\ pc' = [pc EXCEPT ![s] = "cas"]
           /\ UNCHANGED op
        \/ /\ a.gi + 1 = NumReceivers
           /\ ~HasRoom(a.last, m)
           /\ GiveUp(s)
     /\ UNCHANGED <<claimVars, slotVars, ring, consumed, held, nxt, cl, readerVars, published>>

\* compare_exchange succeeds: the sender owns last + 1 .. ClaimEnd.
CasClaim(s) ==
  LET a == att[s]
  IN /\ pc[s] = "cas" /\ CasMatches(a) /\ a.want > 0
     /\ claimed' = ClaimEnd(a)
     /\ held' = [held EXCEPT ![s] = (a.last + 1) .. ClaimEnd(a)]
     /\ nxt' = [nxt EXCEPT ![s] = a.last + 1]
     /\ att' = [att EXCEPT ![s] = NoAttempt]
     /\ pc' = [pc EXCEPT ![s] = "write"]
     /\ UNCHANGED <<claimedDown, slotVars, ring, consumed, op, cl, readerVars, published>>

\* A negative count passes the test for room, and the exchange moves the cursor
\* back, past INIT into a word that reads as shut down.  The batch it returns
\* covers nothing, and its drop publishes nothing.
CasRewind(s) ==
  LET a == att[s]
      raw == a.last + a.want
  IN /\ pc[s] = "cas" /\ CasMatches(a) /\ a.want < 0 /\ raw >= -(I64_MAX + 1)
     /\ claimed' = IF raw < -1 THEN raw % (I64_MAX + 1) ELSE raw
     /\ claimedDown' = (raw < -1)
     /\ GiveUp(s)
     /\ UNCHANGED <<slotVars, ring, consumed, held, nxt, cl, readerVars, published>>

\* i64::MIN added to INIT wraps to i64::MAX: the batch covers every sequence.  (A
\* build with overflow checks panics instead, before the exchange.)
CasWrap(s) ==
  LET a == att[s]
  IN /\ pc[s] = "cas" /\ CasMatches(a) /\ a.last + a.want < -(I64_MAX + 1)
     /\ claimed' = I64_MAX
     /\ held' = [held EXCEPT ![s] = (a.last + 1) .. I64_MAX]
     /\ nxt' = [nxt EXCEPT ![s] = a.last + 1]
     /\ att' = [att EXCEPT ![s] = NoAttempt]
     /\ pc' = [pc EXCEPT ![s] = "write"]
     /\ UNCHANGED <<claimedDown, slotVars, ring, consumed, op, cl, readerVars, published>>

\* compare_exchange fails: the loop starts over from the value it read, and
\* from a fresh look at the receivers, or sees that the channel is down.
CasRetry(s) ==
  LET a == att[s]
  IN /\ pc[s] = "cas" /\ ~CasMatches(a)
     /\ \/ /\ claimedDown
           /\ GiveUp(s)
        \/ /\ ~claimedDown
           /\ att' = [att EXCEPT ![s] = [want |-> a.want, last |-> claimed,
                                         gi |-> 0, gmin |-> SHUTDOWN_OPEN]]
           /\ pc' = [pc EXCEPT ![s] = "gate"]
           /\ UNCHANGED op
     /\ UNCHANGED <<claimVars, slotVars, ring, consumed, held, nxt, cl, readerVars, published>>

-------------------------------------------------------------------------------
(* Writing and committing: SenderImpl::try_send, WritePermit, WritePermits. *)

\* A batch that commits as soon as its first slot is written.
CommitAfterFirst(s) == "publish"

\* After the last slot of the claim the permit or the batch commits.
AfterFill(s) == IF nxt[s] + 1 \in held[s] THEN "write" ELSE "publish"

\* write, update_in_place or the recycler fills the next slot of the claim.
FillSlot(s) ==
  /\ pc[s] = "write"
  /\ ring' = [ring EXCEPT ![IndexOf(nxt[s])] = nxt[s]]
  /\ nxt' = [nxt EXCEPT ![s] = nxt[s] + 1]
  /\ pc' = [pc EXCEPT ![s] = AfterFill(s)]
  /\ UNCHANGED <<claimVars, slotVars, consumed, op, att, held, cl, readerVars, published>>

\* The stored word has the shutdown bit clear, whatever it was before.
\* publish_range issues its stores relaxed behind one release fence, so they
\* may become visible in any order.
PublishSlot(s, x) ==
  /\ pc[s] = "publish" /\ x \in held[s]
  /\ flag' = [flag EXCEPT ![IndexOf(x)] = AvailableFlag(x)]
  /\ shut' = [shut EXCEPT ![IndexOf(x)] = FALSE]
  /\ held' = [held EXCEPT ![s] = @ \ {x}]
  /\ published' = published \cup {x}
  /\ IF held[s] = {x}
       THEN /\ pc' = [pc EXCEPT ![s] = "idle"]
            /\ op' = [op EXCEPT ![s] = "none"]
            /\ nxt' = [nxt EXCEPT ![s] = 0]
       ELSE UNCHANGED <<pc, op, nxt>>
  /\ UNCHANGED <<claimVars, ring, consumed, att, cl, readerVars>>

\* The recycler panics while a permit or a batch is dropped: the claim is
\* given up for good and the channel is terminated.
CommitPanic(s) ==
  /\ "recycler_panic" \in Faults
  /\ pc[s] = "write" /\ op[s] \in {"reserve", "batch"}
  /\ pc' = [pc EXCEPT ![s] = "cload"]
  /\ op' = [op EXCEPT ![s] = "none"]
  /\ held' = [held EXCEPT ![s] = {}]
  /\ nxt' = [nxt EXCEPT ![s] = 0]
  /\ cl' = [cl EXCEPT ![s] = [val |-> -1, pos |-> 0, ret |-> "idle"]]
  /\ UNCHANGED <<claimVars, slotVars, ring, consumed, att, readerVars, published>>

\* The recycler panics in the drop of one slot's permit of a batch: the
\* channel is terminated, but the batch lives on and skips that slot.
SlotPermitPanic(s) ==
  /\ "slot_panic" \in Faults
  /\ pc[s] = "write" /\ op[s] = "batch"
  /\ pc' = [pc EXCEPT ![s] = "cload"]
  /\ nxt' = [nxt EXCEPT ![s] = nxt[s] + 1]
  /\ cl' = [cl EXCEPT ![s] = [val |-> -1, pos |-> 0, ret |-> AfterFill(s)]]
  /\ UNCHANGED <<claimVars, slotVars, ring, consumed, op, att, held, readerVars, published>>

\* mem::forget of one slot's permit of a batch: next() has moved on already, so the
\* batch goes on, and will publish a slot nobody wrote.
ForgetSlotPermit(s) ==
  /\ "lost_slot" \in Faults
  /\ pc[s] = "write" /\ op[s] = "batch"
  /\ nxt' = [nxt EXCEPT ![s] = nxt[s] + 1]
  /\ pc' = [pc EXCEPT ![s] = AfterFill(s)]
  /\ UNCHANGED <<claimVars, slotVars, ring, consumed, op, att, held, cl, readerVars, published>>

\* mem::forget of a permit or a batch, or a panic in the drop of the value
\* that try_send overwrites: the claim is never committed.
Abandon(s) ==
  /\ "lost_claim" \in Faults
  /\ pc[s] = "write"
  /\ pc' = [pc EXCEPT ![s] = "idle"]
  /\ op' = [op EXCEPT ![s] = "none"]
  /\ held' = [held EXCEPT ![s] = {}]
  /\ nxt' = [nxt EXCEPT ![s] = 0]
  /\ UNCHANGED <<claimVars, slotVars, ring, consumed, att, cl, readerVars, published>>

-------------------------------------------------------------------------------
(* Shutdown of the sender side: SharedState::close, run by terminate() and  *)
(* by the drop of the last sender.                                          *)

\* Storing raw ^ SHUTDOWN_MASK: a second close would reopen the channel.
DownAfterCloseXor(val) == val # -1 /\ ~claimedDown

\* Storing raw | SHUTDOWN_MASK: INIT = -1 already has every bit set and stays
\* INIT, which is not a shutdown.
DownAfterClose(val) == val # -1

\* The scan starts one sequence too late.
ScanStartLate(val) == IF val < 0 THEN val + 1 ELSE WindowStart(val) + 1

\* With no claim ever made, the boundary is the first slot.
ScanStart(val) == IF val < 0 THEN val + 1 ELSE WindowStart(val)

\* The load strips the shutdown bit: val is the sequence itself.
CloseLoad(s) ==
  /\ pc[s] = "cload"
  /\ cl' = [cl EXCEPT ![s] = [val |-> claimed, pos |-> ScanStart(claimed), ret |-> @.ret]]
  /\ pc' = [pc EXCEPT ![s] = IF claimed < 0 THEN "cmark" ELSE "cscan"]
  /\ UNCHANGED <<claimVars, slotVars, ring, consumed, op, att, held, nxt, readerVars, published>>

\* scan_last_available, one slot: pos stays on the first slot not published.
CloseScan(s) ==
  LET c == cl[s]
      available == flag[IndexOf(c.pos)] = AvailableFlag(c.pos)
      next == IF available THEN c.pos + 1 ELSE c.pos
  IN /\ pc[s] = "cscan"
     /\ cl' = [cl EXCEPT ![s] = [val |-> c.val, pos |-> next, ret |-> c.ret]]
     /\ pc' = [pc EXCEPT ![s] = IF available /\ next <= c.val THEN "cscan" ELSE "cmark"]
     /\ UNCHANGED <<claimVars, slotVars, ring, consumed, op, att, held, nxt, readerVars, published>>

\* mark_shutdown(last_published + 1).
MarkedSlot(c) == IndexOf(c.pos)

\* fetch_or of the shutdown bit: the flag of the slot is kept.
CloseMark(s) ==
  /\ pc[s] = "cmark"
  /\ shut' = [shut EXCEPT ![MarkedSlot(cl[s])] = TRUE]
  /\ pc' = [pc EXCEPT ![s] = "cstore"]
  /\ UNCHANGED <<claimVars, flag, ring, consumed, op, att, held, nxt, cl, readerVars, published>>

\* A plain store of the value loaded before the scan.
CloseStore(s) ==
  /\ pc[s] = "cstore"
  /\ claimed' = cl[s].val
  /\ claimedDown' = DownAfterClose(cl[s].val)
  /\ pc' = [pc EXCEPT ![s] = cl[s].ret]
  /\ cl' = [cl EXCEPT ![s] = NoClose]
  /\ UNCHANGED <<slotVars, ring, consumed, op, att, held, nxt, readerVars, published>>

-------------------------------------------------------------------------------
(* Endpoints. *)

\* A clone needs a sender that is not being dropped for the last time.
CloneSender(s, t) ==
  /\ Alive(s) /\ cl[s].ret # "dropped" /\ pc[t] = "none"
  /\ pc' = [pc EXCEPT ![t] = "idle"]
  /\ UNCHANGED <<claimVars, slotVars, ring, consumed, op, att, held, nxt, cl, readerVars, published>>

\* Every drop would close the channel, not only the last one.
DropClosesAlways(s) == TRUE

\* Arc<SharedState> is dropped with its last owner.
DropCloses(s) == \A t \in Senders \ {s} : ~Alive(t)

DropSender(s) ==
  /\ pc[s] = "idle"
  /\ IF DropCloses(s)
       THEN /\ pc' = [pc EXCEPT ![s] = "cload"]
            /\ cl' = [cl EXCEPT ![s] = [val |-> -1, pos |-> 0, ret |-> "dropped"]]
       ELSE /\ pc' = [pc EXCEPT ![s] = "dropped"]
            /\ UNCHANGED cl
  /\ UNCHANGED <<claimVars, slotVars, ring, consumed, op, att, held, nxt, readerVars, published>>

\* A receiver is dropped when no guard and no call borrows it.
DropReceiver(r) ==
  /\ Open(r)
  /\ \A g \in Readers : rxOf[g] = r => rpc[g] = "idle"
  /\ consumed' = [consumed EXCEPT ![r] = SHUTDOWN_OPEN]
  /\ UNCHANGED <<claimVars, slotVars, ring, senderVars, readerVars, published>>

-------------------------------------------------------------------------------
(* Receiving: DefaultConsumerSequencer::try_claim_at_most, ReadRef(s). *)

\* The scan matches flags without looking at the lap they stand for.
SlotReadyAnyLap(seq) == flag[IndexOf(seq)] # EmptyFlag

SlotReady(seq) == flag[IndexOf(seq)] = AvailableFlag(seq)

\* The guard is committed one sequence short of what it covered.
CommittedShort(g) == rd[g].top - 1

\* commit / commit_range store the end of the guard.
Committed(g) == rd[g].top

\* Any item seen shut is enough to report Disconnected.
ScanOutcomeEager(base, last, sd) ==
  IF sd THEN "Disconnected" ELSE IF last > base THEN "Ok" ELSE "Empty"

\* Items first: the shutdown bit counts only when nothing is available.
ScanOutcome(base, last, sd) ==
  IF last > base THEN "Ok" ELSE IF sd THEN "Disconnected" ELSE "Empty"

StartRecv(g, k) ==
  /\ rpc[g] = "idle" /\ Open(rxOf[g]) /\ CutLimit(k) > 0
  /\ rpc' = [rpc EXCEPT ![g] = "scan"]
  /\ rd' = [rd EXCEPT ![g] = [base |-> consumed[rxOf[g]],
                              top  |-> consumed[rxOf[g]] + CutLimit(k),
                              pos  |-> consumed[rxOf[g]] + 1, sd |-> FALSE]]
  /\ UNCHANGED <<claimVars, slotVars, ring, consumed, senderVars, rres, published>>

\* A negative count makes the range to scan empty: no slot is looked at.
RecvNothing(g, k) ==
  /\ rpc[g] = "idle" /\ Open(rxOf[g]) /\ CutLimit(k) < 0
  /\ rres' = [rres EXCEPT ![g] = "Empty"]
  /\ UNCHANGED <<claimVars, slotVars, ring, consumed, senderVars, rpc, rd, published>>

\* scan_available_until, one slot: one load gives the flag and the shutdown
\* bit.  The scan ends at the first slot that is not available or at the top.
ScanSlot(g) ==
  LET d == rd[g]
      ready == SlotReady(d.pos)
      sd == d.sd \/ shut[IndexOf(d.pos)]
      last == IF ready THEN d.pos ELSE d.pos - 1
      outcome == ScanOutcome(d.base, last, sd)
  IN /\ rpc[g] = "scan"
     /\ \/ /\ ready /\ d.pos < d.top
           /\ rd' = [rd EXCEPT ![g] = [base |-> d.base, top |-> d.top,
                                       pos |-> d.pos + 1, sd |-> sd]]
           /\ UNCHANGED <<rpc, rres>>
        \/ /\ ~(ready /\ d.pos < d.top)
           /\ rres' = [rres EXCEPT ![g] = outcome]
           /\ \/ /\ outcome = "Ok"
                 /\ rpc' = [rpc EXCEPT ![g] = "guard"]
                 /\ rd' = [rd EXCEPT ![g] = [base |-> d.base, top |-> last,
                                             pos |-> 0, sd |-> FALSE]]
              \/ /\ outcome # "Ok"
                 /\ rpc' = [rpc EXCEPT ![g] = "idle"]
                 /\ rd' = [rd EXCEPT ![g] = NoScan]
     /\ UNCHANGED <<claimVars, slotVars, ring, consumed, senderVars, published>>

\* Drop (or finish) of a ReadRef or ReadRefs.
FinishGuard(g) ==
  /\ rpc[g] = "guard"
  /\ consumed' = [consumed EXCEPT ![rxOf[g]] = Committed(g)]
  /\ rpc' = [rpc EXCEPT ![g] = "idle"]
  /\ rd' = [rd EXCEPT ![g] = NoScan]
  /\ UNCHANGED <<claimVars, slotVars, ring, senderVars, rres, published>>

\* mem::forget of a guard: its items stay where they are, to be read again.
ForgetGuard(g) ==
  /\ "lost_guard" \in Faults
  /\ rpc[g] = "guard"
  /\ rpc' = [rpc EXCEPT ![g] = "idle"]
  /\ rd' = [rd EXCEPT ![g] = NoScan]
  /\ UNCHANGED <<claimVars, slotVars, ring, consumed, senderVars, rres, published>>

-------------------------------------------------------------------------------
Quiet == (\A s \in Senders : ~Alive(s)) /\ (\A r \in Receivers : ~Open(r))

\* Everything was dropped: nothing is left to do.
Terminated == Quiet /\ UNCHANGED vars

\* The steps a sender takes on its own once a call has begun.
SenderStep(s) ==
  \/ LoadConsumed(s) \/ CasClaim(s) \/ CasRetry(s)
  \/ FillSlot(s) \/ (\E x \in held[s] : PublishSlot(s, x))
  \/ CloseLoad(s) \/ CloseScan(s) \/ CloseMark(s) \/ CloseStore(s)

SenderNext(s) ==
  \/ \E o \in Ops, k \in Limits : StartClaim(s, o, k)
  \/ SenderStep(s)
  \/ CommitPanic(s) \/ SlotPermitPanic(s) \/ ForgetSlotPermit(s) \/ Abandon(s)
  \/ DropSender(s)
  \/ \E t \in Senders : CloneSender(s, t)

\* A receiver that keeps receiving, each guard dropped in its turn.
ReaderStep(g) ==
  \/ \E k \in Limits : StartRecv(g, k)
  \/ ScanSlot(g) \/ FinishGuard(g)

Next ==
  \/ \E s \in Senders : SenderNext(s)
  \/ \E g \in Readers : ReaderStep(g) \/ ForgetGuard(g)
  \/ \E r \in Receivers : DropReceiver(r)
  \/ Terminated

Spec == Init /\ [][Next]_vars

\* What a call does with a limit above i64::MAX; Spec is the channel of callers
\* that keep to LimitsFit.
WideStep ==
  \/ \E s \in Senders : CasRewind(s) \/ CasWrap(s)
  \/ \E g \in Readers, k \in Limits : RecvNothing(g, k)

WideSpec == Init /\ [][Next \/ WideStep]_vars

\* Threads inside a call run on, permits and guards are dropped in the end,
\* and receivers poll: the fairness of the polling loops of lib.rs and tests.
Fairness ==
  /\ \A s \in Senders : WF_vars(SenderStep(s))
  /\ \A g \in Readers : WF_vars(ReaderStep(g))

FairSpec == Spec /\ Fairness

-------------------------------------------------------------------------------
(* Properties. *)

Outcomes == {"none", "Ok", "Empty", "Disconnected"}
Cursors  == Int \cup {SHUTDOWN_OPEN}

SenderPlaces == {"none", "idle", "gate", "cas", "write", "publish",
                 "cload", "cscan", "cmark", "cstore", "dropped"}

AttemptType == [want : Int, last : Int, gi : Receivers, gmin : Cursors]
CloseType   == [val : Int, pos : Int, ret : {"idle", "write", "publish", "dropped"}]
ScanType    == [base : Int, top : Int, pos : Int, sd : BOOLEAN]

\* The type of every variable: cursors, state words, and the locals of the calls.
TypeOK ==
  /\ claimed \in Int /\ claimedDown \in BOOLEAN
  /\ flag \in [Slots -> Flags] /\ shut \in [Slots -> BOOLEAN]
  /\ ring \in [Slots -> Int]
  /\ consumed \in [Receivers -> Cursors]
  /\ pc \in [Senders -> SenderPlaces]
  /\ op \in [Senders -> {"none", "send", "reserve", "batch"}]
  /\ att \in [Senders -> AttemptType]
  /\ held \in [Senders -> SUBSET Int]
  /\ nxt \in [Senders -> Int]
  /\ cl \in [Senders -> CloseType]
  /\ rpc \in [Readers -> {"idle", "scan", "guard"}]
  /\ rd \in [Readers -> ScanType]
  /\ rres \in [Readers -> Outcomes]
  /\ published \subseteq Int

\* What a guard lets its holder read while it lives.  References of iter() that are
\* kept longer are not in it: they borrow the receiver, and its cursor has moved on.
GuardRange(g) == IF rpc[g] = "guard" THEN (rd[g].base + 1) .. rd[g].top ELSE {}

\* The safety argument of the unsafe Send/Sync impls (ringbuffer.rs:10-30): a
\* slot that a sender has claimed and not yet published is neither claimed by
\* another sender nor readable through a live guard, of which each receiver has one.
\* The argument needs more: that nothing is read once its guard is gone.
NoConcurrentAccess ==
  \A s \in Senders : \A x \in held[s] :
    /\ \A t \in Senders \ {s} : \A y \in held[t] : IndexOf(x) # IndexOf(y)
    /\ \A g \in Readers : \A y \in GuardRange(g) : IndexOf(x) # IndexOf(y)

\* What a guard shows at sequence y is what the claim of y wrote, for as long
\* as the guard lives (ChanReadRef / ChanReadRefs::iter read through the ring).
GuardShowsItsClaims ==
  \A g \in Readers : \A y \in GuardRange(g) : ring[IndexOf(y)] = y

\* The bounded-lag argument of slot_states.rs:30-54: in the window a live
\* receiver can scan, the wrapped lap flag matches exactly the sequences that
\* were published, never one of another lap.
FlagsTellLapsApart ==
  \A r \in Receivers : Open(r) =>
    \A y \in (consumed[r] + 1) .. (consumed[r] + Capacity) :
      (flag[IndexOf(y)] = AvailableFlag(y)) <=> (y \in published)

\* "Graceful shutdown without loss" (lib.rs:314-320): a receiver is told
\* Disconnected only when no sender is left and all that was ever claimed was
\* published and consumed by it.
DisconnectedOnlyWhenDrained ==
  \A g \in Readers : rres[g] = "Disconnected" /\ Open(rxOf[g]) =>
    /\ \A s \in Senders : Alive(s) => pc[s] = "cstore"
    /\ consumed[rxOf[g]] = claimed
    /\ 0 .. claimed \subseteq published

\* lib.rs:311-312: what was published before a shutdown, poisoned or not, stays
\* drainable: Disconnected is reported only when the next item of that
\* receiver is not there.
DrainedBeforeDisconnected ==
  [][\A g \in Readers :
       rpc[g] = "scan" /\ rpc'[g] = "idle" /\ rres'[g] = "Disconnected"
         => consumed[rxOf[g]] + 1 \notin published]_vars

\* Once a receiver was told Disconnected it is never told anything else.
DisconnectedIsFinal ==
  [][\A g \in Readers : rres[g] = "Disconnected" => rres'[g] = "Disconnected"]_vars

\* pub_mul.rs:14: once the shutdown bit of `claimed` is set it stays set, even
\* though close() is a plain store of a value read earlier and may run twice.
ShutdownBitIsFinal ==
  [][claimedDown => claimedDown']_vars

\* A receiver's cursor moves only over the items a guard has just shown, which
\* start right after it and are all published: every item once, in sequence.
EachItemOnceInOrder ==
  [][\A r \in Receivers : consumed'[r] \notin {consumed[r], SHUTDOWN_OPEN} =>
       \E g \in Readers :
         /\ rxOf[g] = r /\ rpc[g] = "guard"
         /\ GuardRange(g) # {} /\ GuardRange(g) \subseteq published
         /\ GuardRange(g) = (consumed[r] + 1) .. consumed'[r]]_vars

\* The channel is a fan-out log: FanoutLog, seen through the ring.
\* The sequences nobody has published yet are those some sender holds; a guard
\* shows what is in the slots it covers.
Owned == UNION {held[s] : s \in Senders}
Shown == [g \in Readers |-> [y \in GuardRange(g) |-> ring[IndexOf(y)]]]

\* After the shutdown `claimed` no longer says what comes next.
Tail == IF claimedDown THEN -1 ELSE claimed

\* The end was announced: some close() has put its mark.  The drop of a sender that
\* never claimed leaves INIT behind, which is no shutdown.
Over == claimedDown \/ (\E s \in Senders : pc[s] = "cstore") \/ (\A s \in Senders : ~Alive(s))

Log == INSTANCE FanoutLog WITH
  Gone <- SHUTDOWN_OPEN, Prompt <- TRUE,
  tail <- Tail, over <- Over, down <- claimedDown, owned <- Owned,
  log <- published, cursor <- consumed, view <- Shown, told <- rres

\* lib.rs:262-320, README: every receiver reads all items, in sequence and with
\* the content that was sent, and senders stay within Capacity of the slowest.
\* A batch that publishes a slot nobody wrote breaks it: one slot's permit whose
\* recycler panics or that is forgotten (NoSkippedSlot).
ImplementsLog == Log!Spec

\* A claim is refused as Full only while the ring really is full for some live
\* receiver (one receiver: the cursor is loaded after `claimed`, which may be stale).
FullOnlyWhenFull ==
  [][\A s \in Senders :
       pc[s] = "gate" /\ pc'[s] = "idle" /\ (\E r \in Receivers : Open(r)) /\ ~claimedDown
         => \E r \in Receivers : Open(r) /\ claimed - consumed[r] >= Capacity]_vars

\* receiver.rs:233-240: a call answers Empty only while the receiver's next item
\* is not there, however much is published behind it, for every limit up to
\* i64::MAX.  Above (LimitsFit) RecvNothing answers Empty with an item ready.
EmptyOnlyWhenEmpty ==
  [][\A g \in Readers :
       rres'[g] = "Empty" /\ (rres[g] # "Empty" \/ (rpc[g] = "scan" /\ rpc'[g] = "idle"))
         => consumed[rxOf[g]] + 1 \notin published]_vars

\* No sequence is claimed beyond this one: each sender can begin one call below
\* the bound.
LastSeq == SeqBound + Cardinality(Senders) * Capacity

\* Some sequence up to x was claimed and is lost: nobody will publish it.
HoleUpTo(x) == ~(0 .. x \subseteq published \cup Owned)

\* Everything published reaches every receiver that keeps receiving, unless a
\* lost claim stands before it.
PublishedIsReceived ==
  \A x \in 0 .. LastSeq : \A r \in Receivers :
    (x \in published) ~> (~Open(r) \/ consumed[r] >= x \/ HoleUpTo(x))

\* lib.rs:267-268: once the last sender is dropped, every receiver that keeps
\* receiving gets to Disconnected.
DropDisconnects ==
  (\A s \in Senders : ~Alive(s)) ~>
    (\A g \in Readers : ~Open(rxOf[g]) \/ rres[g] = "Disconnected")

\* sequencers/mod.rs:72-75: after terminate(), consumers will observe
\* Disconnected.
TerminateIsSeen ==
  claimedDown ~> (\A g \in Readers : ~Open(rxOf[g]) \/ rres[g] = "Disconnected")

-------------------------------------------------------------------------------
(* The inductive invariant behind NoConcurrentAccess and FlagsTellLapsApart. *)

\* The sequences whose state word a scan of receiver r may look at.
Window(r) == (consumed[r] + 1) .. (consumed[r] + Capacity)

\* While senders may still claim, nothing is held or consumed beyond `claimed`.
CursorsInOrder ==
  /\ claimed >= -1
  /\ claimedDown => claimed >= 0
  /\ ~claimedDown => /\ \A r \in Receivers : Open(r) => consumed[r] <= claimed
                     /\ \A s \in Senders : \A x \in held[s] : x <= claimed

\* Backpressure: a claim is never ahead of a live receiver by more than a ring.
HeldInWindow ==
  \A r \in Receivers : Open(r) => \A s \in Senders : held[s] \subseteq Window(r)

\* The claims of two senders are disjoint and share no slot, even when no
\* receiver is left to bound them.
HeldApart ==
  \A s, t \in Senders : s # t =>
    \A x \in held[s], y \in held[t] : x # y /\ x - y < Capacity

\* What a sender read before its compare_exchange is still a safe lower bound
\* of the receivers and of the other claims when the exchange succeeds.
AttemptSound(s) ==
  LET a == att[s] IN
  pc[s] \in {"gate", "cas"} =>
    /\ a.want >= 1 /\ a.last >= -1
    /\ ~claimedDown => a.last <= claimed
    /\ \A r \in Receivers : (Open(r) /\ (pc[s] = "cas" \/ r < a.gi)) =>
                              (a.gmin # SHUTDOWN_OPEN /\ a.gmin <= consumed[r])
    /\ (a.gmin # SHUTDOWN_OPEN /\ ~claimedDown) =>
          /\ a.gmin <= claimed
          /\ \A t \in Senders : \A x \in held[t] : a.gmin < x
    /\ pc[s] = "cas" => HasRoom(a.last, a.gmin)

\* A reader works from its receiver's cursor, and the flags it has accepted
\* are still there.
ReaderSound(g) ==
  rpc[g] \in {"scan", "guard"} =>
    /\ Open(rxOf[g])
    /\ rd[g].base = consumed[rxOf[g]]
    /\ rd[g].base < rd[g].top /\ rd[g].top <= rd[g].base + Capacity
    /\ rpc[g] = "scan" => rd[g].base < rd[g].pos /\ rd[g].pos <= rd[g].top
    /\ \A y \in (rd[g].base + 1) .. (IF rpc[g] = "scan" THEN rd[g].pos - 1 ELSE rd[g].top) :
         flag[IndexOf(y)] = AvailableFlag(y)

\* A published sequence is owned by nobody and can be claimed no more.
Settled(y) ==
  /\ y \in published
  /\ \A s \in Senders : y \notin held[s]
  /\ ~claimedDown => y <= claimed

\* A flag that matches inside a live window stands for a settled sequence.
FlagsSound ==
  \A r \in Receivers : Open(r) =>
    \A y \in Window(r) : flag[IndexOf(y)] = AvailableFlag(y) => Settled(y)

\* ... and what is published there is never hidden by another lap.
PublishedSound ==
  \A r \in Receivers : Open(r) => \A y \in published :
    /\ y <= consumed[r] + Capacity
    /\ y > consumed[r] => flag[IndexOf(y)] = AvailableFlag(y)

Closing == {"cload", "cscan", "cmark", "cstore"}

\* close() stores a value that is no longer INIT once anything was claimed:
\* the drop of the last sender runs alone, a panic comes after a claim.
CloseSound ==
  \A s \in Senders :
    /\ (pc[s] = "write" \/ held[s] # {}) => claimed >= 0
    /\ pc[s] \in Closing /\ cl[s].ret = "dropped" => \A t \in Senders \ {s} : ~Alive(t)
    /\ pc[s] \in Closing /\ cl[s].ret # "dropped" => claimed >= 0
    /\ pc[s] \in Closing \ {"cload"} =>
         IF cl[s].ret = "dropped" THEN cl[s].val = claimed ELSE cl[s].val >= 0

IndInv ==
  /\ TypeOK
  /\ CursorsInOrder /\ HeldInWindow /\ HeldApart
  /\ \A s \in Senders : AttemptSound(s)
  /\ \A g \in Readers : ReaderSound(g)
  /\ FlagsSound /\ PublishedSound /\ CloseSound

-------------------------------------------------------------------------------
(* The inductive invariant behind GuardShowsItsClaims and ImplementsLog, on    *)
(* top of IndInv; a slot that its batch skips breaks it.                       *)

NoSkippedSlot == Faults \cap {"slot_panic", "lost_slot"} = {}

Filled(x) == ring[IndexOf(x)] = x

\* A claim is one run of sequences within a ring, filled from the bottom up, and
\* published only when all of it is filled.
WriteOrder(s) ==
  /\ pc[s] \in {"gate", "cas"} => att[s].want <= Capacity
  /\ held[s] # {} => pc[s] \in {"write", "publish"}
  /\ pc[s] = "write" =>
       /\ nxt[s] \in held[s]
       /\ \E lo, hi \in held[s] : held[s] = lo .. hi /\ hi - lo < Capacity
       /\ \A x \in held[s] : x < nxt[s] => Filled(x)
  /\ pc[s] = "publish" => \A x \in held[s] : Filled(x)
  /\ pc[s] \in Closing => cl[s].ret \in {"idle", "dropped"}

\* What a live receiver has yet to read is still in its slot.
PublishedFilled ==
  \A r \in Receivers : Open(r) => \A y \in published : y > consumed[r] => Filled(y)

\* A mark in a state word is the end announced, and the first slot of a scan has
\* no verdict yet.
MarksSound ==
  /\ (\E i \in Slots : shut[i]) => Over
  /\ \A g \in Readers : rpc[g] = "scan" /\ rd[g].pos = rd[g].base + 1 => ~rd[g].sd

FillInv == (\A s \in Senders : WriteOrder(s)) /\ PublishedFilled /\ MarksSound

-------------------------------------------------------------------------------
(* The inductive invariant behind DisconnectedOnlyWhenDrained and              *)
(* DisconnectedIsFinal, on top of both; it needs every claim to be published.  *)

NoLoss == Faults \subseteq {"lost_guard"}

\* Every sender is dropped, the last one up to its store.
SendersGone == \A s \in Senders : Alive(s) => pc[s] = "cstore"

\* What was claimed is being written or published, and nothing else is.
ClaimsKept ==
  /\ 0 .. claimed \subseteq published \cup Owned
  /\ \A y \in published : y <= claimed
  /\ \A r \in Receivers : Open(r) => -1 <= consumed[r] /\ consumed[r] <= claimed

\* Only the last sender closes, and then nobody claims, writes or clones.
ClosedByTheLast ==
  /\ \A s \in Senders : pc[s] \in Closing => cl[s].ret = "dropped"
  /\ claimedDown => \A s \in Senders : ~Alive(s)
  /\ \A i \in Slots : shut[i] => SendersGone

\* The first slot of a scan has no verdict yet; once the verdict was
\* Disconnected, the mark is where every later scan begins.
VerdictSound ==
  /\ \A g \in Readers : rpc[g] = "scan" /\ rd[g].pos = rd[g].base + 1 => ~rd[g].sd
  /\ \A g \in Readers : rres[g] = "Disconnected" /\ Open(rxOf[g]) =>
       /\ shut[IndexOf(consumed[rxOf[g]] + 1)]
       /\ consumed[rxOf[g]] = claimed

DrainInv == ClaimsKept /\ ClosedByTheLast /\ VerdictSound
===============================================================================
