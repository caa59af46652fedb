------------------------------ MODULE SlotFences -------------------------------
(***************************************************************************)
(* The memory orderings of the hot path and of the close of the last       *)
(* sender.  EnsoChannel gives every atomic word one value that all threads *)
(* see; here a load may return any value of the word's history that the    *)
(* thread has not seen overwritten, and only release and acquire           *)
(* operations hand on what a thread has seen.                              *)
(*                                                                         *)
(* A location's history lists its messages, each with the view it carries; *)
(* a view gives, for each location, the last message it knows of.  Slots   *)
(* are ordinary memory: their accesses are listed in the same way, to tell *)
(* whether an access knows of those it must not race with.                 *)
(***************************************************************************)
EXTENDS RingMeta, Sequences, FiniteSets

CONSTANTS
  Senders,        \* threads with a Sender clone of their own
  NumReceivers,   \* 1 for mpsc, the N of fanout::channel::<N>
  Keepers,        \* receivers whose user reads on through references of iter()
  Limits,         \* limits given to the calls
  SeqBound,       \* bound: no claim begins from this sequence on
  SHUTDOWN_OPEN   \* i64::MAX, above every sequence

Receivers == 0 .. (NumReceivers - 1)
Threads   == Senders \cup Receivers

ASSUME ThreadsAssumption == NumReceivers \in Nat \ {0} /\ Senders \cap Receivers = {}
ASSUME CallsAssumption   == Limits \subseteq 1 .. Capacity
ASSUME OpenAssumption    == SHUTDOWN_OPEN \in Nat
ASSUME SendersAssumption == IsFiniteSet(Senders) /\ Senders # {}
ASSUME KeepersAssumption == Keepers \subseteq Receivers

\* The atomic words, and the accesses to the ordinary memory of the slots.
Claimed     == <<"claimed">>
Refs        == <<"refs">>                   \* the count of the Arc<SharedState>
Consumed(r) == <<"consumed", r>>
State(i)    == <<"state", i>>
Written(i)  == <<"written", i>>
ReadBy(i, r) == <<"read", i, r>>

Locations ==
  {Claimed, Refs} \cup {Consumed(r) : r \in Receivers}
  \cup UNION {{State(i), Written(i)} \cup {ReadBy(i, r) : r \in Receivers} : i \in Slots}

VARIABLES
  hist,   \* the messages of each location, in modification order
  cur,    \* what each thread has seen
  acq,    \* what an acquire fence would add: the views its loads met
  rel,    \* what its relaxed stores hand on: its view at the last release fence
  pc,     \* where each sender is
  att,    \* locals of try_claim_at_most
  own,    \* the claim: lo .. hi, and the next sequence to write or publish
  cl,     \* locals of close()
  rpc,    \* where each receiver is
  rd,     \* locals of the consumer's try_claim_at_most, then of the guard
  told    \* its last answer

memVars    == <<hist, cur, acq, rel>>
senderVars == <<pc, att, own, cl>>
readerVars == <<rpc, rd, told>>
vars == <<memVars, senderVars, readerVars>>

-------------------------------------------------------------------------------
(* Memory. *)

Last(l) == Len(hist[l])
Newest(l) == hist[l][Last(l)]

Join(v, w) == [l \in Locations |-> MaxOf(v[l], w[l])]

\* The messages of l a load of thread t may still return.
Readable(t, l) == cur[t][l] .. Last(l)

Seen(t, l, k) == [cur[t] EXCEPT ![l] = k]

\* An atomic load of the k-th message.
RelaxedLoad(t, l, k) ==
  /\ cur' = [cur EXCEPT ![t] = Seen(t, l, k)]
  /\ acq' = [acq EXCEPT ![t] = Join(@, hist[l][k].view)]

AcquireLoad(t, l, k) ==
  /\ cur' = [cur EXCEPT ![t] = Join(Seen(t, l, k), hist[l][k].view)]
  /\ acq' = [acq EXCEPT ![t] = Join(@, hist[l][k].view)]

\* One load of a scan, with the fence that follows the last one.
ScanLoad(t, l, k, fenced) ==
  LET met == Join(acq[t], hist[l][k].view) IN
  /\ acq' = [acq EXCEPT ![t] = met]
  /\ cur' = [cur EXCEPT ![t] = IF fenced THEN Join(Seen(t, l, k), met) ELSE Seen(t, l, k)]

\* A store at the end of the history, handing on the view given.
Store(t, l, v, view) ==
  LET k == Last(l) + 1 IN
  /\ hist' = [hist EXCEPT ![l] = Append(@, [val |-> v, view |-> [view EXCEPT ![l] = k]])]
  /\ cur' = [cur EXCEPT ![t] = [@ EXCEPT ![l] = k]]

\* What a store hands on: all its thread has seen, or what its last release
\* fence saw.
Releasing(t) == cur[t]
Relaxed(t)   == rel[t]

\* A read-modify-write reads the newest message and continues its release
\* sequence; it releases in every use here, and acquires when told so.
ReadModifyWrite(t, l, v, acquire) ==
  LET k == Last(l) + 1
      met == Newest(l).view
      after == [(IF acquire THEN Join(cur[t], met) ELSE cur[t]) EXCEPT ![l] = k]
  IN /\ hist' = [hist EXCEPT ![l] = Append(@, [val |-> v, view |-> Join(met, after)])]
     /\ cur' = [cur EXCEPT ![t] = after]
     /\ acq' = [acq EXCEPT ![t] = Join(@, met)]

-------------------------------------------------------------------------------
\* An attempt at `want` items after `last`, no cursor looked at yet.
Attempt(want, last) == [want |-> want, last |-> last, gi |-> 0, gmin |-> SHUTDOWN_OPEN]
NoAttempt == Attempt(0, -1)
NoClaim   == [lo |-> 0, hi |-> -1, nxt |-> 0]
NoClose   == [val |-> -1, pos |-> 0]
NoScan    == [base |-> -1, top |-> -1, pos |-> 0, sd |-> FALSE]

Initially(l) ==
  CASE l = Claimed -> [seq |-> -1, down |-> FALSE]
    [] l = Refs -> Cardinality(Senders)
    [] l \in {State(i) : i \in Slots} -> [flag |-> EmptyFlag, down |-> FALSE]
    [] OTHER -> -1

\* The channel is built, and its senders cloned, before the threads start.
Init ==
  LET start == [l \in Locations |-> 1] IN
  /\ hist = [l \in Locations |-> <<[val |-> Initially(l), view |-> start]>>]
  /\ cur = [t \in Threads |-> start]
  /\ acq = [t \in Threads |-> start]
  /\ rel = [t \in Threads |-> start]
  /\ pc = [s \in Senders |-> "idle"]
  /\ att = [s \in Senders |-> NoAttempt]
  /\ own = [s \in Senders |-> NoClaim]
  /\ cl = [s \in Senders |-> NoClose]
  /\ rpc = [r \in Receivers |-> "idle"]
  /\ rd = [r \in Receivers |-> NoScan]
  /\ told = [r \in Receivers |-> "none"]

Go(s, place) == pc' = [pc EXCEPT ![s] = place]

-------------------------------------------------------------------------------
(* Claiming. *)

\* The first look at `claimed` is relaxed: any value not seen overwritten.
StartClaim(s, n) ==
  \E k \in Readable(s, Claimed) :
    LET w == hist[Claimed][k].val IN
    /\ pc[s] = "idle" /\ ~w.down /\ w.seq < SeqBound
    /\ RelaxedLoad(s, Claimed, k)
    /\ att' = [att EXCEPT ![s] = Attempt(n, w.seq)]
    /\ Go(s, "gate")
    /\ UNCHANGED <<hist, rel, own, cl, readerVars>>

\* The gate that forgets to acquire what the receivers have read.
GateLoadRelaxed(s, l, k) == RelaxedLoad(s, l, k)

GateLoad(s, l, k) == AcquireLoad(s, l, k)

HasRoom(last, gmin) == gmin # SHUTDOWN_OPEN /\ AvailableSlots(last, gmin) >= 1

\* One receiver's cursor in max_consumed.
LoadConsumed(s) ==
  \E k \in Readable(s, Consumed(att[s].gi)) :
    LET a == att[s]
        gmin == MinOf(a.gmin, hist[Consumed(a.gi)][k].val)
    IN /\ pc[s] = "gate"
       /\ GateLoad(s, Consumed(a.gi), k)
       /\ \/ /\ a.gi + 1 < NumReceivers
             /\ att' = [att EXCEPT ![s].gi = a.gi + 1, ![s].gmin = gmin]
             /\ UNCHANGED pc
          \/ /\ a.gi + 1 = NumReceivers /\ HasRoom(a.last, gmin)
             /\ att' = [att EXCEPT ![s].gmin = gmin]
             /\ Go(s, "cas")
          \/ /\ a.gi + 1 = NumReceivers /\ ~HasRoom(a.last, gmin)
             /\ att' = [att EXCEPT ![s] = NoAttempt]
             /\ Go(s, "idle")
       /\ UNCHANGED <<hist, rel, own, cl, readerVars>>

\* The exchange compares with the newest value, whatever the thread has seen.
\* SHUTDOWN_OPEN is a bound here: no sequence reaches i64::MAX.
CasClaim(s) ==
  LET a == att[s]
      hi == a.last + MinOf(AvailableSlots(a.last, a.gmin), a.want)
  IN /\ pc[s] = "cas" /\ Newest(Claimed).val = [seq |-> a.last, down |-> FALSE]
     /\ hi < SHUTDOWN_OPEN
     /\ ReadModifyWrite(s, Claimed, [seq |-> hi, down |-> FALSE], TRUE)
     /\ own' = [own EXCEPT ![s] = [lo |-> a.last + 1, hi |-> hi, nxt |-> a.last + 1]]
     /\ att' = [att EXCEPT ![s] = NoAttempt]
     /\ Go(s, "write")
     /\ UNCHANGED <<rel, cl, readerVars>>

\* It fails with a relaxed load, of any value but the expected one.
CasRetry(s) ==
  \E k \in Readable(s, Claimed) :
    LET w == hist[Claimed][k].val IN
    /\ pc[s] = "cas"
    /\ Newest(Claimed).val # [seq |-> att[s].last, down |-> FALSE]
    /\ w # [seq |-> att[s].last, down |-> FALSE]
    /\ RelaxedLoad(s, Claimed, k)
    /\ IF w.down
         THEN att' = [att EXCEPT ![s] = NoAttempt] /\ Go(s, "idle")
         ELSE /\ att' = [att EXCEPT ![s] = Attempt(att[s].want, w.seq)]
              /\ Go(s, "gate")
    /\ UNCHANGED <<hist, rel, own, cl, readerVars>>

-------------------------------------------------------------------------------
(* Writing and publishing. *)

\* publish without its fence: the stores hand on nothing new.
NoFence(s) == rel[s]

\* fence(Release) at the head of publish and publish_range.
ReleaseFence(s) == cur[s]

\* A write of the next slot: the old value is dropped, the new one moved in.
FillSlot(s) ==
  LET c == own[s] IN
  /\ pc[s] = "write" /\ c.nxt <= c.hi
  /\ Store(s, Written(IndexOf(c.nxt)), c.nxt, Relaxed(s))
  /\ own' = [own EXCEPT ![s].nxt = c.nxt + 1]
  /\ UNCHANGED <<acq, rel, pc, att, cl, readerVars>>

StartPublish(s) ==
  /\ pc[s] = "write" /\ own[s].nxt > own[s].hi
  /\ rel' = [rel EXCEPT ![s] = ReleaseFence(s)]
  /\ own' = [own EXCEPT ![s].nxt = own[s].lo]
  /\ Go(s, "publish")
  /\ UNCHANGED <<hist, cur, acq, att, cl, readerVars>>

\* One relaxed store of publish_range; the shutdown bit it stores is clear.
PublishSlot(s) ==
  LET c == own[s] IN
  /\ pc[s] = "publish"
  /\ Store(s, State(IndexOf(c.nxt)), [flag |-> AvailableFlag(c.nxt), down |-> FALSE], Relaxed(s))
  /\ IF c.nxt < c.hi
       THEN own' = [own EXCEPT ![s].nxt = c.nxt + 1] /\ UNCHANGED pc
       ELSE own' = [own EXCEPT ![s] = NoClaim] /\ Go(s, "idle")
  /\ UNCHANGED <<acq, rel, att, cl, readerVars>>

-------------------------------------------------------------------------------
(* Dropping the senders: Arc::drop releases, the last one acquires and closes. *)

DropSender(s) ==
  LET n == Newest(Refs).val IN
  /\ pc[s] = "idle"
  /\ ReadModifyWrite(s, Refs, n - 1, n = 1)
  /\ Go(s, IF n = 1 THEN "cload" ELSE "dropped")
  /\ UNCHANGED <<rel, att, own, cl, readerVars>>

CloseLoad(s) ==
  \E k \in Readable(s, Claimed) :
    LET val == hist[Claimed][k].val.seq IN
    /\ pc[s] = "cload"
    /\ AcquireLoad(s, Claimed, k)
    /\ cl' = [cl EXCEPT ![s] = [val |-> val, pos |-> IF val < 0 THEN 0 ELSE WindowStart(val)]]
    /\ Go(s, IF val < 0 THEN "cmark" ELSE "cscan")
    /\ UNCHANGED <<hist, rel, att, own, readerVars>>

\* scan_last_available: relaxed loads, then a fence if anything was found.
CloseScan(s) ==
  LET c == cl[s] IN
  \E k \in Readable(s, State(IndexOf(c.pos))) :
    LET l == State(IndexOf(c.pos))
        available == hist[l][k].val.flag = AvailableFlag(c.pos)
        more == available /\ c.pos < c.val
        found == available \/ c.pos > WindowStart(c.val)
    IN /\ pc[s] = "cscan"
       /\ ScanLoad(s, l, k, ~more /\ found)
       /\ cl' = [cl EXCEPT ![s].pos = IF available THEN c.pos + 1 ELSE c.pos]
       /\ Go(s, IF more THEN "cscan" ELSE "cmark")
       /\ UNCHANGED <<hist, rel, att, own, readerVars>>

\* fetch_or(SHUTDOWN_BIT, Release) on the first slot not published.
CloseMark(s) ==
  LET l == State(IndexOf(cl[s].pos)) IN
  /\ pc[s] = "cmark"
  /\ ReadModifyWrite(s, l, [Newest(l).val EXCEPT !.down = TRUE], FALSE)
  /\ Go(s, "cstore")
  /\ UNCHANGED <<rel, att, own, cl, readerVars>>

CloseStore(s) ==
  /\ pc[s] = "cstore"
  /\ Store(s, Claimed, [seq |-> cl[s].val, down |-> cl[s].val # -1], Releasing(s))
  /\ cl' = [cl EXCEPT ![s] = NoClose]
  /\ Go(s, "dropped")
  /\ UNCHANGED <<acq, rel, att, own, readerVars>>

-------------------------------------------------------------------------------
(* Receiving. *)

\* The fence taken only when the whole batch asked for was there.
FenceWhenAll(base, last, top, sd) == last = top

\* "Ensure readers observe slot writes for all sequences <= last_available".
ScanFence(base, last, top, sd) == last > base \/ sd

\* Any item seen shut is enough to report Disconnected.
ScanOutcomeEager(base, last, sd) ==
  IF sd THEN "Disconnected" ELSE IF last > base THEN "Ok" ELSE "Empty"

ScanOutcome(base, last, sd) ==
  IF last > base THEN "Ok" ELSE IF sd THEN "Disconnected" ELSE "Empty"

\* The cursor is committed with a relaxed store.
CommitRelaxed(r) == rel[r]

CommitReleasing(r) == cur[r]

StartRecv(r, n) ==
  LET base == Newest(Consumed(r)).val IN
  /\ rpc[r] = "idle"
  /\ rpc' = [rpc EXCEPT ![r] = "scan"]
  /\ rd' = [rd EXCEPT ![r] = [base |-> base, top |-> base + n, pos |-> base + 1, sd |-> FALSE]]
  /\ AcquireLoad(r, Consumed(r), Last(Consumed(r)))
  /\ UNCHANGED <<hist, rel, senderVars, told>>

\* One relaxed load of scan_available_until, which may be stale.
ScanSlot(r) ==
  LET d == rd[r]
      l == State(IndexOf(d.pos))
  IN
  \E k \in Readable(r, l) :
    LET w == hist[l][k].val
        ready == w.flag = AvailableFlag(d.pos)
        more == ready /\ d.pos < d.top
        last == IF ready THEN d.pos ELSE d.pos - 1
        sd == d.sd \/ w.down
        outcome == ScanOutcome(d.base, last, sd)
    IN /\ rpc[r] = "scan"
       /\ ScanLoad(r, l, k, ~more /\ ScanFence(d.base, last, d.top, sd))
       /\ \/ /\ more
             /\ rd' = [rd EXCEPT ![r].pos = d.pos + 1, ![r].sd = sd]
             /\ UNCHANGED <<rpc, told>>
          \/ /\ ~more /\ told' = [told EXCEPT ![r] = outcome]
             /\ IF outcome = "Ok"
                  THEN /\ rpc' = [rpc EXCEPT ![r] = "guard"]
                       /\ rd' = [rd EXCEPT ![r] = [base |-> d.base, top |-> last,
                                                   pos |-> d.base + 1, sd |-> FALSE]]
                  ELSE /\ rpc' = [rpc EXCEPT ![r] = "idle"]
                       /\ rd' = [rd EXCEPT ![r] = NoScan]
       /\ UNCHANGED <<hist, rel, senderVars>>

\* The holder of the guard looks at the next item, while the guard lives.
ReadItem(r) ==
  /\ rpc[r] = "guard" /\ rd[r].pos <= rd[r].top
  /\ Store(r, ReadBy(IndexOf(rd[r].pos), r), rd[r].pos, Relaxed(r))
  /\ rd' = [rd EXCEPT ![r].pos = rd[r].pos + 1]
  /\ UNCHANGED <<acq, rel, senderVars, rpc, told>>

\* iter() yields references of the receiver's borrow, not of the guard's: one kept
\* from an earlier guard is read, whatever is in its slot by now.
ReadKept(r) ==
  /\ r \in Keepers /\ rpc[r] # "dropped"
  /\ \E y \in 0 .. Newest(Consumed(r)).val :
       Store(r, ReadBy(IndexOf(y), r), y, Relaxed(r))
  /\ UNCHANGED <<acq, rel, senderVars, readerVars>>

\* The guard may be dropped with items not looked at.
FinishGuard(r) ==
  /\ rpc[r] = "guard"
  /\ Store(r, Consumed(r), rd[r].top, CommitReleasing(r))
  /\ rpc' = [rpc EXCEPT ![r] = "idle"]
  /\ rd' = [rd EXCEPT ![r] = NoScan]
  /\ UNCHANGED <<acq, rel, senderVars, told>>

DropReceiver(r) ==
  /\ rpc[r] = "idle"
  /\ Store(r, Consumed(r), SHUTDOWN_OPEN, Releasing(r))
  /\ rpc' = [rpc EXCEPT ![r] = "dropped"]
  /\ UNCHANGED <<acq, rel, senderVars, rd, told>>

Terminated ==
  /\ \A s \in Senders : pc[s] = "dropped"
  /\ \A r \in Receivers : rpc[r] = "dropped"
  /\ UNCHANGED vars

SenderStep(s) ==
  \/ \E n \in Limits : StartClaim(s, n)
  \/ LoadConsumed(s) \/ CasClaim(s) \/ CasRetry(s)
  \/ FillSlot(s) \/ StartPublish(s) \/ PublishSlot(s)
  \/ DropSender(s) \/ CloseLoad(s) \/ CloseScan(s) \/ CloseMark(s) \/ CloseStore(s)

ReceiverStep(r) ==
  \/ \E n \in Limits : StartRecv(r, n)
  \/ ScanSlot(r) \/ ReadItem(r) \/ FinishGuard(r) \/ DropReceiver(r)

Next ==
  \/ \E s \in Senders : SenderStep(s)
  \/ \E r \in Receivers : ReceiverStep(r)
  \/ Terminated

Spec == Init /\ [][Next]_vars

\* A promise of the caller that the compiler does not enforce: no reference of a
\* batch is used after its guard.  KeptSpec is the channel of callers who may break
\* it, Spec that of callers who keep it.
ReadsEndWithGuard == Keepers = {}

KeptSpec == Init /\ [][Next \/ \E r \in Receivers : ReadKept(r)]_vars

-------------------------------------------------------------------------------
(* Properties. *)

Views == [Locations -> Nat \ {0}]

SenderPlaces == {"idle", "gate", "cas", "write", "publish",
                 "cload", "cscan", "cmark", "cstore", "dropped"}

\* What the messages of a location say.
ValuesOf(l) ==
  IF l = Claimed THEN [seq : Int, down : BOOLEAN]
  ELSE IF l \in {State(i) : i \in Slots} THEN [flag : Flags, down : BOOLEAN]
  ELSE Int

\* Nobody, and no message, knows of a message that is not yet there.
MemoryOK ==
  /\ DOMAIN hist = Locations
  /\ \A l \in Locations :
       /\ hist[l] \in Seq([val : ValuesOf(l), view : Views]) /\ Last(l) >= 1
       /\ \A k \in 1 .. Last(l), m \in Locations : hist[l][k].view[m] <= Last(m)
  /\ cur \in [Threads -> Views] /\ acq \in [Threads -> Views] /\ rel \in [Threads -> Views]
  /\ \A t \in Threads, l \in Locations :
       cur[t][l] <= Last(l) /\ acq[t][l] <= Last(l) /\ rel[t][l] <= cur[t][l]

LocalsOK ==
  /\ att \in [Senders -> [want : Nat, last : Int, gi : Receivers, gmin : Int]]
  /\ own \in [Senders -> [lo : Int, hi : Int, nxt : Int]]
  /\ cl \in [Senders -> [val : Int, pos : Nat]]
  /\ rd \in [Receivers -> [base : Int, top : Int, pos : Nat, sd : BOOLEAN]]
  /\ pc \in [Senders -> SenderPlaces]
  /\ rpc \in [Receivers -> {"idle", "scan", "guard", "dropped"}]
  /\ told \in [Receivers -> {"none", "Ok", "Empty", "Disconnected"}]

\* The types of the memory and of the threads' locals.
TypeOK == MemoryOK /\ LocalsOK

Knows(t, l) == cur[t][l] = Last(l)

\* ringbuffer.rs:17-28: whoever is about to write a slot has the earlier writes
\* and every receiver's reads of it happen before.  It needs ReadsEndWithGuard: a
\* read through a reference that outlives its guard comes too late (run kept_refs).
WritesAreOrdered ==
  \A s \in Senders : pc[s] = "write" =>
    \A x \in own[s].nxt .. own[s].hi :
      /\ Knows(s, Written(IndexOf(x)))
      /\ \A r \in Receivers : Knows(s, ReadBy(IndexOf(x), r))

\* ringbuffer.rs:24-28: whatever a live guard covers, its holder has seen the
\* write of it, and that write is the one of the sequence asked for.
ReadsAreOrdered ==
  \A r \in Receivers : rpc[r] = "guard" =>
    \A y \in (rd[r].base + 1) .. rd[r].top :
      /\ Knows(r, Written(IndexOf(y)))
      /\ Newest(Written(IndexOf(y))).val = y

\* A relaxed store of a state word cannot be overtaken by an older one: its
\* thread has seen every earlier store of that word.
StateStoresAreOrdered ==
  \A s \in Senders : pc[s] = "publish" => Knows(s, State(IndexOf(own[s].nxt)))

\* lib.rs:314-320 with stale loads: Disconnected still means that all that was
\* claimed was consumed.
StaleDisconnect ==
  \A r \in Receivers : told[r] = "Disconnected" /\ rpc[r] # "dropped" =>
    /\ \A s \in Senders : pc[s] \in {"cstore", "dropped"}
    /\ Newest(Consumed(r)).val = Newest(Claimed).val.seq

-------------------------------------------------------------------------------
(* What the channel promises in spite of stale loads: FanoutLog, where only an   *)
(* answer of Empty may come late.  The state that counts is that of the newest   *)
(* messages, whoever has seen them.                                              *)

Highest   == Newest(Claimed).val.seq
Cursor(r) == Newest(Consumed(r)).val

\* The k-th message of State(i) and of Written(i) is about the sequence of slot i
\* whose Pos is k.
Pos(x) == LapOf(x) + 2

\* What a sender has claimed and not yet published.
Held(c, place) == {x \in c.lo .. c.hi : place = "publish" => c.nxt <= x}
Holds(s) == Held(own[s], pc[s])

Shut      == Newest(Claimed).val.down
LogTail   == IF Shut THEN -1 ELSE Highest
Owned     == UNION {Holds(s) : s \in Senders}
Published == {x \in 0 .. Highest : Pos(x) <= Last(State(IndexOf(x)))}
Cursors   == [r \in Receivers |-> Cursor(r)]

\* What a guard covers, and the last write its holder has seen under each sequence.
Covered(r) == IF rpc[r] = "guard" THEN (rd[r].base + 1) .. rd[r].top ELSE {}
LastSeen(r, l) == hist[l][cur[r][l]].val
Shown == [r \in Receivers |-> [y \in Covered(r) |-> LastSeen(r, Written(IndexOf(y)))]]

\* The end is announced: every clone is dropped, the last one up to its store.
Closed == \A s \in Senders : pc[s] \in {"cstore", "dropped"}

\* Every receiver reads for itself.
Itself == [r \in Receivers |-> r]

Log == INSTANCE FanoutLog WITH
  Readers <- Receivers, rxOf <- Itself, Gone <- SHUTDOWN_OPEN, Prompt <- FALSE,
  tail <- LogTail, over <- Closed, down <- Shut, owned <- Owned, log <- Published,
  cursor <- Cursors, view <- Shown, told <- told

\* The hot path, with its loads and stores ordered as the code orders them, is the
\* log promised: a claim ends within reach of every receiver, a guard shows the
\* items published next, and Disconnected comes after the last of them.
ImplementsLog == Log!Spec

-------------------------------------------------------------------------------
(* The inductive invariant.  The k-th message of Written(i) and of State(i) is *)
(* about the sequence of slot i whose Pos is k, so what a view knows of a slot *)
(* can be read as the sequences whose write or publication it knows.           *)

Staying == {s \in Senders : pc[s] \in {"idle", "gate", "cas", "write", "publish"}}

\* The view v knows of the write and the publication of all up to c.
Covers(v, c) ==
  \A z \in 0 .. c : v[Written(IndexOf(z))] >= Pos(z) /\ v[State(IndexOf(z))] >= Pos(z)

\* The view v knows of all that receiver r has read up to c, by the histories h.
KnowsReads(h, v, r, c) ==
  \A i \in Slots : \A j \in 1 .. Len(h[ReadBy(i, r)]) :
    h[ReadBy(i, r)][j].val <= c => j <= v[ReadBy(i, r)]

\* A cursor behind all claims in hand, met by a view that knows what it stands for.
CursorKnown(v, c) ==
  c \in -1 .. Highest /\ Covers(v, c) /\ \A s \in Senders : \A x \in Holds(s) : c < x

\* `claimed` only grows, and a channel in which nothing was claimed is never shut.
ClaimsSound ==
  /\ \A k \in 1 .. Last(Claimed) : hist[Claimed][k].val.seq \in -1 .. Highest
  /\ Highest < SHUTDOWN_OPEN
  /\ Shut => Highest # -1

\* Claims are disjoint and within one ring; what nobody holds is published.
HoldsSound ==
  /\ \A s \in Senders : pc[s] \notin {"write", "publish"} => own[s] = NoClaim
  /\ \A s \in Senders : \A x \in Holds(s) : x \in 0 .. Highest
  /\ \A s, u \in Senders : \A x \in Holds(s), y \in Holds(u) :
       x - y < Capacity /\ (s # u => x # y)
  /\ \A x \in 0 .. Highest :
       (\E s \in Senders : x \in Holds(s)) \/ Pos(x) <= Last(State(IndexOf(x)))

WrittenSound ==
  \A i \in Slots : \A k \in 2 .. Last(Written(i)) :
    LET x == hist[Written(i)][k].val IN IndexOf(x) = i /\ Pos(x) = k /\ x \in 0 .. Highest

\* The k-th state word hands on the k-th write of its slot.
CarriesWrite(i, k) ==
  LET m == hist[State(i)][k] IN
  /\ ~m.val.down /\ k <= Last(Written(i))
  /\ m.val.flag = AvailableFlag(hist[Written(i)][k].val)
  /\ m.view[Written(i)] >= k

\* The shutdown bit is on the slot after the last claim, on top of its last flag.
CarriesShutdown(i, k) ==
  LET m == hist[State(i)][k] IN
  /\ m.val.down /\ k = Last(State(i))
  /\ m.val.flag = hist[State(i)][k - 1].val.flag /\ ~hist[State(i)][k - 1].val.down
  /\ m.view[Written(i)] >= k - 1
  /\ IndexOf(Highest + 1) = i /\ Pos(Highest + 1) = k
  /\ \A s \in Senders : pc[s] \in {"cstore", "dropped"}

StateSound ==
  \A i \in Slots :
    /\ hist[State(i)][1].val = [flag |-> EmptyFlag, down |-> FALSE]
    /\ \A k \in 2 .. Last(State(i)) : CarriesWrite(i, k) \/ CarriesShutdown(i, k)

\* The gate's minimum so far stands for reads and publications its sender knows.
AttemptSound ==
  \A s \in Senders : pc[s] \in {"gate", "cas"} =>
    LET a == att[s] IN
    /\ a.want >= 1 /\ a.last \in -1 .. Highest /\ a.gmin <= SHUTDOWN_OPEN
    /\ \A r \in Receivers : r < a.gi \/ pc[s] = "cas" =>
         KnowsReads(hist, cur[s], r, a.gmin) /\ a.gmin <= Cursor(r)
    /\ a.gmin # SHUTDOWN_OPEN => CursorKnown(cur[s], a.gmin)
    /\ pc[s] = "cas" => HasRoom(a.last, a.gmin)

WriterSound ==
  \A s \in Senders : LET c == own[s] IN
    /\ pc[s] \in {"write", "publish"} => 0 <= c.lo /\ c.lo <= c.nxt /\ c.lo <= c.hi
    /\ pc[s] = "write" => c.nxt <= c.hi + 1
    /\ pc[s] = "publish" => c.nxt <= c.hi
    /\ \A x \in Holds(s) :
         LET i == IndexOf(x) IN Knows(s, State(i)) /\ Last(State(i)) = Pos(x) - 1
    /\ pc[s] = "write" =>
         /\ \A x \in c.lo .. (c.nxt - 1) : cur[s][Written(IndexOf(x))] >= Pos(x)
         /\ \A x \in c.nxt .. c.hi :
              LET i == IndexOf(x) IN
              /\ Knows(s, Written(i)) /\ Last(Written(i)) = Pos(x) - 1
              /\ \A r \in Receivers : Knows(s, ReadBy(i, r))
    /\ pc[s] = "publish" => \A x \in c.nxt .. c.hi : rel[s][Written(IndexOf(x))] >= Pos(x)

CursorSound ==
  \A r \in Receivers :
    /\ rpc[r] = "dropped" => Cursor(r) = SHUTDOWN_OPEN
    /\ rpc[r] # "dropped" => /\ Cursor(r) \in -1 .. Highest /\ Highest <= Cursor(r) + Capacity
                             /\ Covers(cur[r], Cursor(r))
    /\ \A k \in 1 .. Last(Consumed(r)) :
         LET m == hist[Consumed(r)][k] IN
         /\ KnowsReads(hist, m.view, r, m.val) /\ m.val <= Cursor(r)
         /\ IF m.val = SHUTDOWN_OPEN THEN rpc[r] = "dropped" ELSE CursorKnown(m.view, m.val)

\* What a receiver has read lies behind its cursor, or in its guard.
ReadsSound ==
  \A r \in Receivers, i \in Slots :
    /\ Knows(r, ReadBy(i, r))
    /\ \A j \in 2 .. Last(ReadBy(i, r)) :
         LET y == hist[ReadBy(i, r)][j].val IN
         /\ IndexOf(y) = i /\ y \in 0 .. Highest
         /\ rpc[r] # "dropped" => y <= Cursor(r) \/ (rpc[r] = "guard" /\ y < rd[r].pos)

\* What a scan found is published, and its fence will hand on the writes.
ReaderSound ==
  \A r \in Receivers : LET d == rd[r] IN
    /\ rpc[r] = "scan" =>
         /\ d.base = Cursor(r) /\ d.base < d.pos /\ d.pos <= d.top /\ d.top <= d.base + Capacity
         /\ d.pos = d.base + 1 => ~d.sd
         /\ \A y \in (d.base + 1) .. (d.pos - 1) :
              /\ y <= Highest
              /\ cur[r][State(IndexOf(y))] >= Pos(y) /\ acq[r][Written(IndexOf(y))] >= Pos(y)
    /\ rpc[r] = "guard" =>
         /\ d.base = Cursor(r) /\ d.base < d.pos /\ d.base < d.top
         /\ d.top <= d.base + Capacity /\ d.top <= Highest
         /\ d.pos <= d.top + 1 /\ told[r] = "Ok"
         /\ Covers(cur[r], d.top)

\* Whoever still has a clone, or the count itself, knows the newest claim and
\* the newest publication of each slot; the last to go takes that over.
RefsSound ==
  /\ Newest(Refs).val = Cardinality(Staying)
  /\ Staying # {} => \A l \in {Claimed} \cup {State(i) : i \in Slots} :
       Newest(Refs).view[l] = Last(l) \/ \E s \in Staying : Knows(s, l)

CloserSound ==
  \A s \in Senders : pc[s] \in {"cload", "cscan", "cmark", "cstore"} =>
    /\ \A u \in Senders \ {s} : pc[u] = "dropped"
    /\ pc[s] = "cload" => Knows(s, Claimed)
    /\ pc[s] \in {"cload", "cscan"} => \A i \in Slots : Knows(s, State(i))
    /\ pc[s] # "cload" => cl[s].val = Highest
    /\ pc[s] = "cscan" => Highest >= 0 /\ cl[s].pos \in WindowStart(Highest) .. Highest
    /\ pc[s] = "cmark" => cl[s].pos = Highest + 1

IndInv ==
  /\ ClaimsSound /\ HoldsSound /\ WrittenSound /\ StateSound
  /\ AttemptSound /\ WriterSound
  /\ CursorSound /\ ReadsSound /\ ReaderSound
  /\ RefsSound /\ CloserSound /\ StaleDisconnect
===============================================================================
