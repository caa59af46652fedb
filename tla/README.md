# enso-channel: TLA+ models and proofs

This directory specifies and verifies the core of `enso-channel`, a lock-free bounded channel
built on a pre-allocated ring (LMAX-Disruptor style). Paths below are relative to the crate
root; `seq` is an absolute sequence number, `Capacity` the size of the ring.

## The system

| Part | State | Operations | Talks to |
|---|---|---|---|
| ring arithmetic (`src/ringbuffer.rs`) | the slots | `index_of_seq`, `available_slots`, `modify_at`, `get_ref_at` | everyone |
| slot states (`src/slot_states.rs`) | one 32-bit word per slot: 31-bit lap flag, shutdown bit | `publish`, `publish_range`, `scan_available_until`, `scan_last_available`, `mark_shutdown` | written by senders, scanned by receivers and by `close` |
| multi-publisher sequencer (`src/sequencers/pub_mul.rs`) | `claimed`: last claimed seq and the shutdown bit, shared by all clones | `try_claim(_at_most)`, `commit(_range)`, `terminate`, drop of the shared state (`close`) | reads the receivers' cursors through the gate |
| consumer sequencer and gates (`consumer.rs`, `con_ex.rs`, `con_fanout.rs`) | `consumed`: one cursor per receiver | `try_claim(_at_most)`, `commit(_range)`, drop, `max_consumed`, `notify`, `claim_at_most_async` | scans the slot states; gates the senders |
| senders and permits (`src/sender.rs`, `src/guards.rs`) | the claimed range, the next slot to fill | `try_send`, `try_reserve`, `try_send_at_most`; a permit or batch fills (write, update, recycler) and commits on drop | sequencer, ring |
| receivers and guards (`src/receiver.rs`) | the range of each live guard | `try_recv`, `try_recv_at_most`, async forms, iteration, drop | consumer sequencer, ring |
| topologies (`src/mpsc.rs`, `src/fanout.rs`) | none of their own | build, clone, delegate | |
| async wake-up (`src/waker.rs`) | one `AtomicWaker` per receiver | `register`, `wake` | `notify` in every commit and close |
| sequencer contracts (`src/sequencers/mod.rs`) | none | the sealed traits | what `FanoutLog` states |
| errors, sequence, cursor, recycler | none | conversions, comparisons, user code | |

What is hard here: everything is a handful of atomic words touched by any number of threads, with
no lock. A sender decides on cursors that have moved by the time its compare-exchange runs;
publications appear out of order; the receiver side relies on a flag that wraps and on loads that may be
stale; shutdown is a scan, a mark and a plain store that race with claims and publishes; user code may
panic or leak between claim and commit; a task may fall asleep while a sender is about to wake it.

What makes it correct, part by part:

* claims are disjoint, and never a ring or more ahead of a live receiver;
* a slot is accessed by one writer or by readers, never both, and each such access happens after the one before;
* a lap flag in a receiver's window stands for the seq it seems to stand for;
* a receiver sees every item once, in seq order, with the contents its claim wrote;
* `Full`, `Empty` and `Disconnected` are said only when true; `Disconnected` is final, comes after
  everything that can be drained, and does come;
* no task sleeps on something to see.

## The modules

| Module | Contents |
|---|---|
| `RingMeta` | slot, lap and flag of a seq; free slots; the window `close` scans |
| `EnsoChannel` | the channel: state, one action per atomic access or slot write, faults, properties, the inductive invariants |
| `FanoutLog` | the abstract channel: a log, senders at most `Capacity` ahead of every receiver, one cursor and one batch per receiver; with `Prompt = FALSE`, an `Empty` may come late |
| `AsyncChannel` | `EnsoChannel` with `notify`, wakers, tasks and the executor |
| `SlotFences` | the hot path and the last close under weak memory: stale loads, fences, views |
| `RingBits` | the cursor word and the state word bit by bit, next to the numbers the others keep |
| `MCEnsoChannel`, `MCAsyncChannel`, `MCSlotFences`, `MCRingBits` | model values, symmetry, receiver assignments and bit operations of the runs |
| `RingMetaProofs`, `EnsoChannelProofs`, `LogProofs`, `AsyncChannelProofs`, `SlotFencesMemory`, `SlotFencesSenders`, `SlotFencesProofs`, `RingBitsProofs` | lemmas and theorems |

`FanoutLog` tells the announcement of the end from the shutdown: `Announce` lets receivers be told `Disconnected`, `Shutdown` ends the claims. The
first is the mark of `close` (`Over` in `EnsoChannel`, `Closed` in `SlotFences`), the second its store to `claimed`; so `Disconnected` before any
close is no behaviour of the log.

`AsyncChannel` extends `EnsoChannel`, which extends `RingMeta`. `EnsoChannel` instantiates `FanoutLog`
as `Log`, and `RingBits` instantiates `RingMeta` as `Ring`. `SlotFences` is a model of its own over `RingMeta`,
and instantiates `FanoutLog` too: both detailed models implement the one abstract channel.

### EnsoChannel

`claimed`/`claimedDown` are the value and the shutdown bit of one atomic word, as are `flag[i]`/
`shut[i]`. `ring[i]` names the claim that wrote slot `i` last. `consumed[r]` is a receiver's cursor;
`SHUTDOWN_OPEN` (`i64::MAX`) is a value above all seqs. `published` is a history variable. The rest are
the locals of calls in flight.

A member of `Senders` is *one use of a sender*: a clone, or one outstanding permit of it, since
`try_reserve(&self)` lets one handle hold several permits. A member of `Readers` is one use of
receiver `rxOf[g]`; `try_recv(&self)` likewise allows several, see `OneGuardPerReceiver`.

| Code | Actions |
|---|---|
| `try_claim_at_most` (senders) | `StartClaim` loads `claimed`; `LoadConsumed` loads one receiver's cursor and, after the last, decides; `CasClaim`, `CasRetry` are the exchange |
| the same with a limit above `i64::MAX` | `CasRewind`: `limit as i64` is negative, the exchange moves the cursor back; `CasWrap`: `i64::MIN` added to `INIT` wraps, the batch covers every seq |
| write / update / recycler | `FillSlot`, one slot at a time |
| `commit`, `commit_range` | `PublishSlot`, one flag store at a time, in any order (the stores of `publish_range` are relaxed, behind one release fence) |
| recycler panic | `CommitPanic` (drop of a permit or of a batch), `SlotPermitPanic` (drop of one slot's permit: the batch lives on) |
| `mem::forget` of a permit or a batch; panic inside `try_send` | `Abandon` |
| `mem::forget` of one slot's permit of a batch | `ForgetSlotPermit`: `next()` has moved on, the batch publishes the slot as it was |
| `close` | `CloseLoad`, `CloseScan` (one slot), `CloseMark` (`fetch_or`), `CloseStore` (plain store) |
| clone, drop | `CloneSender`, `DropSender` (the last one closes), `DropReceiver` |
| `try_claim_at_most` (receivers) | `StartRecv`, `ScanSlot` (one load gives flag and shutdown bit); `RecvNothing` with a limit above `i64::MAX` |
| guard drop, `mem::forget` of a guard | `FinishGuard`, `ForgetGuard` |

A call that returns without changing anything shared at its first load (`Disconnected`, limit 0) is
a stutter and has no action. `Full` and `Disconnected` of a refused claim are both `GiveUp`: the state is
left the same.

`Faults` says what user code may do wrong: `recycler_panic`, `slot_panic`, `lost_claim`, `lost_slot`, `lost_guard`. Three
promises of the caller, which the compiler does not enforce, are named conditions:

* `OneGuardPerReceiver`: one guard, or task, of a receiver at a time;
* `LimitsFit`: no limit above `i64::MAX`. `Spec` is the channel of callers that keep it; `WideSpec` adds what the casts do
  otherwise, and implements `Spec` when the limits fit (`FittingLimits`). The exchange comes before any assertion of a debug
  build; only the overflow of `CasWrap` would panic before it;
* `ReadsEndWithGuard` (in `SlotFences`, where reads are steps): no reference that `iter()` yields is used after its guard. Such references
  borrow the receiver, not the guard. `GuardRange` and the properties about it are about guards that live.

### AsyncChannel

| Code | Actions |
|---|---|
| `commit(_range)` then `notify` | `Commit` (the last store starts it), `Notify` (`AtomicWaker::wake` of one receiver) |
| `close` then `notify` | `CloseAndNotify`, `Notify` |
| `claim_at_most_async`, first attempt | `BeginRecv`, `AttemptScan` |
| register and second attempt | `Register`, `Recheck`, `AttemptScan` |
| the executor polls a sleeping task | `Repoll`: after a wake, or for no reason |
| a pending future is dropped | `DropFuture`: the registration stays behind |
| guards, drop of a receiver | `EndGuard`, `AsyncDropReceiver` |

`AtomicWaker` and the executor are external: `register` and `wake` are atomic, and a woken task is
polled in the end.

### SlotFences

Every atomic word has a history of messages (`hist`), each carrying a view, i.e. the last message known of
every location. A load returns any message its thread has not seen overwritten. `cur` is what a thread has seen, `acq` what an
acquire fence would add, `rel` what its relaxed stores hand on. `RelaxedLoad`, `AcquireLoad`, `ScanLoad` (a
relaxed load and, after the last of a scan, the fence of `scan_*`), `Store` and `ReadModifyWrite` (which reads the
newest message and continues its release sequence) are the operations; the orderings at each
call are those of the code. The writes and reads of a slot are listed in histories too, so that "this
access knows of that one" is happens-before, and `WritesAreOrdered`/`ReadsAreOrdered` say there is no data race.

Stores go to the end of a history. This is exact: each cursor of a receiver has one writer, `claimed`
is changed by read-modify-writes up to the plain store of the last `close`, which runs alone, and for state words
`StateStoresAreOrdered` says that a store's thread has seen all earlier ones.
The module covers claims, writes, commits, receives, drops, and the close by the last sender; senders are
cloned before the threads start, and panics (so `terminate`) are left to `EnsoChannel`.
Sequences stay below `SHUTDOWN_OPEN`, i.e. `i64::MAX`: `CasClaim` has that bound in its guard. The set of senders is finite
and not empty (`SendersAssumption`), as `Refs` counts them.

`ReadItem` is a read while its guard lives; `ReadKept` is one through a reference that outlives it, by the receivers in `Keepers`.
`Spec` has no `ReadKept`. `KeptSpec` has, and is `Spec` again if `Keepers` is empty (`ReadsEndWithGuard`).

`ImplementsLog` maps the newest message of each word, whoever has seen it, to the state of `FanoutLog` (`LogTail`, `Owned`,
`Published`, `Cursors`), and what a guard shows to the last write its holder has seen of each slot (`Shown`). `Prompt` is `FALSE`
here: a scan may miss an item that was published, since nothing makes a relaxed load return the newest word. That is all
stale loads can do. A claim still ends within `Capacity` of every live cursor, a batch holds the items of its seqs, and
`Disconnected` is true when it is told.

`IndInv` is the inductive invariant behind these properties. It rests on one observation: the k-th message of `Written(i)` and of
`State(i)` is about the one seq of slot i whose `Pos` is k, until the mark of the close. So "this view
knows the k-th message" reads as "this view knows that seq's write (or publication)", and all that threads know of
each other can be said of seqs (`Covers`, `KnowsReads`).

### RingBits

`word` and `state` are unsigned numbers whose top bits are `SHUTDOWN_MASK` and `SHUTDOWN_BIT`, changed by the masks,
shifts and wrapping additions of the code; `claimed`, `down`, `flag`, `shut` change as in the other modules. The
two invariants say one reads as the other. Seqs stop below `i64::MAX`, which is `SHUTDOWN_OPEN` and
with the shutdown bit would read as `INIT`.

The bit operations are parameters (`BitAnd`, `BitOr`, `ShiftRight`, `trailing_zeros`), of which `MaskAssumption`
and `TopBitAssumption` say what is used: a mask of low bits takes the remainder, a shift by a ring size's
zeros the quotient, and the top bit is set in the upper half of the words. `MCRingBits` gives the
operations of `Bitwise`, and TLC evaluates these assumptions on every word.

## Checking

`tlc -config X.cfg M`, where `M` is `MCEnsoChannel` unless said otherwise:

| Run | Instance | Shows |
|---|---|---|
| `mpsc` | 1 receiver, 2 sender uses, all calls, claims begin up to seq 4 | safety of the mpsc topology without faults, true answers, and `IndInv`, `DrainInv` |
| `fanout` | 2 receivers, 2 sender uses, batches; lost claims; fair | the refinement to `FanoutLog`, with `FillInv`, under a gate that reads two cursors at different moments; delivery up to the first hole to receivers that poll, and disconnection after the last sender's drop |
| `poison` | 2 receivers, 2 sender uses, batches, all five faults | what survives panics, lost claims, forgotten permits of one slot and forgotten guards |
| `async` (`MCAsyncChannel`) | 2 tasks, 2 sender uses, fair, lost claims | no lost wake-up, `WakeInv`, and disconnection of tasks that are polled only when woken |
| `fences` (`MCSlotFences`) | 2 senders, 1 receiver, batches of 1 and 2 | no data race with stale loads, up to the last close, the refinement to `FanoutLog`, and the `IndInv` behind both |
| `fences_fanout` (`MCSlotFences`) | 1 sender, 2 receivers, ring of one slot, 3 laps | the same for a slot that two receivers must have released |
| `bits` (`MCRingBits`) | 8-bit cursor, 4-bit states, rings of 1, 2 and 4 | the words mean what the models keep, over several wraps of the flag; the laws of the bit operations |
| `terminate_seen`, `close_race`, `two_guards`, `wide_send`, `kept_refs` (`MCSlotFences`) | smallest that shows it | five places where a doc or comment promises more than the code does |

Bounds. `Capacity = 2` is the smallest ring in which a slot has a neighbour: batches of two, holes in front of
published items, and a claim that wraps all occur; `async` and `fences_fanout` take a ring of one slot,
where each item needs a release by every receiver and senders meet a full ring at once.
`Laps = 2` makes the 31-bit flag wrap on every second lap, the tightest value the
assumptions allow (the theorems show that two are enough); with `SeqBound = 4` in `mpsc` more than two laps are claimed.
`SeqBound` only stops *new* calls: a call that began keeps its freedom, so seqs reach beyond it (`LastSeq`): in
`fanout`, with 1, a batch retried after a lost race ends at seq 3, on the second lap, and in `poison` at seq 4, on the third; in `async`, with 0, each sender
claims at most once, and the tasks can sleep before either item and before the shutdown. Two sender uses give every pairwise
race of claims, publishes and closes, including a drop of the last sender after a race of two
terminations. `Limits = {1, 2}` covers single and batch claims, and partial batches when less is
free; `fanout` has batches of two only, and with panics and forgotten guards its refinement rests on the theorem, since liveness, checked in the
same run, does not survive them. `I64_MAX = 7` is above every limit the ring can tell apart, and makes 15 the widest
`usize`, i.e. -1. Symmetry of senders is used in runs without temporal properties under fairness only. Deadlock checking stays on: the
only terminal state is `Terminated`, everything dropped.

Fairness. `FairSpec`: a sender inside a call, and a receiver that has not been dropped, keep
taking steps (`WF` per sender use and per reader): these are running threads and the polling loops of the examples and
tests. Nothing forces a sender to begin a call, to be dropped or to fail, nor a receiver to be dropped.
A guard held for ever stops delivery in the code as well; weak fairness of a reader rules that out.
`AsyncFairness` asks less of receivers: a task runs until it sleeps, and a sleeping one is polled only if it was woken.
Polls for no reason may happen and are never relied on.

What the violations show (each in `PROJECT.json` under `findings`):

* `terminate_seen`: `publish` stores the whole word and so wipes a shutdown mark on its slot; after
  a recycler panic a receiver may poll `Empty` for ever.
* `close_race`: `close` ends with a plain store of the value it loaded first. A claim made in between
  is erased from `claimed`; the final close then works from the old value, and its mark may land on a slot already behind
  the receivers. They stand at the hole that the panic left, poll `Empty`, and are never told.
* `two_guards`: two guards of one receiver; dropping one frees a slot the other reads. The argument
  written at `unsafe impl Sync` needs `OneGuardPerReceiver`, which `&self` does not give.
* `wide_send`: `try_send_at_most` with a limit above `i64::MAX` moves `claimed` back, and a later claim
  takes slots that are still being written. In this case a debug build does the same: the batch that covers nothing ends at seq -1, and
  its drop returns at `guards.rs:173`. The argument needs `LimitsFit`.
* `kept_refs`: `iter()` yields `&'a T` of the receiver's borrow (`receiver.rs:201`), while `src/lib.rs:68-69` says such references cannot
  outlive the guard. One that does is read while the next sender writes the slot. The argument needs `ReadsEndWithGuard`.

The same conditions bound other properties, which can be seen to fail by changing the constants or the specification of a run:
`GuardShowsItsClaims`, `FillInv` and the refinement with `slot_panic` or `lost_slot` (the recycler panics in the drop of one slot's permit, or that
permit is forgotten, and the batch publishes the slot with its old content; hence `NoSkippedSlot`); `NoLostWakeup` and `DropDisconnects` with two tasks on one receiver
(the second takes the place of the first in the only waker); `EmptyOnlyWhenEmpty` in `WideSpec`
(`RecvNothing`). Contrary to `src/lib.rs:309-310`, an item committed after a shutdown is received when it lies in reach.

## Proofs

`tlapm` on the eight proof modules proves, for every set of senders and readers, every capacity, every
number of laps from two up, every bound and every mix of faults not excluded:

| Theorem | Statement | Besides `OneGuardPerReceiver`, `LimitsFit` |
|---|---|---|
| `Invariant`, `TypeCorrect` | `Spec => []IndInv`, `[]TypeOK` | |
| `ExclusiveSlots` | `Spec => []NoConcurrentAccess` | |
| `LapsToldApart` | `Spec => []FlagsTellLapsApart` | |
| `ShutdownBitStays` | `Spec => ShutdownBitIsFinal` | |
| `ItemsOnceInOrder` | `Spec => EachItemOnceInOrder` | |
| `DrainsFirst`, `EmptyIsEmpty` | `Spec => DrainedBeforeDisconnected`, `EmptyOnlyWhenEmpty` | |
| `FullIsFull` | `Spec => FullOnlyWhenFull` | `NumReceivers = 1` |
| `FittingLimits` | `WideSpec => Spec` | |
| `FillInvariant`, `GuardsShowClaims` | `Spec => []FillInv`, `[]GuardShowsItsClaims` | `NoSkippedSlot` |
| `ChannelImplementsLog` | `Spec => ImplementsLog` | `NoSkippedSlot` |
| `DrainInvariant`, `DrainedWhenDisconnected` | `Spec => []DrainInv`, `[]DisconnectedOnlyWhenDrained` | `NoLoss` |
| `DisconnectedStays` | `Spec => DisconnectedIsFinal` | `NoLoss` |
| `AsyncRefines` | `AsyncSpec => Spec` | (none of them) |
| `WakeInvariant`, `WakeupsNotLost` | `AsyncSpec => []WakeInv`, `[]NoLostWakeup` | |
| `Inductive`, `TypeCorrect` (`SlotFencesProofs`) | `Spec => []IndInv`, `[]TypeOK` of `SlotFences` | (both built in) |
| `WritesOrdered` | `KeptSpec => []WritesAreOrdered` of `SlotFences` | `ReadsEndWithGuard` (both others built in) |
| `ReadsOrdered` | `Spec => []ReadsAreOrdered` | (both built in) |
| `StateStoresOrdered` | `Spec => []StateStoresAreOrdered` | (both built in) |
| `DisconnectSound` | `Spec => []StaleDisconnect` | (both built in) |
| `FencesImplementLog` | `Spec => ImplementsLog` of `SlotFences` | (both built in) |
| `CursorReads`, `StateReads`, `WordTypes` (`RingBitsProofs`) | `Spec => []CursorWordReads`, `[]StateWordReads`, `[]TypeOK` of `RingBits` | (none of them) |

Assumptions: the named `ASSUME`s on the constants (capacity positive, not even a power of two; two
laps or more; `SHUTDOWN_OPEN` is not a seq) and the hypotheses in the table. `NoLoss` excludes panics
and lost claims: after either, a receiver told `Disconnected` at a hole or a mark need not have
everything that was claimed, and after a panic may later get more.

**Exclusion.** `NoConcurrentAccess` is not inductive: whether a claim is safe depends on what its sender read
earlier. `IndInv` adds:

* `AttemptSound`: the minimum a sender is computing is a lower bound of the cursors it has
  looked at and lies below every held seq. Cursors only grow, and new claims appear above
  `claimed`, so it stays one; at the compare-exchange, `claimed` has not moved, and the range fits.
* `HeldInWindow`, `HeldApart`: held seqs lie in every live receiver's window, and within a ring of each other.
  The latter is needed on its own because once every receiver is dropped no window is left.
* `FlagsSound`, `PublishedSound`: in a live window a matching flag means published and owned by nobody, and back.
  When a receiver advances, the slots that enter its window carry the flag of the previous lap
  (`PublishedSound` before the step), which differs from the new one (`NextLapDiffers`): this is the bounded-lag
  argument of `src/slot_states.rs:30-54`, and it needs two laps, not 2^31.
* `ReaderSound`: a guard starts at its receiver's cursor and the flags it accepted stay; a publish cannot
  hit them, as they are settled.
* `CloseSound`: `close` stores `-1` only when nothing was ever claimed and nobody else is left, so or-ing the
  bit into `INIT` (which yields `INIT` again) never reopens a channel.

`StepShapes` reduces the actions to the six that move a cursor, a flag or a claim; one lemma per conjunct does the rest.

**Contents and refinement.** `FillInv`: a claim is one run of seqs, filled from the bottom and published only when
full (`WriteOrder`), what is published stays in its slot while some live receiver has yet to read it
(`PublishedFilled`; `FilledStays` gets it from `HeldInWindow`), and a marked word or a scan that has met one is the end announced (`MarksSound`). A guard then shows exactly its claims, so that `Shown`
is the batch the log gave out, and every step maps to one of `FanoutLog` or a stutter: `CasClaim` to `Claim` (all
receivers, by `AttemptSound`), `PublishSlot` to `Publish`, a lost or panicked claim to `Lose`, `CloseMark` to `Announce`, `CloseStore` to
`Shutdown`, the last load of a scan to `Show` or `Miss`, guards to `Done` and `LetGo`, `DropReceiver` to `Leave`.

**Disconnection.** `DrainInv`: what was claimed is published or owned (`ClaimsKept`); only the last sender closes, and
then nobody claims, writes or clones (`ClosedByTheLast`); a scan has no verdict before its first load, and once told
`Disconnected` a receiver stands right before the mark, where every later scan begins (`VerdictSound`).

**Wake-ups.** Every step of `AsyncChannel` is a step of `EnsoChannel` or leaves it alone, so all of the above holds of it. `WakeInv` adds that from
its registration on a task is in its receiver's waker or has been woken, so a commit or close after the second look finds it; one before is
seen by the second look, or its sender still owes the wake-up (`OwesWake`).

**Stale loads.** `SlotFencesMemory` reduces each action to what it does to the memory (a load, an append by a store, an append by a
read-modify-write: `RelaxedLoad` to `ReadModifyWrite` as relations on the old and the new histories and views) and proves the types;
`SlotFencesSenders` and `SlotFencesProofs` show that each conjunct of `IndInv` survives each of these, the first those about claims, slots and
senders, the second those about receivers and the close. Along a seq's life:

* A sender at the gate acquires a message of every cursor. Each one's view covers what the
  receiver had published to it and all its reads up to that value (`CursorSound`), so after the last load the sender knows every read
  of the slots it may claim, and every write there (`AttemptSound`, `WriterSound`), whichever old value it read:
  this is `WritesAreOrdered`. A cursor below every held seq (`CursorKnown`) keeps this true of a stale minimum.
* It fills its slots, and the fence of `publish` puts the writes into `rel` before the first relaxed store of a state
  word (`WriterSound`), which therefore carries the write (`CarriesWrite` in `StateSound`).
* A scan meets those words with relaxed loads. What they carry goes to `acq`, and the fence after the scan, which is taken
  whenever anything was found, moves it to `cur` (`ReaderSound`). A stale flag is of an earlier lap, so a match is the newest
  publication of the slot within a window (`ScanWord`). This gives `ReadsAreOrdered`.
* The cursor's release store carries the reads of the guard (`ReadsSound`), and the ring closes.
* Every drop of a clone releases into the reference count and the last one acquires it, so the closer knows the newest claim and the
  newest word of every slot (`RefsSound`, `CloserSound`). Its scan is exact, and the mark lies right after the last claim
  (`CarriesShutdown`): a receiver that meets it at the head of its window has consumed everything (`StaleDisconnect`).

The refinement needs little more. `HoldsSound` and `WriterSound` make `Published` all that was claimed and nobody holds (`PublishedIs`),
and a guard's view is that of the seqs it covers (`CoveredIsNewest`), so `Exact` puts the mapping in terms of single locations and each
step moves one of them. `CasClaim` is `Claim`, since the minimum its sender met is at most every cursor
(`ClaimFacts`); `PublishSlot` is `Publish`, `FinishGuard` is `Done`, `DropReceiver` is `Leave`; the last load of a scan is `Show`, as
`Covers` of its holder's view implies publication, or `Miss`; `CloseStore` is `Shutdown`, except in a channel where nothing was
claimed, which it leaves as it is (the last conjunct of `ClaimsSound`). All other steps stutter.

One guard per receiver is built in here (a receiver is one thread, with one scan or guard at a time), and
`LimitsFit` is `CallsAssumption`. That reads end with their guard is part of `Spec`; only `WritesAreOrdered` says something of reads, and is
stated of `KeptSpec` under `ReadsEndWithGuard`. The proof uses each ordering of the hot path; the mutants of the runs leave some of them out
(the gate's acquire, both fences, the commit's release), and TLC then finds the race.

**Words.** `CursorWordMeans` and `StateWordMeans` say what the words are when they read as they should (`CursorWord`, `StateWord`), which makes the
invariant `Meaning` inductive. Two facts carry it: a wrap at the width of a word does not disturb the remainder the mask takes
(`WrapThenMask`, `FlagOfSeq`), and `claimed` stops below `VALUE_MASK`, so that or-ing the top bit into a seq never gives `INIT`.

Only model-checked: the liveness properties (fairness and `ENABLED` are out of the prover's reach); `FullOnlyWhenFull` has a
proof for one receiver only, where it is checked too (with several, a cursor read early may have moved by the time
the last is read, and `Full` is then an answer about the past). That real bit operations obey the two assumptions of `RingBits` is evaluated by TLC
at the widths of the run, as no prover here can use the recursive operators of `Bitwise`.

## Not modelled, and why

* Values, drop of values, and the recyclers' bodies: user data. A recycler fills its slot or panics.
* Panics and `terminate` under weak memory: `EnsoChannel` covers them with interleaved accesses.
* Error types and their texts, `Debug`, cache padding, builders that only pass arguments on; `validate` is
  `CapacityAssumption` (nothing needs the power of two except the bit operations of `RingBits`).
* `src/lib.rs` (documentation and re-exports), benchmarks, examples and tests: no logic of their own, but the source
  of several properties.

## Plan

Done: `RingMeta`, `EnsoChannel`, `FanoutLog`, `AsyncChannel`, `SlotFences`, `RingBits`, and the theorems above.

Left: panics in `SlotFences`, and a version of `FullOnlyWhenFull` that holds, and can be proved, for several receivers.
