----------------------------- MODULE AsyncChannel -----------------------------
(***************************************************************************)
(* The channel with the feature `async-receiver`: every commit and every   *)
(* shutdown wakes the receivers' tasks one after the other, and a task     *)
(* that finds nothing registers its waker, looks again, and only then goes *)
(* to sleep.  Each receiver has one AtomicWaker, which holds one task.     *)
(*                                                                         *)
(* A reader is a task that uses its receiver through recv_async or         *)
(* recv_at_most_async only, with limits that fit i64.  AtomicWaker and the *)
(* executor are external: register and wake are atomic, and a woken task   *)
(* is polled in the end.  Every step is a step of EnsoChannel or leaves    *)
(* its variables alone.                                                    *)
(***************************************************************************)
EXTENDS EnsoChannel

CONSTANT NoTask   \* the content of an AtomicWaker nobody is registered in

ASSUME NoTaskAssumption == NoTask \notin Readers

VARIABLES
  wk,     \* the next receiver a sender still has to wake, NumReceivers for none
  cell,   \* the task registered in the waker of each receiver
  task,   \* where each task is in its call
  ask,    \* the limit of that call
  woken   \* the executor was told to poll the task

wakeVars  == <<wk, cell, task, ask, woken>>
asyncVars == <<vars, wakeVars>>

AsyncInit ==
  /\ Init
  /\ wk = [s \in Senders |-> NumReceivers]
  /\ cell = [r \in Receivers |-> NoTask]
  /\ task = [g \in Readers |-> "rest"]
  /\ ask = [g \in Readers |-> 0]
  /\ woken = [g \in Readers |-> FALSE]

-------------------------------------------------------------------------------
(* Senders: commit, close and notify. *)

\* A sender is inside notify until it has gone through all receivers.
Notified(s) == wk[s] = NumReceivers

\* The commit, or close(), forgets to notify.
NotifyNobody == NumReceivers

\* The commit wakes from the first receiver on ...
CommitNotifies == 0

\* ... and so does close().
CloseNotifies == 0

\* The stores come first; the last of them is followed by notify.
Commit(s, x) ==
  /\ Notified(s) /\ PublishSlot(s, x)
  /\ wk' = [wk EXCEPT ![s] = IF held[s] = {x} THEN CommitNotifies ELSE @]
  /\ UNCHANGED <<cell, task, ask, woken>>

CloseAndNotify(s) ==
  /\ Notified(s) /\ CloseStore(s)
  /\ wk' = [wk EXCEPT ![s] = CloseNotifies]
  /\ UNCHANGED <<cell, task, ask, woken>>

\* notify stops after the first receiver.
OnlyFirstWaker(r) == NumReceivers

NextWaker(r) == r + 1

\* AtomicWaker::wake: whoever is registered is taken out and scheduled.
Notify(s) ==
  LET r == wk[s]
  IN /\ ~Notified(s)
     /\ wk' = [wk EXCEPT ![s] = NextWaker(r)]
     /\ cell' = [cell EXCEPT ![r] = NoTask]
     /\ woken' = [g \in Readers |-> woken[g] \/ cell[r] = g]
     /\ UNCHANGED <<vars, task, ask>>

\* What a sender does on its own once its call has begun.
AsyncSenderStep(s) ==
  \/ /\ Notified(s)
     /\ \/ LoadConsumed(s) \/ CasClaim(s) \/ CasRetry(s) \/ FillSlot(s)
        \/ CloseLoad(s) \/ CloseScan(s) \/ CloseMark(s)
     /\ UNCHANGED wakeVars
  \/ \E x \in held[s] : Commit(s, x)
  \/ CloseAndNotify(s)
  \/ Notify(s)

AsyncSenderCall(s) ==
  /\ Notified(s)
  /\ \/ \E o \in Ops, k \in Limits : StartClaim(s, o, k)
     \/ CommitPanic(s) \/ SlotPermitPanic(s) \/ ForgetSlotPermit(s) \/ Abandon(s)
     \/ DropSender(s)
     \/ \E t \in Senders : CloneSender(s, t)
  /\ UNCHANGED wakeVars

-------------------------------------------------------------------------------
(* Tasks: recv_async, recv_at_most_async and claim_at_most_async. *)

\* The call makes its first attempt in its first poll.
BeginRecv(g, k) ==
  /\ task[g] = "rest" /\ StartRecv(g, k)
  /\ task' = [task EXCEPT ![g] = "first"]
  /\ ask' = [ask EXCEPT ![g] = k]
  /\ UNCHANGED <<wk, cell, woken>>

\* Where an attempt leads: Ready on a claim or a shutdown, otherwise on to the
\* registration after the first, Pending after the second.
AfterAttempt(at, outcome) ==
  CASE outcome # "Empty" -> "rest"
    [] outcome = "Empty" /\ at = "first" -> "register"
    [] outcome = "Empty" /\ at # "first" -> "parked"

\* One slot of the scan of an attempt.
AttemptScan(g) ==
  /\ task[g] \in {"first", "second"} /\ ScanSlot(g)
  /\ \/ /\ rpc'[g] = "scan"
        /\ UNCHANGED task
     \/ /\ rpc'[g] # "scan"
        /\ task' = [task EXCEPT ![g] = AfterAttempt(task[g], rres'[g])]
  /\ UNCHANGED <<wk, cell, ask, woken>>

\* The task goes to sleep without another look.
NoSecondLook == "parked"

AfterRegister == "recheck"

\* AtomicWaker::register: the task replaces whoever was registered.
Register(g) ==
  /\ task[g] = "register"
  /\ cell' = [cell EXCEPT ![rxOf[g]] = g]
  /\ task' = [task EXCEPT ![g] = AfterRegister]
  /\ UNCHANGED <<vars, wk, ask, woken>>

Recheck(g) ==
  /\ task[g] = "recheck" /\ StartRecv(g, ask[g])
  /\ task' = [task EXCEPT ![g] = "second"]
  /\ UNCHANGED <<wk, cell, ask, woken>>

\* The executor polls a sleeping task: because it was woken, or for no reason.
Repoll(g) ==
  /\ task[g] = "parked" /\ StartRecv(g, ask[g])
  /\ task' = [task EXCEPT ![g] = "first"]
  /\ woken' = [woken EXCEPT ![g] = FALSE]
  /\ UNCHANGED <<wk, cell, ask>>

\* The future is dropped (a timeout, a select): its registration stays behind.
DropFuture(g) ==
  /\ task[g] = "parked"
  /\ task' = [task EXCEPT ![g] = "rest"]
  /\ UNCHANGED <<vars, wk, cell, ask, woken>>

\* The guard is dropped or forgotten by the task that got it.
EndGuard(g) ==
  /\ FinishGuard(g) \/ ForgetGuard(g)
  /\ UNCHANGED wakeVars

\* No future borrows a receiver that is dropped.
AsyncDropReceiver(r) ==
  /\ DropReceiver(r)
  /\ \A g \in Readers : rxOf[g] = r => task[g] = "rest"
  /\ UNCHANGED wakeVars

\* What a task does on its own: it receives for ever, and sleeps until woken.
TaskStep(g) ==
  \/ \E k \in Limits : BeginRecv(g, k)
  \/ AttemptScan(g) \/ Register(g) \/ Recheck(g)
  \/ woken[g] /\ Repoll(g)
  \/ FinishGuard(g) /\ UNCHANGED wakeVars

AsyncNext ==
  \/ \E s \in Senders : AsyncSenderStep(s) \/ AsyncSenderCall(s)
  \/ \E g \in Readers : TaskStep(g) \/ Repoll(g) \/ DropFuture(g) \/ EndGuard(g)
  \/ \E r \in Receivers : AsyncDropReceiver(r)
  \/ Terminated /\ UNCHANGED wakeVars

AsyncSpec == AsyncInit /\ [][AsyncNext]_asyncVars

\* Threads inside a call run on, and the executor polls the tasks that were
\* woken.  Nobody polls a sleeping task.
AsyncFairness ==
  /\ \A s \in Senders : WF_asyncVars(AsyncSenderStep(s))
  /\ \A g \in Readers : WF_asyncVars(TaskStep(g))

AsyncFairSpec == AsyncSpec /\ AsyncFairness

-------------------------------------------------------------------------------
(* Properties. *)

TaskPlaces == {"rest", "first", "register", "recheck", "second", "parked"}

\* The type of the variables this module adds.
AsyncTypeOK ==
  /\ wk \in [Senders -> 0 .. NumReceivers]
  /\ cell \in [Receivers -> Readers \cup {NoTask}]
  /\ task \in [Readers -> TaskPlaces]
  /\ ask \in [Readers -> Limits \cup {0}]
  /\ woken \in [Readers -> BOOLEAN]

\* The receiver's next attempt would not be Empty.
SomethingToSee(r) ==
  \/ SlotReady(consumed[r] + 1)
  \/ shut[IndexOf(consumed[r] + 1)]

\* The sender has changed a state word, or may have, and has yet to wake r.
OwesWake(s, r) == wk[s] <= r \/ pc[s] \in {"publish", "cstore"}

\* consumer.rs:97-113: a task sleeps unwoken on a receiver with something to
\* see only while some sender is on its way to wake it, and the receiver's
\* waker still holds that task.  Neither a commit nor a shutdown that falls
\* between the first attempt, the registration and the second is missed.
NoLostWakeup ==
  \A g \in Readers : task[g] = "parked" /\ ~woken[g] =>
    /\ cell[rxOf[g]] = g
    /\ SomethingToSee(rxOf[g]) => \E s \in Senders : OwesWake(s, rxOf[g])

-------------------------------------------------------------------------------
(* The inductive invariant behind NoLostWakeup, on top of IndInv. *)

\* A call in progress remembers its limit.
CallsHaveLimits == \A g \in Readers : task[g] # "rest" => ask[g] \in Limits

\* A task is in a scan exactly during its attempts, holds a guard only between
\* calls, and its receiver is not dropped under it.
TasksInPlace ==
  \A g \in Readers :
    /\ rpc[g] = "scan" <=> task[g] \in {"first", "second"}
    /\ rpc[g] = "guard" => task[g] = "rest"
    /\ task[g] # "rest" => Open(rxOf[g])

\* From the registration on, the task is registered or has been woken.
Registered ==
  \A g \in Readers : task[g] \in {"recheck", "second", "parked"} =>
    woken[g] \/ cell[rxOf[g]] = g

WakeInv == AsyncTypeOK /\ CallsHaveLimits /\ TasksInPlace /\ Registered /\ NoLostWakeup
===============================================================================
