------------------------------- MODULE FanoutLog -------------------------------
(***************************************************************************)
(* What a channel promises, without ring, flags, cursors to compare or     *)
(* scans: a log of items.  Senders are given the next sequences of the log *)
(* as long as no live receiver is more than Capacity behind, and publish   *)
(* them in any order; each receiver reads the log in sequence, a batch at  *)
(* a time, and sees in a batch exactly the items published under those     *)
(* sequences for as long as it holds it.                                   *)
(***************************************************************************)
EXTENDS Integers

CONSTANTS
  Capacity,   \* how far senders may run ahead of a receiver
  Receivers,
  Readers,    \* the batches held at the same time
  rxOf,       \* the receiver a reader reads for
  Gone,       \* the cursor of a receiver that was dropped
  Prompt      \* whether Empty may not be told of an item already published

VARIABLES
  tail,     \* the last sequence given to a sender, -1 before and after
  over,     \* the end was announced
  down,     \* no sequence is given out any more
  owned,    \* sequences being written
  log,      \* published sequences
  cursor,   \* the last sequence each receiver is done with
  view,     \* the batch of each reader: the item it sees at each sequence
  told      \* the last answer each reader got

logVars == <<tail, over, down, owned, log, cursor, view, told>>

Live(r) == cursor[r] # Gone

\* A reader that holds no batch.
NoBatch == [y \in {} |-> y]

Init ==
  /\ tail = -1 /\ over = FALSE /\ down = FALSE
  /\ owned = {} /\ log = {}
  /\ cursor = [r \in Receivers |-> -1]
  /\ view = [g \in Readers |-> NoBatch]
  /\ told = [g \in Readers |-> "none"]

\* A sender gets the next n sequences, all within reach of every receiver.
Claim(n) ==
  /\ ~down
  /\ \A r \in Receivers : Live(r) => tail + n <= cursor[r] + Capacity
  /\ tail' = tail + n
  /\ owned' = owned \cup ((tail + 1) .. (tail + n))
  /\ UNCHANGED <<over, down, log, cursor, view, told>>

Publish(x) ==
  /\ x \in owned
  /\ owned' = owned \ {x}
  /\ log' = log \cup {x}
  /\ UNCHANGED <<tail, over, down, cursor, view, told>>

\* Sequences given up for good: nobody will publish them.
Lose(X) ==
  /\ X \subseteq owned
  /\ owned' = owned \ X
  /\ UNCHANGED <<tail, over, down, log, cursor, view, told>>

\* Receivers may be told of the end before the senders are.
Announce ==
  /\ over' = TRUE
  /\ UNCHANGED <<tail, down, owned, log, cursor, view, told>>

Shutdown ==
  /\ over
  /\ down' = TRUE /\ tail' = -1
  /\ UNCHANGED <<over, owned, log, cursor, view, told>>

\* The n sequences that come next for a reader.
NextBatch(g, n) == (cursor[rxOf[g]] + 1) .. (cursor[rxOf[g]] + n)

\* A batch of the next items, all of them published.
Show(g, n) ==
  /\ view[g] = NoBatch /\ Live(rxOf[g])
  /\ NextBatch(g, n) \subseteq log
  /\ view' = [view EXCEPT ![g] = [y \in NextBatch(g, n) |-> y]]
  /\ told' = [told EXCEPT ![g] = "Ok"]
  /\ UNCHANGED <<tail, over, down, owned, log, cursor>>

\* Empty or Disconnected, and only when the next item is not there; where news
\* takes time, Empty alone may be late.  Disconnected is said at the end.
Miss(g, answer) ==
  /\ view[g] = NoBatch /\ Live(rxOf[g])
  /\ (Prompt \/ answer = "Disconnected") => cursor[rxOf[g]] + 1 \notin log
  /\ answer = "Empty" \/ (answer = "Disconnected" /\ over)
  /\ told' = [told EXCEPT ![g] = answer]
  /\ UNCHANGED <<tail, over, down, owned, log, cursor, view>>

\* The batch is consumed.
Done(g, n) ==
  /\ Live(rxOf[g])
  /\ view[g] = [y \in NextBatch(g, n) |-> y]
  /\ cursor' = [cursor EXCEPT ![rxOf[g]] = @ + n]
  /\ view' = [view EXCEPT ![g] = NoBatch]
  /\ UNCHANGED <<tail, over, down, owned, log, told>>

\* The batch is let go without being consumed.
LetGo(g) ==
  /\ view' = [view EXCEPT ![g] = NoBatch]
  /\ UNCHANGED <<tail, over, down, owned, log, cursor, told>>

Leave(r) ==
  /\ \A g \in Readers : rxOf[g] = r => view[g] = NoBatch
  /\ cursor' = [cursor EXCEPT ![r] = Gone]
  /\ UNCHANGED <<tail, over, down, owned, log, view, told>>

Next ==
  \/ \E n \in 1 .. Capacity : Claim(n)
  \/ \E x \in owned : Publish(x)
  \/ \E X \in SUBSET owned : Lose(X)
  \/ Announce
  \/ Shutdown
  \/ \E g \in Readers, n \in 1 .. Capacity : Show(g, n) \/ Done(g, n)
  \/ \E g \in Readers, answer \in {"Empty", "Disconnected"} : Miss(g, answer)
  \/ \E g \in Readers : LetGo(g)
  \/ \E r \in Receivers : Leave(r)

Spec == Init /\ [][Next]_logVars
===============================================================================
