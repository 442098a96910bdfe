------------------------------- MODULE Locks -------------------------------
(***************************************************************************)
(* Every lock of the program and every call that takes one.                *)
(*                                                                         *)
(* The engine has three RwLocks and the metrics tracker two.  A call is    *)
(* the sequence of the lock operations it performs, with the data left out *)
(* and every branch that changes the sequence a call of its own.  A thread *)
(* is what its call has still to do, and the guards it holds.              *)
(*                                                                         *)
(* parking_lot's RwLock lets a writer claim the lock while readers are in: *)
(* it then waits for them to leave, and new readers wait for the writer.   *)
(***************************************************************************)
EXTENDS Naturals, Sequences, SequencesExt

CONSTANTS
  Threads,    \* the threads that serve requests
  NoThread,   \* nobody
  MaxLevels   \* bound: the price levels one submission sweeps

ASSUME LocksAssumption ==
  /\ NoThread \notin Threads
  /\ MaxLevels \in Nat

LockNames ==
  {"order_books", "orders", "trade_count", "latency_histogram", "orders_processed"}

-----------------------------------------------------------------------------
(* The calls.                                                              *)
Operation == [op : {"read", "write", "unlock"}, lock : LockNames]
Do(op, l) == << [op |-> op, lock |-> l] >>

(* Mutant: a guard that outlives its call.                                 *)
ReadingForever(l, body) == Do("read", l) \o body

(* A guard that lives as long as body runs.                                *)
Reading(l, body) == Do("read", l) \o body \o Do("unlock", l)
Writing(l, body) == Do("write", l) \o body \o Do("unlock", l)
Read(l) == Reading(l, << >>)
Write(l) == Writing(l, << >>)
Repeat(n, body) == FlattenSeq([i \in 1 .. n |-> body])

(* record_latency.                                                         *)
RecordLatency == Writing("latency_histogram", Write("orders_processed"))

(* reset, which takes the two locks in the same order.                     *)
Reset == Writing("latency_histogram", Write("orders_processed"))

(* match_order over n price levels; the trades are counted; the order is   *)
(* stored; the handler records the latency.                                *)
Matching(n) ==
  Repeat(n, Write("orders")) \o (IF n = 0 THEN << >> ELSE Write("trade_count"))
SubmitOrder(n) ==
  Writing("order_books", Matching(n) \o Write("orders")) \o RecordLatency

(* A market order without liquidity, and the panics of the overflow checks *)
(* (an order that cannot be added has swept no level): unwinding drops the *)
(* guard, and the handler does not get to the metrics.                     *)
FailedOrder == Write("order_books")

(* Mutant: the guard of the check lives to the end of cancel_order.        *)
CancelUnderCheck ==
  {Read("orders"), Reading("orders", Write("order_books") \o Write("orders"))}

(* The check may refuse; otherwise the removal and the mark follow.        *)
CancelOrder ==
  {Read("orders"), Read("orders") \o Write("order_books") \o Write("orders")}

GetOrder == Read("orders")          \* and health_check
GetOrderBook == Read("order_books")

(* Mutant: one guard of orders for all that is counted in it, and          *)
(* orders_received() called again under it.                                *)
GetMetricsNested == Reading("orders", Read("orders"))

(* Five readings of the engine, four of the tracker.                       *)
GetMetrics ==
  Repeat(3, Read("orders")) \o Read("order_books") \o Read("trade_count")
    \o Repeat(3, Read("latency_histogram")) \o Read("orders_processed")

Calls ==
  {SubmitOrder(n) : n \in 0 .. MaxLevels} \cup CancelOrder
    \cup {FailedOrder, GetOrder, GetOrderBook, GetMetrics, Reset}

-----------------------------------------------------------------------------
VARIABLES
  rest,     \* what the call of each thread has still to do
  readers,  \* who holds each lock for reading
  writer,   \* who holds each lock for writing, or has claimed it
  entered   \* whether that writer is in

vars == <<rest, readers, writer, entered>>

Init ==
  /\ rest = [t \in Threads |-> << >>]
  /\ readers = [l \in LockNames |-> {}]
  /\ writer = [l \in LockNames |-> NoThread]
  /\ entered = [l \in LockNames |-> FALSE]

(* What thread t does next, to which lock; and that it has done it.        *)
Due(t, op) == rest[t] # << >> /\ Head(rest[t]).op = op
Lock(t) == Head(rest[t]).lock
Advance(t) == rest' = [rest EXCEPT ![t] = Tail(@)]

(* A request arrives at an idle thread.                                    *)
Call(t) ==
  /\ rest[t] = << >>
  /\ \E c \in Calls : rest' = [rest EXCEPT ![t] = c]
  /\ UNCHANGED <<readers, writer, entered>>

LockShared(t) ==
  /\ Due(t, "read") /\ writer[Lock(t)] = NoThread
  /\ readers' = [readers EXCEPT ![Lock(t)] = @ \cup {t}]
  /\ Advance(t)
  /\ UNCHANGED <<writer, entered>>

LockExclusive(t) ==
  /\ Due(t, "write") /\ writer[Lock(t)] = NoThread /\ readers[Lock(t)] = {}
  /\ writer' = [writer EXCEPT ![Lock(t)] = t]
  /\ entered' = [entered EXCEPT ![Lock(t)] = TRUE]
  /\ Advance(t)
  /\ UNCHANGED readers

Claim(t) ==
  /\ Due(t, "write") /\ writer[Lock(t)] = NoThread /\ readers[Lock(t)] # {}
  /\ writer' = [writer EXCEPT ![Lock(t)] = t]
  /\ UNCHANGED <<rest, readers, entered>>

Enter(t) ==
  /\ Due(t, "write") /\ writer[Lock(t)] = t /\ ~ entered[Lock(t)]
  /\ readers[Lock(t)] = {}
  /\ entered' = [entered EXCEPT ![Lock(t)] = TRUE]
  /\ Advance(t)
  /\ UNCHANGED <<readers, writer>>

UnlockShared(t) ==
  /\ Due(t, "unlock") /\ t \in readers[Lock(t)]
  /\ readers' = [readers EXCEPT ![Lock(t)] = @ \ {t}]
  /\ Advance(t)
  /\ UNCHANGED <<writer, entered>>

UnlockExclusive(t) ==
  /\ Due(t, "unlock") /\ writer[Lock(t)] = t /\ entered[Lock(t)]
  /\ writer' = [writer EXCEPT ![Lock(t)] = NoThread]
  /\ entered' = [entered EXCEPT ![Lock(t)] = FALSE]
  /\ Advance(t)
  /\ UNCHANGED readers

Step(t) ==
  \/ LockShared(t) \/ LockExclusive(t) \/ Claim(t) \/ Enter(t)
  \/ UnlockShared(t) \/ UnlockExclusive(t)

Next == \E t \in Threads : Call(t) \/ Step(t)

(* parking_lot's eventual fairness passes over no waiting thread for ever; *)
(* and a thread that is past its locks goes on, for nothing disables an    *)
(* unlock, nor the entry of a writer once the readers have left.           *)
Spec == Init /\ [][Next]_vars /\ \A t \in Threads : SF_vars(Step(t))

-----------------------------------------------------------------------------
(* The types; a lock has one writer or readers; no guard outlives its call.*)
TypeOK ==
  /\ rest \in [Threads -> Seq(Operation)]
  /\ readers \in [LockNames -> SUBSET Threads]
  /\ writer \in [LockNames -> Threads \cup {NoThread}]
  /\ entered \in [LockNames -> BOOLEAN]
  /\ \A l \in LockNames : entered[l] => writer[l] # NoThread /\ readers[l] = {}
  /\ \A l \in LockNames, t \in Threads : rest[t] = << >> => t # writer[l] /\ t \notin readers[l]

(* Thread t cannot go on before thread u does something.                   *)
WaitsFor(t, u) ==
  \/ Due(t, "read")  /\ writer[Lock(t)] = u
  \/ Due(t, "write") /\ writer[Lock(t)] = u /\ (u # t \/ entered[Lock(t)])
  \/ Due(t, "write") /\ writer[Lock(t)] = t /\ u \in readers[Lock(t)]

(* No threads wait for each other in a circle: a thread takes order_books  *)
(* before orders and trade_count, the histogram before the counter, and no *)
(* lock twice (engine.rs:105, 159, 355, 383, 400; tracker.rs:40).          *)
NoCircularWait ==
  \A S \in (SUBSET Threads) \ {{}} : \E t \in S : \A u \in S : ~ WaitsFor(t, u)

(* Every call of the API comes to an end, whatever the others call: no     *)
(* reader starves a writer, and no writer a reader.                        *)
EveryCallEnds == \A t \in Threads : rest[t] # << >> ~> rest[t] = << >>
=============================================================================
