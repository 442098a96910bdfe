--------------------------- MODULE MatchingEngine ---------------------------
(***************************************************************************)
(* The matching engine (src/src/matching/engine.rs) and the threads that   *)
(* call it.                                                                *)
(*                                                                         *)
(* The engine keeps three RwLocks.  order_books is held across a whole     *)
(* submission, so it is explicit: `writer` is its write holder, and the    *)
(* local variables of the submission that holds it (`incoming`, `prices`,  *)
(* ...) are global variables, since at most one submission has any.  The   *)
(* critical sections of `orders` and `trade_count` take no other lock      *)
(* while they run, so each of them is one atomic step.                     *)
(*                                                                         *)
(* Order ids are Uuids drawn by Order::new; here they are the numbers      *)
(* 1, 2, ... in the order of the Order::new calls, so o < q says that o    *)
(* was created (created_at) before q.  A symbol without an OrderBook in    *)
(* the map is a symbol whose book is empty: no operation tells them apart. *)
(***************************************************************************)
EXTENDS OrderBook

CONSTANTS
  Tasks,          \* the threads that serve requests
  NoTask,         \* the value of `writer` when nobody holds the lock
  MaxOrders,      \* bound: valid submissions of a behaviour
  OverflowChecks  \* TRUE: the debug build (+ panics), FALSE: release (wraps)

ASSUME EngineAssumption ==
  /\ NoTask \notin Tasks
  /\ MaxOrders \in Nat \ {0}
  /\ OverflowChecks \in BOOLEAN

Ids == 1 .. MaxOrders
NoOrder == 0

VARIABLES
  request,             \* the requests orders were created from, by id
  orders,              \* the engine's map of orders, for status queries
  trade_count,         \* the engine's trade counter
  levels,              \* order_books: price levels by symbol and side
  resting,             \* order_books: the clones queued in the levels
  order_locations,     \* order_books: keys of order_locations, by symbol
  writer,              \* who holds order_books for writing
  pc,                  \* where each task is
  work,                \* the order each task submits or cancels
  incoming,            \* submission: its own order
  prices,              \* submission: crossing prices not yet processed
  filled_qty,          \* match_at_price_level: filled_order_ids_and_qty
  orders_to_remove,    \* match_at_price_level: orders_to_remove
  quantity_to_reduce,  \* match_at_price_level: total_quantity_to_reduce
  trades               \* submission: result.trades.len()

books == <<levels, resting, order_locations>>
locals == <<incoming, prices, filled_qty, orders_to_remove, quantity_to_reduce, trades>>
vars == <<request, orders, trade_count, books, writer, pc, work, locals>>

-----------------------------------------------------------------------------
Places == {"idle", "submit", "match", "store", "remove", "mark"}

NoFills == [o \in Ids |-> 0]

Init ==
  /\ request = << >>
  /\ orders = [o \in Ids |-> Absent]
  /\ trade_count = 0
  /\ levels = [s \in Symbols |-> [d \in Sides |-> NoLevels]]
  /\ resting = [o \in Ids |-> Absent]
  /\ order_locations = [s \in Symbols |-> {}]
  /\ writer = NoTask
  /\ pc = [t \in Tasks |-> "idle"]
  /\ work = [t \in Tasks |-> NoOrder]
  /\ incoming = Absent
  /\ prices = {}
  /\ filled_qty = NoFills
  /\ orders_to_remove = {}
  /\ quantity_to_reduce = 0
  /\ trades = 0

Goto(t, place) == pc' = [pc EXCEPT ![t] = place]

(* Mutant: a finished call stays bound to its order.                       *)
ReturnWithOrder(t) == Goto(t, "idle") /\ UNCHANGED work

(* A call returns, whatever its result.                                    *)
Return(t) == Goto(t, "idle") /\ work' = [work EXCEPT ![t] = NoOrder]

(* The order task t works for, and the levels it matches against.          *)
Own(t) == request[work[t]]
Against(r) == levels[r.symbol][Opposite(r.side)]

-----------------------------------------------------------------------------
(* Calls that change nothing: a request that validation refuses, and the   *)
(* cancellation of an order that is unknown, filled or cancelled.          *)
Refuse(t) ==
  /\ pc[t] = "idle"
  /\ \/ CreateOrderRequest \ Request # {}
     \/ {o \in Ids : orders[o].status \notin Active} # {}
  /\ UNCHANGED vars

(* submit_order up to the lock: the order, its id and its timestamp are    *)
(* made before the lock is taken.                                          *)
SubmitOrder(t) ==
  /\ pc[t] = "idle"
  /\ Len(request) < MaxOrders
  /\ \E r \in Request : request' = Append(request, r)
  /\ work' = [work EXCEPT ![t] = Len(request) + 1]
  /\ Goto(t, "submit")
  /\ UNCHANGED <<orders, trade_count, books, writer, locals>>

(***************************************************************************)
(* The liquidity of the other side.  The debug build panics when the sum   *)
(* leaves u64, the release build wraps it.                                 *)
(***************************************************************************)
SumPanics(r) ==
  r.order_type = "Market" /\ OverflowChecks /\ SideQuantity(Against(r)) > U64Max

(* Mutant: the liquidity of the order's own side.                          *)
AvailableOnOwnSide(r) == Wrap(SideQuantity(levels[r.symbol][r.side]))

Available(r) == Wrap(SideQuantity(Against(r)))
Enough(r) == r.order_type = "Market" => Available(r) >= r.quantity

(* Mutants: an order does not meet its own price; the comparison of the    *)
(* buyers is copied to the sellers.                                        *)
CrossesStrictly(r, p) ==
  r.order_type = "Market" \/ IF r.side = "Buy" THEN p < r.price ELSE p > r.price
CrossesAsBuyer(r, p) == r.order_type = "Market" \/ p <= r.price

(* The prices of match_buy_order and match_sell_order.  take_while over    *)
(* sorted keys keeps exactly the keys that satisfy its condition.          *)
Crosses(r, p) ==
  \/ r.order_type = "Market"
  \/ IF r.side = "Buy" THEN p <= r.price ELSE p >= r.price
CrossingPrices(r) == {p \in DOMAIN Against(r) : Crosses(r, p)}

(* The lock is taken and matching begins.                                  *)
StartMatching(t) ==
  /\ pc[t] = "submit" /\ writer = NoTask
  /\ ~ SumPanics(Own(t)) /\ Enough(Own(t))
  /\ writer' = t
  /\ incoming' = NewOrder
  /\ prices' = CrossingPrices(Own(t))
  /\ Goto(t, "match")
  /\ UNCHANGED <<request, orders, trade_count, books, work, filled_qty,
                 orders_to_remove, quantity_to_reduce, trades>>

(* InsufficientLiquidity: the early return drops the lock and the order.   *)
RejectMarket(t) ==
  /\ pc[t] = "submit" /\ writer = NoTask
  /\ ~ SumPanics(Own(t)) /\ ~ Enough(Own(t))
  /\ Return(t)
  /\ UNCHANGED <<request, orders, trade_count, books, writer, locals>>

(* total_bid_quantity or total_ask_quantity panics; unwinding drops the    *)
(* lock, and a parking_lot lock is not poisoned.                           *)
PanicInSum(t) ==
  /\ pc[t] = "submit" /\ writer = NoTask
  /\ SumPanics(Own(t))
  /\ Return(t)
  /\ UNCHANGED <<request, orders, trade_count, books, writer, locals>>

-----------------------------------------------------------------------------
(* match_at_price_level, at the best of the remaining prices.              *)
BestPrice(r) ==
  CHOOSE p \in prices : \A q \in prices \ {p} : Better(Opposite(r.side), p, q)

Smaller(a, b) == IF a < b THEN a ELSE b

(* Mutants: what the incoming order lacks; one unit at a time.             *)
FillQuantityOfIncoming(r, o) == RemainingQuantity(r, incoming)
FillQuantityOfOne(r, o) == 1

FillQuantity(r, o) ==
  Smaller(RemainingQuantity(r, incoming), RemainingQuantity(request[o], resting[o]))

(* One turn of the loop: a trade with the order at the front.              *)
Trade(t) ==
  /\ pc[t] = "match" /\ prices # {}
  /\ ~ IsFilled(Own(t), incoming)
  /\ LET r == Own(t)
         p == BestPrice(r)
         queue == QueueAt(Against(r), p)
         o == Head(queue)
         n == FillQuantity(r, o)
         maker == Fill(request[o], resting[o], n)
         popped == IsFilled(request[o], maker)
     IN  /\ queue # << >>
         /\ incoming' = Fill(r, incoming, n)
         /\ resting' = [resting EXCEPT ![o] = IF popped THEN Absent ELSE maker]
         /\ filled_qty' = [filled_qty EXCEPT ![o] = @ + n]
         /\ quantity_to_reduce' = quantity_to_reduce + n
         /\ trades' = trades + 1
         /\ orders_to_remove' = IF popped THEN orders_to_remove \cup {o} ELSE orders_to_remove
         /\ levels' = IF popped
                      THEN [levels EXCEPT ![r.symbol][Opposite(r.side)] = PopFront(@, p)]
                      ELSE levels
  /\ UNCHANGED <<request, orders, trade_count, order_locations, writer, pc, work, prices>>

(* Mutant: an empty level does not end the loop.                           *)
LevelDoneWhenFilled(r) == IsFilled(r, incoming) /\ quantity_to_reduce > 0

(* The loop over a level ends when the order is filled or the level empty; *)
(* the loop over the prices enters no level once the order is filled.      *)
LevelDone(r) ==
  IF IsFilled(r, incoming) THEN quantity_to_reduce > 0
  ELSE QueueAt(Against(r), BestPrice(r)) = << >>

(* Mutants: only the orders that leave the level are updated; none is.     *)
StoreFillsOfRemoved ==
  [o \in Ids |-> IF o \in orders_to_remove
                 THEN Fill(request[o], orders[o], filled_qty[o]) ELSE orders[o]]
StoreNoFills == orders

(* The fills of the level reach the engine's map of orders.                *)
StoreFills ==
  [o \in Ids |-> IF filled_qty[o] > 0 /\ orders[o] # Absent
                 THEN Fill(request[o], orders[o], filled_qty[o])
                 ELSE orders[o]]

(* Mutant: filled orders stay in order_locations.                          *)
KeepLocations(s) == order_locations

RemoveLocations(s) == [order_locations EXCEPT ![s] = @ \ orders_to_remove]

(* What match_at_price_level does after its loop.                          *)
FinishLevel(t) ==
  /\ pc[t] = "match" /\ prices # {}
  /\ LevelDone(Own(t))
  /\ LET r == Own(t)
         p == BestPrice(r)
     IN  /\ levels' = [levels EXCEPT ![r.symbol][Opposite(r.side)] =
                         DropIfEmpty(ReduceTotalQuantity(@, p, quantity_to_reduce), p)]
         /\ order_locations' = RemoveLocations(r.symbol)
         /\ prices' = prices \ {p}
  /\ orders' = StoreFills
  /\ filled_qty' = NoFills
  /\ orders_to_remove' = {}
  /\ quantity_to_reduce' = 0
  /\ UNCHANGED <<request, trade_count, resting, writer, pc, work, incoming, trades>>

MatchingDone(r) == quantity_to_reduce = 0 /\ (prices = {} \/ IsFilled(r, incoming))

(* match_order has returned: a market order is asserted to be filled, and  *)
(* the trades are counted.                                                 *)
CountTrades(t) ==
  /\ pc[t] = "match"
  /\ MatchingDone(Own(t))
  /\ Own(t).order_type = "Market" => IsFilled(Own(t), incoming)
  /\ trade_count' = trade_count + trades
  /\ trades' = 0
  /\ prices' = {}
  /\ Goto(t, "store")
  /\ UNCHANGED <<request, orders, books, writer, work, incoming, filled_qty,
                 orders_to_remove, quantity_to_reduce>>

-----------------------------------------------------------------------------
(* Mutant: a guard that is never dropped.                                  *)
ReleaseNothing(t) == UNCHANGED writer /\ incoming' = Absent /\ Return(t)

(* The submission returns: the guard of order_books is dropped.            *)
Release(t) ==
  /\ writer' = NoTask
  /\ incoming' = Absent
  /\ Return(t)

StoreOrder(t) == orders' = [orders EXCEPT ![work[t]] = incoming]

(* A filled order is only stored.                                          *)
StoreFilled(t) ==
  /\ pc[t] = "store"
  /\ IsFilled(Own(t), incoming)
  /\ StoreOrder(t)
  /\ Release(t)
  /\ UNCHANGED <<request, trade_count, books, prices, filled_qty, orders_to_remove,
                 quantity_to_reduce, trades>>

AddPanics(r) ==
  /\ OverflowChecks
  /\ AddOverflows(levels[r.symbol][r.side], r.price, RemainingQuantity(r, incoming))

(* What is left of a limit order is added to the book, and it is stored.   *)
StoreResting(t) ==
  /\ pc[t] = "store"
  /\ ~ IsFilled(Own(t), incoming)
  /\ ~ AddPanics(Own(t))
  /\ LET r == Own(t)
     IN  /\ levels' = [levels EXCEPT ![r.symbol][r.side] =
                         AddOrder(@, r.price, work[t], RemainingQuantity(r, incoming))]
         /\ order_locations' = [order_locations EXCEPT ![r.symbol] = @ \cup {work[t]}]
  /\ resting' = [resting EXCEPT ![work[t]] = incoming]
  /\ StoreOrder(t)
  /\ Release(t)
  /\ UNCHANGED <<request, trade_count, prices, filled_qty, orders_to_remove,
                 quantity_to_reduce, trades>>

(* Mutant: the guard survives the panic of its thread.                     *)
PanicKeepsLock(t) ==
  /\ pc[t] = "store"
  /\ ~ IsFilled(Own(t), incoming)
  /\ AddPanics(Own(t))
  /\ order_locations' = [order_locations EXCEPT ![Own(t).symbol] = @ \cup {work[t]}]
  /\ incoming' = Absent
  /\ Return(t)
  /\ UNCHANGED <<request, orders, trade_count, levels, resting, writer, prices, filled_qty,
                 orders_to_remove, quantity_to_reduce, trades>>

(* PriceLevel::add_order panics after add_order recorded the location.     *)
PanicInAdd(t) ==
  /\ pc[t] = "store"
  /\ ~ IsFilled(Own(t), incoming)
  /\ AddPanics(Own(t))
  /\ order_locations' = [order_locations EXCEPT ![Own(t).symbol] = @ \cup {work[t]}]
  /\ Release(t)
  /\ UNCHANGED <<request, orders, trade_count, levels, resting, prices, filled_qty,
                 orders_to_remove, quantity_to_reduce, trades>>

-----------------------------------------------------------------------------
(* cancel_order is three critical sections: the check reads orders, the    *)
(* removal writes order_books, the mark writes orders and checks nothing.  *)
CancelCheck(t) ==
  /\ pc[t] = "idle"
  /\ \E o \in Ids : /\ orders[o].status \in Active
                    /\ work' = [work EXCEPT ![t] = o]
  /\ Goto(t, "remove")
  /\ UNCHANGED <<request, orders, trade_count, books, writer, locals>>

(* The books are searched: only the book of the order's symbol can know it.*)
CancelRemove(t) ==
  /\ pc[t] = "remove" /\ writer = NoTask
  /\ work[t] \in order_locations[Own(t).symbol]
  /\ LET r == Own(t)
         o == work[t]
     IN  /\ levels' = [levels EXCEPT ![r.symbol][r.side] =
                         RemoveOrder(@, r.price, o, RemainingQuantity(r, resting[o]))]
         /\ order_locations' = [order_locations EXCEPT ![r.symbol] = @ \ {o}]
         /\ resting' = [resting EXCEPT ![o] = Absent]
  /\ Goto(t, "mark")
  /\ UNCHANGED <<request, orders, trade_count, writer, work, locals>>

(* Nothing is found: the order was matched or cancelled since the check.   *)
CancelMissed(t) ==
  /\ pc[t] = "remove" /\ writer = NoTask
  /\ work[t] \notin order_locations[Own(t).symbol]
  /\ Goto(t, "mark")
  /\ UNCHANGED <<request, orders, trade_count, books, writer, work, locals>>

CancelMark(t) ==
  /\ pc[t] = "mark"
  /\ orders' = [orders EXCEPT ![work[t]] = Cancel(@)]
  /\ Return(t)
  /\ UNCHANGED <<request, trade_count, books, writer, locals>>

-----------------------------------------------------------------------------
(* What the engine counts for its monitors.                                *)
Received == {o \in Ids : orders[o] # Absent}
Matched == {o \in Received : orders[o].filled > 0}
CancelledOrders == {o \in Received : orders[o].status = "Cancelled"}
OrdersInBook == MapThenSumSet(LAMBDA s : Cardinality(order_locations[s]), Symbols)

-----------------------------------------------------------------------------
(* The steps that need the lock, and those that a task takes by itself.    *)
Acquire(t) ==
  StartMatching(t) \/ RejectMarket(t) \/ PanicInSum(t) \/ CancelRemove(t) \/ CancelMissed(t)

Proceed(t) ==
  \/ Trade(t) \/ FinishLevel(t) \/ CountTrades(t)
  \/ StoreFilled(t) \/ StoreResting(t) \/ PanicInAdd(t)
  \/ CancelMark(t)

Next == \E t \in Tasks :
  Refuse(t) \/ SubmitOrder(t) \/ CancelCheck(t) \/ Acquire(t) \/ Proceed(t)

Spec == Init /\ [][Next]_vars

(* Mutant: a lock that may pass over a waiting thread for ever.            *)
WeakFairness == \A t \in Tasks : WF_vars(Proceed(t)) /\ WF_vars(Acquire(t))

(* A running thread is scheduled, and parking_lot's eventual fairness does *)
(* not pass over a waiting thread for ever.                                *)
Fairness == \A t \in Tasks : WF_vars(Proceed(t)) /\ SF_vars(Acquire(t))
=============================================================================
