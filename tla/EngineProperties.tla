-------------------------- MODULE EngineProperties --------------------------
(***************************************************************************)
(* What the matching engine must guarantee its clients.                    *)
(*                                                                         *)
(* Many of these hold only while nobody holds order_books for writing      *)
(* (Unlocked).  Those are exactly the states in which a reader of          *)
(* order_books can look at the books; between two of them a submission     *)
(* runs to its end.                                                        *)
(***************************************************************************)
EXTENDS MatchingEngine

Unlocked == writer = NoTask

(* The order numbers in use.                                               *)
Created == 1 .. Len(request)

(* The queue of a side at a price, and whether order o waits in its own.   *)
Line(s, d, p) == QueueAt(levels[s][d], p)
OwnLine(o) == Line(request[o].symbol, request[o].side, request[o].price)
Waiting(o) == o \in ToSet(OwnLine(o))

BookIds(s) == UNION {Queued(levels[s][d]) : d \in Sides}
Remaining(o) == RemainingQuantity(request[o], resting[o])

-----------------------------------------------------------------------------
(* Every variable has its type.                                            *)
LevelsOK ==
  /\ DOMAIN levels = Symbols
  /\ \A s \in Symbols : /\ DOMAIN levels[s] = Sides
                        /\ \A d \in Sides : IsLevelMap(levels[s][d])
  /\ \A s \in Symbols, d \in Sides, p \in Prices : ToSet(Line(s, d, p)) \subseteq Created

TypeOK ==
  /\ request \in Seq(Request) /\ Len(request) <= MaxOrders
  /\ orders \in [Ids -> Copy]
  /\ trade_count \in Nat
  /\ LevelsOK
  /\ resting \in [Ids -> Copy]
  /\ order_locations \in [Symbols -> SUBSET Created]
  /\ writer \in Tasks \cup {NoTask}
  /\ pc \in [Tasks -> Places]
  /\ work \in [Tasks -> Created \cup {NoOrder}]
  /\ \A t \in Tasks : work[t] = NoOrder <=> pc[t] = "idle"
  /\ incoming \in Copy
  /\ prices \subseteq Prices
  /\ filled_qty \in [Ids -> Nat]
  /\ orders_to_remove \subseteq Created
  /\ quantity_to_reduce \in Nat
  /\ trades \in Nat

-----------------------------------------------------------------------------
(* The lock on order_books is held by exactly the task that is between     *)
(* acquiring it and dropping its guard, on every path out: success,        *)
(* rejection and panic.  (The guards of engine.rs:105, 159 and 400.)       *)
LockDiscipline ==
  \A t \in Tasks : pc[t] \in {"match", "store"} <=> writer = t

(* The two copies of a resting order agree: a clone in a price level is    *)
(* the active order that a status query shows, but for the fills of the    *)
(* level being swept; it is in the level of its own side and price, once.  *)
(* (engine.rs:273-379 updates the clone first and the map later.)          *)
BookMirrorsStorage ==
  /\ \A s \in Symbols, d \in Sides, p \in Prices :
       /\ IsInjective(Line(s, d, p))
       /\ \A o \in ToSet(Line(s, d, p)) :
            request[o].symbol = s /\ request[o].side = d /\ request[o].price = p
  /\ \A o \in Created : Waiting(o) =>
       /\ resting[o].status \in Active /\ Remaining(o) > 0
       /\ orders[o].status \in Active
       /\ resting[o].filled = orders[o].filled + filled_qty[o]
       /\ filled_qty[o] = 0 => resting[o] = orders[o]

(* No order is lost: one that a status query calls active is waiting in    *)
(* its book, unless the sweep has just taken it out or its cancellation is *)
(* between the removal and the mark (engine.rs:399-416).                   *)
NothingLost ==
  \A o \in Created :
    \/ orders[o].status \notin Active
    \/ Waiting(o)
    \/ o \in orders_to_remove
    \/ \E t \in Tasks : pc[t] = "mark" /\ work[t] = o

(* order_locations, which cancel_order searches and orders_in_book counts, *)
(* has exactly the queued orders (book.rs:61, 77, 148).                    *)
LocationsMatchQueues ==
  Unlocked => \A s \in Symbols : order_locations[s] = BookIds(s)

(* The cached quantity of a level is what its orders have left, and no     *)
(* empty level stays in the map (price_level.rs:13, the tests' "no zero    *)
(* quantities").                                                           *)
LevelTotals ==
  Unlocked => \A s \in Symbols, d \in Sides : \A p \in DOMAIN levels[s][d] :
    LET level == levels[s][d][p]
    IN  /\ level.orders # << >>
        /\ level.total_quantity = MapThenSumSet(Remaining, ToSet(level.orders))

(* The cached quantities never promise more than the orders of a side have *)
(* left, even when additions wrap: this is what makes the liquidity check  *)
(* of a market order safe in a release build (engine.rs:113-129).          *)
LiquidityNotOverstated ==
  Unlocked => \A s \in Symbols, d \in Sides :
    Wrap(SideQuantity(levels[s][d])) <= MapThenSumSet(Remaining, Queued(levels[s][d]))

(* A book a reader sees is not crossed: every bid is below every ask.      *)
Uncrossed ==
  Unlocked => \A s \in Symbols :
    \A bid \in DOMAIN levels[s]["Buy"], ask \in DOMAIN levels[s]["Sell"] : bid < ask

(* What buyers bought is what sellers sold, in each symbol, as the status  *)
(* map tells it.                                                           *)
Conservation ==
  LET Filled(s, d) ==
        MapThenSumSet(LAMBDA o : orders[o].filled,
                      {o \in Created : request[o].symbol = s /\ request[o].side = d})
  IN  Unlocked => \A s \in Symbols : Filled(s, "Buy") = Filled(s, "Sell")

(* The assert of process_market_order never fails: a market order whose    *)
(* matching is over is filled (engine.rs:129).                             *)
MarketOrdersFill ==
  \A t \in Tasks :
    /\ pc[t] = "match" /\ MatchingDone(Own(t)) /\ Own(t).order_type = "Market"
    => IsFilled(Own(t), incoming)

(* Every trade fills one of its two orders for good, and no order twice,   *)
(* so there are never more trades than filled orders.                      *)
FilledOrders == {o \in Created : IsFilled(request[o], orders[o])}
TradesAreBounded ==
  Unlocked => trade_count <= Cardinality(FilledOrders)

-----------------------------------------------------------------------------
(* Cancelled is final: no fill and no change of status reaches an order    *)
(* that is cancelled.  (A second cancellation that passed its check before *)
(* the first was marked touches updated_at again, order.rs:254, a time and *)
(* so left out.)                                                           *)
CancelledIsFinal ==
  [][\A o \in Ids : orders[o].status = "Cancelled" => orders'[o] = orders[o]]_vars

(* An order is never filled beyond its quantity, and never loses a fill.   *)
FillsOnlyGrow ==
  [][\A o \in Created : /\ orders'[o].filled >= orders[o].filled
                        /\ orders'[o].filled <= request[o].quantity]_vars

(* A panic of the debug build destroys no trade: the order that add_order  *)
(* drops has none, because a level that is almost full faces no crossing   *)
(* order (price_level.rs:28, engine.rs:185).                               *)
PanicLosesNoTrade ==
  [][\A t \in Tasks : PanicInAdd(t) => incoming.filled = 0]_vars

(* A market order is rejected only when the orders of the other side have  *)
(* less left than it asks for: error.rs:18, "Insufficient liquidity for    *)
(* market order".  The code compares cached totals (engine.rs:118).        *)
RejectedOnlyWhenShort ==
  [][\A t \in Tasks : RejectMarket(t) =>
       MapThenSumSet(Remaining, Queued(Against(Own(t)))) < Own(t).quantity]_vars

(* A sweep ends.  What the holder of order_books has still to do: to trade *)
(* with the orders ahead, to leave their levels, to fill up, to count its  *)
(* trades and to store its order.  Every step it takes makes this less,    *)
(* and no step of another thread, no cancellation and no arrival, makes it *)
(* more: how long the lock is held is settled when it is taken, and the    *)
(* loops of engine.rs:236, 262 and 298 terminate.                          *)
Ahead == UNION {ToSet(QueueAt(Against(Own(writer)), p)) : p \in prices}
StepsLeft ==
  IF Unlocked THEN 0
  ELSE IF pc[writer] = "store" THEN 1
  ELSE 2 + Cardinality(prices) + Cardinality(Ahead)
         + (IF IsFilled(Own(writer), incoming) THEN 0 ELSE 1)
OthersStep == pc'[writer] = pc[writer] /\ UNCHANGED <<writer, books, locals>>
SweepsEnd == [][~ Unlocked => OthersStep \/ StepsLeft' < StepsLeft]_vars

-----------------------------------------------------------------------------
(* The engine implements the market with price-time priority.  The line of *)
(* a price is the queue of its level, the taker is the order of the task   *)
(* that holds the lock, and what an order has traded is told by the copy   *)
(* that is ahead: the taker's own, the clone in the book, or the map's     *)
(* with the fills that have still to reach it.                             *)
Taker == IF Unlocked THEN NoOrder ELSE work[writer]
FilledSoFar ==
  [o \in Ids |-> IF o = Taker THEN incoming.filled
                 ELSE IF resting[o] # Absent THEN resting[o].filled
                 ELSE orders[o].filled + filled_qty[o]]

Arrived == {o \in Ids : orders[o] # Absent \/ o = Taker}
Lines == [s \in Symbols |-> [d \in Sides |-> [p \in Prices |-> Line(s, d, p)]]]

Market == INSTANCE LimitOrderBook WITH
  arrived <- Arrived, filled <- FilledSoFar, line <- Lines, taker <- Taker

(* Every step of the engine is a step of the market or invisible in it     *)
(* (engine.rs:208-379: best level first, front of the queue first).        *)
PriceTimePriority == Market!BookSpec

(* A cancellation stops its order at the removal, before it is marked: no  *)
(* trade reaches the order while its cancellation waits to write the map,  *)
(* so what it has traded is settled when the answer is made                *)
(* (engine.rs:399-416).                                                    *)
RemovedTradesNoMore ==
  [][\A t \in Tasks : pc[t] = "mark" =>
       FilledSoFar'[work[t]] = FilledSoFar[work[t]]]_vars

-----------------------------------------------------------------------------
(* What the source says and the code does not do.                          *)

(* engine.rs:387, "Cannot cancel filled orders".                           *)
FilledStaysFilled ==
  [][\A o \in Ids : orders[o].status = "Filled" => orders'[o].status = "Filled"]_vars

(* engine.rs:392, "Cannot cancel already cancelled orders".                *)
CancelledOnce ==
  [][\A t \in Tasks : CancelMark(t) => orders[work[t]].status # "Cancelled"]_vars

(* book.rs:182, "Returns total number of orders in the book".              *)
CountIsOrdersInBook ==
  Unlocked => \A s \in Symbols : Cardinality(order_locations[s]) = Cardinality(BookIds(s))
=============================================================================
