-------------------------- MODULE EngineInvariant --------------------------
(***************************************************************************)
(* The inductive invariants of the matching engine, from which the safety  *)
(* properties of EngineProperties follow.                                  *)
(***************************************************************************)
EXTENDS EngineProperties

(* A limit order only comes to wait: a market order that is stored is      *)
(* filled.  With it the types are inductive.                               *)
OnlyLimitsRest ==
  \A t \in Tasks :
    pc[t] = "store" /\ Own(t).order_type = "Market" => IsFilled(Own(t), incoming)

TypeInv == TypeOK /\ LockDiscipline /\ OnlyLimitsRest

-----------------------------------------------------------------------------
(* The status that n filled units give an order.                           *)
StatusOf(r, n) ==
  IF n >= r.quantity THEN "Filled" ELSE IF n > 0 THEN "PartialFill" ELSE "Accepted"

WaitingOrders == {o \in Created : Waiting(o)}

(* Every queued order is in the line of its own side and price, once.      *)
LinesInv ==
  \A s \in Symbols, d \in Sides, p \in Prices :
    /\ IsInjective(Line(s, d, p))
    /\ \A o \in ToSet(Line(s, d, p)) :
         request[o].symbol = s /\ request[o].side = d /\ request[o].price = p

(* A stored order is not overfilled, and its status tells its fills.       *)
StoredInv ==
  /\ \A o \in Created :
       /\ orders[o].filled <= request[o].quantity
       /\ orders[o].status \notin {"Absent", "Cancelled"} =>
            orders[o].status = StatusOf(request[o], orders[o].filled)
  /\ \A o \in Ids \ Created : orders[o] = Absent

(* A queued clone is ahead of the stored order by the pending fills.       *)
WaitingInv ==
  \A o \in WaitingOrders :
    /\ o \in order_locations[request[o].symbol]
    /\ orders[o].status \in Active
    /\ resting[o].filled < request[o].quantity
    /\ resting[o].status = StatusOf(request[o], resting[o].filled)
    /\ resting[o].filled = orders[o].filled + filled_qty[o]

(* Pending fills are of active orders, and there are none once the level   *)
(* is finished; an order leaves the level with its last fill.              *)
PendingInv ==
  /\ \A o \in Ids : filled_qty[o] <= quantity_to_reduce
  /\ \A o \in Ids : filled_qty[o] > 0 =>
       /\ o \in Created /\ orders[o].status \in Active
       /\ orders[o].filled + filled_qty[o] <= request[o].quantity
  /\ \A o \in orders_to_remove :
       /\ o \notin WaitingOrders /\ filled_qty[o] > 0
       /\ orders[o].filled + filled_qty[o] = request[o].quantity
  /\ (\A t \in Tasks : pc[t] # "match") => quantity_to_reduce = 0

(* Only the submitting task knows its order until it is stored; an order   *)
(* that is being cancelled is stored, and once removed it is out of reach. *)
Submitting == {"submit", "match", "store"}
TasksInv ==
  \A t \in Tasks :
    /\ pc[t] \in Submitting =>
         /\ orders[work[t]] = Absent
         /\ \A u \in Tasks \ {t} : pc[u] \in Submitting => work[u] # work[t]
    /\ pc[t] \in {"remove", "mark"} => orders[work[t]].status # "Absent"
    /\ pc[t] = "mark" => work[t] \notin WaitingOrders /\ filled_qty[work[t]] = 0

(* The incoming order is not overfilled either.                            *)
IncomingInv ==
  \A t \in Tasks : pc[t] \in {"match", "store"} =>
    /\ incoming.filled <= Own(t).quantity
    /\ incoming.status = StatusOf(Own(t), incoming.filled)

(* The engine's inductive invariant.                                       *)
IInv ==
  /\ TypeInv
  /\ LinesInv /\ StoredInv /\ WaitingInv /\ PendingInv /\ TasksInv /\ IncomingInv
  /\ NothingLost

-----------------------------------------------------------------------------
(* Prices: the two sides of a book stay apart while it is swept too.       *)
SidesApart ==
  \A s \in Symbols :
    \A bid \in DOMAIN levels[s]["Buy"], ask \in DOMAIN levels[s]["Sell"] : bid < ask

(* An order visits only levels it crosses, and while it is not filled it   *)
(* has still to visit every one of them.                                   *)
SweepInv ==
  \A t \in Tasks :
    /\ pc[t] = "match" =>
         /\ \A p \in prices : Crosses(Own(t), p)
         /\ IsFilled(Own(t), incoming) \/ CrossingPrices(Own(t)) \subseteq prices
    /\ pc[t] = "store" =>
         IsFilled(Own(t), incoming) \/ CrossingPrices(Own(t)) = {}

(* A limit order that finds a level at its own price crosses nothing, and  *)
(* so trades nothing.                                                      *)
OwnLevelInv ==
  \A t \in Tasks :
    /\ pc[t] \in {"match", "store"} /\ Own(t).order_type = "Limit"
    /\ Own(t).price \in DOMAIN levels[Own(t).symbol][Own(t).side]
    => incoming.filled = 0 /\ prices = {}

CrossingInv == SidesApart /\ SweepInv /\ OwnLevelInv

(* Orders that will never trade again, as soon as that is so: those that   *)
(* are stored filled, those swept out of their level, and the incoming one *)
(* once it is filled.  Every trade makes one more.                         *)
DoneOrders ==
  FilledOrders \cup orders_to_remove
    \cup {work[t] : t \in {u \in Tasks : /\ pc[u] \in {"match", "store"}
                                        /\ IsFilled(Own(u), incoming)}}

BoundInv == trade_count + trades <= Cardinality(DoneOrders)

(* All the orders that a behaviour can have fit in one u64 together, so    *)
(* that no sum of their quantities overflows.                              *)
Fits == \A q \in Quantities : MaxOrders * q <= U64Max

(* An order whose submission panicked in add_order: it is in no map of the *)
(* engine, and no thread has it any more.                                  *)
Unwound(o) ==
  /\ OverflowChecks /\ ~ Fits
  /\ orders[o] = Absent
  /\ \A t \in Tasks : pc[t] \in Submitting => work[t] # o

(* The orders that have left their lines are of the symbol being traded.   *)
SweptInv ==
  \A t \in Tasks : pc[t] = "match" =>
    \A o \in orders_to_remove : request[o].symbol = Own(t).symbol

(* What order_locations has, in the book of its symbol, is queued, or has  *)
(* left its line in the sweep that is going on, or was lost in a panic.    *)
LocationsInv ==
  \A s \in Symbols : \A o \in order_locations[s] :
    /\ request[o].symbol = s
    /\ o \in WaitingOrders \cup orders_to_remove \/ Unwound(o)

(* Only the clones of waiting orders are in the book.                      *)
RestingInv == \A o \in Ids : resting[o] # Absent => o \in WaitingOrders

-----------------------------------------------------------------------------
(* Quantities.  What the orders of a set have left to fill.                *)
RemainingOf == [o \in Ids |-> Remaining(o)]
LeftOf(S) == SumFunctionOnSet(RemainingOf, S)

(* What a sweep has filled at its level and not yet taken off the cached   *)
(* quantity.                                                               *)
SweptLevel == <<Own(writer).symbol, Opposite(Own(writer).side), BestPrice(Own(writer))>>
Owed(s, d, p) ==
  IF quantity_to_reduce > 0 /\ <<s, d, p>> = SweptLevel THEN quantity_to_reduce ELSE 0

(* A level caches what its orders have left and what it is owed; at most   *)
(* that much where additions wrap.  Only the level being swept is empty.   *)
Accounted(level, left, owed) ==
  /\ level.orders = << >> => owed > 0
  /\ level.total_quantity <= left + owed
  /\ OverflowChecks \/ Fits => level.total_quantity = left + owed

TotalsInv ==
  /\ quantity_to_reduce > 0 => prices # {}
  /\ \A s \in Symbols, d \in Sides : \A p \in DOMAIN levels[s][d] :
       Accounted(levels[s][d][p], LeftOf(ToSet(levels[s][d][p].orders)), Owed(s, d, p))

(* A market order that is matched finds all it lacks on the other side.    *)
SupplyInv ==
  \A t \in Tasks : pc[t] = "match" /\ Own(t).order_type = "Market" =>
    RemainingQuantity(Own(t), incoming) <= LeftOf(Queued(Against(Own(t))))

(* What the orders of a side have traded, the taker's trades included.     *)
OrdersOf(s, d) == {o \in Created : request[o].symbol = s /\ request[o].side = d}
TradedInv ==
  \A s \in Symbols : SumFunctionOnSet(FilledSoFar, OrdersOf(s, "Buy"))
                       = SumFunctionOnSet(FilledSoFar, OrdersOf(s, "Sell"))
=============================================================================
