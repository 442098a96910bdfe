----------------------------- MODULE OrderBook -----------------------------
(***************************************************************************)
(* One side of one symbol's order book (src/src/orderbook/price_level.rs,  *)
(* src/src/orderbook/book.rs).                                             *)
(*                                                                         *)
(* A BTreeMap<u64, PriceLevel> is a function from the prices that have a   *)
(* level to levels; a level is its queue of order ids, oldest first, and   *)
(* the cached total_quantity.  order_locations maps an id to the side and  *)
(* the price of its own order, so the engine keeps only its set of keys.   *)
(***************************************************************************)
EXTENDS Order, Sequences, FiniteSets, FiniteSetsExt, SequencesExt

PriceLevel == [orders : Seq(Nat), total_quantity : 0 .. U64Max]
IsLevelMap(f) == DOMAIN f \subseteq Prices /\ \A p \in DOMAIN f : f[p] \in PriceLevel

EmptyLevel == [orders |-> << >>, total_quantity |-> 0]
NoLevels == [p \in {} |-> EmptyLevel]

Put(f, k, v) == [x \in DOMAIN f \cup {k} |-> IF x = k THEN v ELSE f[x]]
Drop(f, k) == [x \in DOMAIN f \ {k} |-> f[x]]

(* Unchecked u64 addition, the release build's.                            *)
Wrap(n) == n % (U64Max + 1)

(* entry(price).or_insert_with(PriceLevel::new)                            *)
LevelAt(levels, p) == IF p \in DOMAIN levels THEN levels[p] ELSE EmptyLevel

QueueAt(levels, p) == LevelAt(levels, p).orders

(* Mutant: push_front.                                                     *)
AddOrderAtFront(levels, p, o, n) ==
  Put(levels, p,
      [orders |-> << o >> \o QueueAt(levels, p),
       total_quantity |-> Wrap(LevelAt(levels, p).total_quantity + n)])

(* PriceLevel::add_order, for an order o with n left to fill.              *)
AddOrder(levels, p, o, n) ==
  Put(levels, p,
      [orders |-> Append(QueueAt(levels, p), o),
       total_quantity |-> Wrap(LevelAt(levels, p).total_quantity + n)])

(* add_order's `total_quantity += remaining` leaves u64.                   *)
AddOverflows(levels, p, n) == LevelAt(levels, p).total_quantity + n > U64Max

(* Mutant: the level is dropped without asking whether it is empty.        *)
DropAlways(levels, p) == IF p \in DOMAIN levels THEN Drop(levels, p) ELSE levels

(* The clean-up that follows every removal.                                *)
DropIfEmpty(levels, p) ==
  IF p \in DOMAIN levels /\ levels[p].orders = << >> THEN Drop(levels, p) ELSE levels

(* PriceLevel::remove_order, for an order o of the level with n left.      *)
RemoveFromLevel(level, o, n) ==
  [orders |-> RemoveFirst(level.orders, o),
   total_quantity |-> SaturatingSub(level.total_quantity, n)]

(* Mutant: only the location goes, the order stays in its level.           *)
RemoveNothing(levels, p, o, n) == levels

(* OrderBook::remove_order, once the location has given the price.         *)
RemoveOrder(levels, p, o, n) ==
  IF o \in ToSet(QueueAt(levels, p))
  THEN DropIfEmpty(Put(levels, p, RemoveFromLevel(levels[p], o, n)), p)
  ELSE levels

(* Mutant: the order at the front is read, not taken.                      *)
PopNothing(levels, p) == levels

(* level.orders.pop_front(), which leaves the cached quantity alone.       *)
PopFront(levels, p) == [levels EXCEPT ![p].orders = Tail(@)]

(* Mutant: the cached quantity is left as it was.                          *)
ReduceNothing(levels, p, n) == levels

(* PriceLevel::reduce_total_quantity, if the level is there.               *)
ReduceTotalQuantity(levels, p, n) ==
  IF p \in DOMAIN levels
  THEN [levels EXCEPT ![p].total_quantity = SaturatingSub(@, n)]
  ELSE levels

(* Mutant: both sides lowest first, .rev() forgotten.                      *)
LowestFirst(side, p, q) == p < q

(* The order of the price levels: asks lowest first, bids highest first.   *)
Better(side, p, q) == IF side = "Sell" THEN p < q ELSE p > q

(* The sum over the levels of a side, before it is reduced to u64.         *)
SideQuantity(levels) ==
  MapThenSumSet(LAMBDA p : levels[p].total_quantity, DOMAIN levels)

(* The ids queued on a side.                                               *)
Queued(levels) == UNION {ToSet(levels[p].orders) : p \in DOMAIN levels}

-----------------------------------------------------------------------------
(* What the readers of a side are told.                                    *)

(* best_bid: the last key of bids; best_ask: the first key of asks.        *)
BestPriceOf(side, levels) ==
  IF DOMAIN levels = {} THEN NoPrice
  ELSE CHOOSE p \in DOMAIN levels : \A q \in DOMAIN levels \ {p} : Better(side, p, q)

BestQuantity(side, levels) == LevelAt(levels, BestPriceOf(side, levels)).total_quantity

(* Mutant: the best level is never shown.                                  *)
SideResponseSkipping(side, levels, depth) ==
  LET Rank(p) == Cardinality({q \in DOMAIN levels : Better(side, q, p)})
      At(i) == CHOOSE p \in DOMAIN levels : Rank(p) = i
  IN  [i \in 1 .. Min({depth, Cardinality(DOMAIN levels) - 1}) |->
         [price |-> At(i), quantity |-> levels[At(i)].total_quantity]]

(* One side of to_response: its best `depth` levels, best first.           *)
SideResponse(side, levels, depth) ==
  LET Rank(p) == Cardinality({q \in DOMAIN levels : Better(side, q, p)}) + 1
      At(i) == CHOOSE p \in DOMAIN levels : Rank(p) = i
  IN  [i \in 1 .. Min({depth, Cardinality(DOMAIN levels)}) |->
         [price |-> At(i), quantity |-> levels[At(i)].total_quantity]]

(* PriceLevel::pop_front, which the engine does not use: the cached        *)
(* quantity follows, by the n that the front order has left.               *)
PopFrontOrder(level, n) ==
  [orders |-> Tail(level.orders), total_quantity |-> SaturatingSub(level.total_quantity, n)]
=============================================================================
