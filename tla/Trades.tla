------------------------------- MODULE Trades -------------------------------
(***************************************************************************)
(* Trades and what is told of them (src/src/models/trade.rs and the        *)
(* MatchResult of src/src/matching/engine.rs).                             *)
(*                                                                         *)
(* A list of trades is a sequence, in the order of matching.  Ids and      *)
(* times of trades are left out: a trade is told apart by its place.       *)
(***************************************************************************)
EXTENDS OrderBook

TradeRecord ==
  [symbol : Symbols, price : Prices, quantity : 1 .. U64Max,
   buyer_order_id : Nat, seller_order_id : Nat, taker_side : Sides]

NewTrade(symbol, price, quantity, buyer, seller, taker_side) ==
  [symbol |-> symbol, price |-> price, quantity |-> quantity,
   buyer_order_id |-> buyer, seller_order_id |-> seller, taker_side |-> taker_side]

(* Who was resting, and who came.                                          *)
TakerOf(tr) == IF tr.taker_side = "Buy" THEN tr.buyer_order_id ELSE tr.seller_order_id
MakerOf(tr) == IF tr.taker_side = "Buy" THEN tr.seller_order_id ELSE tr.buyer_order_id

ToTradeInfo(tr) == [price |-> tr.price, quantity |-> tr.quantity]
ToTradeInfoList(list) == [i \in DOMAIN list |-> ToTradeInfo(list[i])]

(* The quantities of a list of trades, or of what an answer tells of them. *)
TotalFilledQuantity(list) == FoldLeft(LAMBDA n, tr : n + tr.quantity, 0, list)

-----------------------------------------------------------------------------
(* TradeSummary.  Its sums are u64: they wrap in a release build (a debug  *)
(* build panics).  No code of the server makes a summary.                  *)
EmptySummary == [total_quantity |-> 0, total_value |-> 0, trades |-> << >>]

AddTrade(summary, tr) ==
  [total_quantity |-> Wrap(summary.total_quantity + tr.quantity),
   total_value |-> Wrap(summary.total_value + tr.price * tr.quantity),
   trades |-> Append(summary.trades, tr)]

HasTrades(summary) == summary.trades # << >>

(* average_price: the fraction value / quantity, None without a quantity.  *)
HasAverage(summary) == summary.total_quantity > 0
AverageIs(summary, price) ==
  HasAverage(summary) /\ summary.total_value = price * summary.total_quantity
=============================================================================
