------------------------------ MODULE DataTests ------------------------------
(***************************************************************************)
(* The repository's unit tests of its data structures, asked of the model: *)
(* orders, trades, price levels, order books, the tracker and the errors.   *)
(*                                                                         *)
(* A definition is named after its test, with the file in front where two  *)
(* files have a test of that name, and is the conjunction of the test's    *)
(* assertions.  Ids are the numbers of the orders in the order the test    *)
(* makes them; assertions about times and message texts are left out.      *)
(***************************************************************************)
EXTENDS Api, Tracker

LimitRequest(side, price, quantity) ==
  [symbol |-> "AAPL", side |-> side, order_type |-> "Limit",
   price |-> price, quantity |-> quantity]
MarketRequest(side, quantity) ==
  [symbol |-> "AAPL", side |-> side, order_type |-> "Market",
   price |-> NoPrice, quantity |-> quantity]

-----------------------------------------------------------------------------
(* order.rs.                                                               *)
Bid == LimitRequest("Buy", 15050, 100)
FilledBy(n) == Fill(Bid, NewOrder, n)
Refused(r, reason) == ~ Validate(r) /\ Refusal(r) = reason

test_create_limit_order ==
  /\ Validate(Bid)
  /\ StatusResponse(1, Bid, NewOrder) = Bid @@
       [order_id |-> 1, filled_quantity |-> 0, remaining_quantity |-> 100, status |-> "Accepted"]

test_create_market_order ==
  Validate([MarketRequest("Sell", 50) EXCEPT !.symbol = "BTC"])

test_limit_order_without_price_fails ==
  Refused(LimitRequest("Buy", NoPrice, 100), "Price is required for LIMIT orders")

test_market_order_with_price_fails ==
  Refused([Bid EXCEPT !.order_type = "Market"], "Price should not be specified for MARKET orders")

test_zero_quantity_fails == Refused(LimitRequest("Buy", 15050, 0), "Quantity must be positive")

test_order_fill_partial ==
  LET c == FilledBy(30)
  IN  /\ c = [filled |-> 30, status |-> "PartialFill"]
      /\ RemainingQuantity(Bid, c) = 70
      /\ ~ IsFilled(Bid, c) /\ c.status \in Active

test_order_fill_complete ==
  LET c == FilledBy(100)
  IN  /\ c = [filled |-> 100, status |-> "Filled"]
      /\ RemainingQuantity(Bid, c) = 0
      /\ IsFilled(Bid, c) /\ c.status \notin Active

test_order_fill_multiple_times ==
  LET c == Fill(Bid, FilledBy(30), 70)
  IN  c = [filled |-> 100, status |-> "Filled"] /\ IsFilled(Bid, c)

test_order_cancel ==
  Cancel(NewOrder).status = "Cancelled" /\ Cancel(NewOrder).status \notin Active

test_order_to_status_response ==
  StatusResponse(1, Bid, FilledBy(40)) = Bid @@
    [order_id |-> 1, filled_quantity |-> 40, remaining_quantity |-> 60, status |-> "PartialFill"]

Info(price, quantity) == [price |-> price, quantity |-> quantity]

test_submit_order_response_accepted == Accepted(1) = [order_id |-> 1, status |-> "Accepted"]

test_submit_order_response_partial_fill ==
  PartialFill(1, 60, 40, << Info(15050, 60) >>) =
    [order_id |-> 1, status |-> "PartialFill", filled_quantity |-> 60,
     remaining_quantity |-> 40, trades |-> << Info(15050, 60) >>]

test_submit_order_response_filled ==
  Filled(1, 100, << Info(15050, 100) >>) =
    [order_id |-> 1, status |-> "Filled", filled_quantity |-> 100,
     trades |-> << Info(15050, 100) >>]

ASSUME OrderTests ==
  /\ test_create_limit_order /\ test_create_market_order
  /\ test_limit_order_without_price_fails /\ test_market_order_with_price_fails
  /\ test_zero_quantity_fails
  /\ test_order_fill_partial /\ test_order_fill_complete /\ test_order_fill_multiple_times
  /\ test_order_cancel /\ test_order_to_status_response
  /\ test_submit_order_response_accepted /\ test_submit_order_response_partial_fill
  /\ test_submit_order_response_filled

-----------------------------------------------------------------------------
(* trade.rs.                                                               *)
BuyTrade(price, quantity) == NewTrade("AAPL", price, quantity, 1, 2, "Buy")
SummaryOf(list) == FoldLeft(AddTrade, EmptySummary, list)

test_create_trade ==
  BuyTrade(15050, 100) =
    [symbol |-> "AAPL", price |-> 15050, quantity |-> 100,
     buyer_order_id |-> 1, seller_order_id |-> 2, taker_side |-> "Buy"]

test_trade_to_trade_info == ToTradeInfo(BuyTrade(15050, 100)) = Info(15050, 100)

test_trade_summary_empty ==
  /\ EmptySummary.total_quantity = 0 /\ EmptySummary.total_value = 0
  /\ ~ HasTrades(EmptySummary) /\ ~ HasAverage(EmptySummary)

test_trade_summary_single_trade ==
  LET summary == SummaryOf(<< BuyTrade(15050, 100) >>)
  IN  /\ summary.total_quantity = 100 /\ summary.total_value = 15050 * 100
      /\ Len(summary.trades) = 1 /\ HasTrades(summary)
      /\ AverageIs(summary, 15050)

TwoTrades == << BuyTrade(15000, 50), BuyTrade(15100, 50) >>

test_trade_summary_multiple_trades ==
  LET summary == SummaryOf(TwoTrades)
  IN  /\ summary.total_quantity = 100
      /\ summary.total_value = 15000 * 50 + 15100 * 50
      /\ Len(summary.trades) = 2 /\ HasTrades(summary)
      /\ AverageIs(summary, 15050)

test_trade_summary_to_trade_info_list ==
  ToTradeInfoList(SummaryOf(TwoTrades).trades) = << Info(15000, 50), Info(15100, 50) >>

test_trade_summary_weighted_average ==
  AverageIs(SummaryOf(<< BuyTrade(10000, 75), BuyTrade(12000, 25) >>), 10500)

ASSUME TradeTests ==
  /\ test_create_trade /\ test_trade_to_trade_info
  /\ test_trade_summary_empty /\ test_trade_summary_single_trade
  /\ test_trade_summary_multiple_trades /\ test_trade_summary_to_trade_info_list
  /\ test_trade_summary_weighted_average

-----------------------------------------------------------------------------
(* price_level.rs: a level at 10000 with orders 1, 2, ... of quantities qs.*)
Level(qs) ==
  LevelAt(FoldLeftDomain(LAMBDA levs, o : AddOrder(levs, 10000, o, qs[o]), NoLevels, qs), 10000)

test_new_price_level == Level(<< >>) = [orders |-> << >>, total_quantity |-> 0]

price_level_test_add_order == Level(<< 100 >>) = [orders |-> << 1 >>, total_quantity |-> 100]

test_add_multiple_orders ==
  LET level == Level(<< 100, 50, 75 >>)
  IN  level.total_quantity = 225 /\ Len(level.orders) = 3

test_fifo_order ==
  LET level == Level(<< 100, 50 >>)
  IN  /\ Head(level.orders) = 1
      /\ PopFrontOrder(level, 100) = [orders |-> << 2 >>, total_quantity |-> 50]

test_remove_order_by_id ==
  LET level == RemoveFromLevel(Level(<< 100, 50, 75 >>), 2, 50)
  IN  level.total_quantity = 175 /\ level.orders = << 1, 3 >>

price_level_test_remove_nonexistent_order ==
  RemoveOrder(10000 :> Level(<< 100 >>), 10000, 2, 50) = (10000 :> Level(<< 100 >>))

test_front_mut ==
  LET r == LimitRequest("Buy", 10000, 100)
      c == Fill(r, NewOrder, 30)
  IN  c.filled = 30 /\ RemainingQuantity(r, c) = 70

ASSUME PriceLevelTests ==
  /\ test_new_price_level /\ price_level_test_add_order /\ test_add_multiple_orders
  /\ test_fifo_order /\ test_remove_order_by_id
  /\ price_level_test_remove_nonexistent_order /\ test_front_mut

-----------------------------------------------------------------------------
(* book.rs: a book of the requests of list, in that order.                 *)
NewBook == [levels |-> [d \in Sides |-> NoLevels], order_locations |-> {}]

AddToBook(book, o, r) ==
  [levels |-> [book.levels EXCEPT ![r.side] = AddOrder(@, r.price, o, r.quantity)],
   order_locations |-> book.order_locations \cup {o}]
RemoveFromBook(book, o, r) ==
  IF o \notin book.order_locations THEN book
  ELSE [levels |-> [book.levels EXCEPT ![r.side] = RemoveOrder(@, r.price, o, r.quantity)],
        order_locations |-> book.order_locations \ {o}]

BookOf(list) == FoldLeftDomain(LAMBDA book, o : AddToBook(book, o, list[o]), NewBook, list)
BestBid(book) == BestPriceOf("Buy", book.levels["Buy"])
BestAsk(book) == BestPriceOf("Sell", book.levels["Sell"])

test_new_order_book ==
  BestBid(NewBook) = NoPrice /\ BestAsk(NewBook) = NoPrice /\ NewBook.order_locations = {}

test_add_bid_order ==
  LET book == BookOf(<< LimitRequest("Buy", 10000, 100) >>)
  IN  BestBid(book) = 10000 /\ BestAsk(book) = NoPrice /\ book.order_locations = {1}

test_add_ask_order ==
  LET book == BookOf(<< LimitRequest("Sell", 10100, 50) >>)
  IN  BestBid(book) = NoPrice /\ BestAsk(book) = 10100 /\ book.order_locations = {1}

test_best_bid_is_highest ==
  BestBid(BookOf(<< LimitRequest("Buy", 10000, 100), LimitRequest("Buy", 10050, 50),
                    LimitRequest("Buy", 9950, 75) >>)) = 10050

test_best_ask_is_lowest ==
  BestAsk(BookOf(<< LimitRequest("Sell", 10100, 100), LimitRequest("Sell", 10050, 50),
                    LimitRequest("Sell", 10150, 75) >>)) = 10050

OneBid == LimitRequest("Buy", 10000, 100)

test_remove_order ==
  LET book == RemoveFromBook(BookOf(<< OneBid >>), 1, OneBid)
  IN  1 \notin book.order_locations /\ BestBid(book) = NoPrice

book_test_remove_nonexistent_order ==
  RemoveFromBook(BookOf(<< OneBid >>), 2, OneBid) = BookOf(<< OneBid >>)

test_price_level_cleanup ==
  /\ DOMAIN BookOf(<< OneBid >>).levels["Buy"] = {10000}
  /\ DOMAIN RemoveFromBook(BookOf(<< OneBid >>), 1, OneBid).levels["Buy"] = {}

test_multiple_orders_same_price ==
  LET book == BookOf(<< OneBid, LimitRequest("Buy", 10000, 50), LimitRequest("Buy", 10000, 75) >>)
  IN  /\ DOMAIN book.levels["Buy"] = {10000}
      /\ Cardinality(book.order_locations) = 3
      /\ BestQuantity("Buy", book.levels["Buy"]) = 225

test_total_quantities ==
  LET book == BookOf(<< OneBid, LimitRequest("Buy", 9900, 50),
                        LimitRequest("Sell", 10100, 75), LimitRequest("Sell", 10200, 25) >>)
  IN  SideQuantity(book.levels["Buy"]) = 150 /\ SideQuantity(book.levels["Sell"]) = 100

test_to_response ==
  LET book == BookOf(<< OneBid, LimitRequest("Buy", 10050, 50), LimitRequest("Buy", 9950, 75),
                        LimitRequest("Sell", 10100, 80), LimitRequest("Sell", 10150, 60),
                        LimitRequest("Sell", 10200, 40) >>)
  IN  /\ SideResponse("Buy", book.levels["Buy"], 2) = << Info(10050, 50), Info(10000, 100) >>
      /\ SideResponse("Sell", book.levels["Sell"], 2) = << Info(10100, 80), Info(10150, 60) >>

test_to_response_depth_limit ==
  LET book == BookOf([n \in 1 .. 10 |->
                IF n % 2 = 1 THEN LimitRequest("Buy", 10000 - (n \div 2) * 10, 100)
                ELSE LimitRequest("Sell", 10100 + (n \div 2 - 1) * 10, 100)])
  IN  \A d \in Sides : Len(SideResponse(d, book.levels[d], 3)) = 3

test_get_order_location == 1 \in ToSet(QueueAt(BookOf(<< OneBid >>).levels["Buy"], 10000))

test_best_level_mut ==
  LET book == BookOf(<< OneBid, LimitRequest("Sell", 10100, 50) >>)
  IN  BestBid(book) = 10000 /\ BestAsk(book) = 10100

ASSUME OrderBookTests ==
  /\ test_new_order_book /\ test_add_bid_order /\ test_add_ask_order
  /\ test_best_bid_is_highest /\ test_best_ask_is_lowest
  /\ test_remove_order /\ book_test_remove_nonexistent_order /\ test_price_level_cleanup
  /\ test_multiple_orders_same_price /\ test_total_quantities
  /\ test_to_response /\ test_to_response_depth_limit
  /\ test_get_order_location /\ test_best_level_mut

-----------------------------------------------------------------------------
(* tracker.rs: a tracker that has recorded a list of microseconds.         *)
TrackerOf(list) == RecordAll(NewTracker, list)
P50(tracker) == LatencyPercentile(tracker, 500)
P99(tracker) == LatencyPercentile(tracker, 990)
P999(tracker) == LatencyPercentile(tracker, 999)

test_new_metrics_tracker ==
  /\ NewTracker.orders_processed = 0
  /\ P50(NewTracker) = 0 /\ P99(NewTracker) = 0 /\ P999(NewTracker) = 0

test_record_latency ==
  LET tracker == TrackerOf(<< 1000, 2000, 3000 >>)
  IN  tracker.orders_processed = 3 /\ P50(tracker) \in 1000 .. 3000

test_latency_percentiles ==
  LET tracker == TrackerOf([i \in 1 .. 100 |-> i * 1000])
  IN  /\ P50(tracker) \in 49000 .. 51000
      /\ P99(tracker) \in 98000 .. 100000
      /\ P999(tracker) \in 99000 .. 101000

test_reset ==
  LET tracker == TrackerOf(<< 5000, 10000 >>)
  IN  /\ tracker.orders_processed = 2 /\ P50(tracker) > 0
      /\ Reset(tracker).orders_processed = 0 /\ P50(Reset(tracker)) = 0

test_extreme_latencies ==
  LET tracker == TrackerOf(<< 1, 10000000 >>)
  IN  tracker.orders_processed = 2 /\ P50(tracker) > 0 /\ P99(tracker) > 0

ASSUME TrackerTests ==
  /\ test_new_metrics_tracker /\ test_record_latency /\ test_latency_percentiles
  /\ test_reset /\ test_extreme_latencies

-----------------------------------------------------------------------------
(* error.rs: the status code of each error.                                *)
test_order_not_found_status == StatusCode(OrderNotFound(1)) = 404

test_invalid_order_status == StatusCode(InvalidOrder(LimitRequest("Buy", 15050, 0))) = 400

test_insufficient_liquidity_status ==
  StatusCode([error |-> "InsufficientLiquidity", available |-> 50, requested |-> 100]) = 400

test_cannot_cancel_filled_status ==
  StatusCode([error |-> "CannotCancelFilledOrder", order_id |-> 1]) = 400

ASSUME ErrorTests ==
  /\ test_order_not_found_status /\ test_invalid_order_status
  /\ test_insufficient_liquidity_status /\ test_cannot_cancel_filled_status
=============================================================================
