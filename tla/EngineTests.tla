----------------------------- MODULE EngineTests -----------------------------
(***************************************************************************)
(* The repository's tests of the engine (src/src/matching/engine.rs), the  *)
(* API (src/src/api) and the shared state (src/src/state.rs), replayed on  *)
(* the model.                                                              *)
(*                                                                         *)
(* A test is a script: the calls it makes, one after the other, each with  *)
(* what the test asserts of the answer.  A call takes the steps it takes   *)
(* in Api.  test_concurrent_safety, a thousand calls of ten threads with   *)
(* no assertion but bounds, is not replayed: Api itself is checked on      *)
(* interleavings.                                                          *)
(***************************************************************************)
EXTENDS DataTests

VARIABLES
  test,   \* the test that runs
  step,   \* its next call
  answer  \* the answer of its last call

testVars == <<apiVars, test, step, answer>>

-----------------------------------------------------------------------------
(* The calls of a script.  Unwrap asserts no more than success.            *)
Unwrap == [f \in {} |-> f]

Submit(r, expect) == [call |-> "submit_order", request |-> r, expect |-> expect]
Add(side, price, quantity) == Submit(LimitRequest(side, price, quantity), Unwrap)
CancelOrder(o, expect) == [call |-> "cancel_order", order |-> o, expect |-> expect]
Get(o, expect) == [call |-> "get_order", order |-> o, expect |-> expect]
Book(s, depth, bids, asks) ==
  [call |-> "get_order_book", symbol |-> s, depth |-> depth,
   expect |-> [symbol |-> s, bids |-> bids, asks |-> asks]]
Count(counter, n) == [call |-> "count", expect |-> counter :> n]
Health(expect) == [call |-> "health_check", expect |-> expect]

(* The same call made through the router, which answers with a code.       *)
Http(item, code) == [item EXCEPT !.expect = @ @@ [code |-> code]]

(* The counters of the engine, which get_metrics reads one after another.  *)
Counters ==
  [orders_received |-> Cardinality(Received), orders_matched |-> Cardinality(Matched),
   orders_cancelled |-> Cardinality(CancelledOrders), orders_in_book |-> OrdersInBook,
   trades_executed |-> trade_count]

(* What a test may assert of an answer a: a field, the number of trades.   *)
Asserted(a, f, value) ==
  IF f = "trades_len" THEN "trades" \in DOMAIN a /\ Len(a.trades) = value
  ELSE f \in DOMAIN a /\ a[f] = value

AsExpected(a, expect) ==
  /\ "error" \in DOMAIN a <=> "error" \in DOMAIN expect
  /\ \A f \in DOMAIN expect : Asserted(a, f, expect[f])

FilledWith(n, infos) == [status |-> "Filled", filled_quantity |-> n, trades |-> infos]
IsAccepted == [status |-> "Accepted"]
IsCancelled == [status |-> "Cancelled"]
FakeId == MaxOrders   \* Uuid::new_v4, the id of no order
NotFound == [error |-> "OrderNotFound", order_id |-> FakeId]
Short(available) ==
  [error |-> "InsufficientLiquidity", available |-> available, requested |-> 100]
Invalid(reason) == [error |-> "InvalidOrder", reason |-> reason]

Sell == LimitRequest("Sell", 10000, 100)
Buy == LimitRequest("Buy", 10000, 100)

-----------------------------------------------------------------------------
(* engine.rs: submissions.                                                 *)
test_submit_limit_order_no_match ==
  << Submit(Buy, IsAccepted), Count("orders_in_book", 1), Count("orders_received", 1) >>

test_submit_limit_order_full_match ==
  << Submit(Sell, Unwrap), Submit(Buy, FilledWith(100, << Info(10000, 100) >>)),
     Count("orders_in_book", 0), Count("trades_executed", 1) >>

test_submit_limit_order_partial_match ==
  << Add("Sell", 10000, 50),
     Submit(Buy, [status |-> "PartialFill", filled_quantity |-> 50,
                  remaining_quantity |-> 50, trades_len |-> 1]),
     Count("orders_in_book", 1) >>

test_submit_market_order_full_match ==
  << Submit(Sell, Unwrap),
     Submit(MarketRequest("Buy", 100), [status |-> "Filled", filled_quantity |-> 100]),
     Count("orders_in_book", 0) >>

test_submit_market_order_insufficient_liquidity ==
  << Add("Sell", 10000, 50), Submit(MarketRequest("Buy", 100), Short(50)),
     Count("orders_in_book", 1) >>

test_submit_market_order_no_liquidity == << Submit(MarketRequest("Buy", 100), Short(0)) >>

test_submit_market_sell_order ==
  << Submit(Buy, Unwrap),
     Submit(MarketRequest("Sell", 100), [status |-> "Filled", filled_quantity |-> 100]),
     Count("orders_in_book", 0) >>

test_price_priority_buy_matches_lowest_ask ==
  << Add("Sell", 10200, 50), Add("Sell", 10100, 50), Add("Sell", 10000, 50),
     Submit(LimitRequest("Buy", 10200, 100),
            FilledWith(100, << Info(10000, 50), Info(10100, 50) >>)) >>

test_price_priority_sell_matches_highest_bid ==
  << Add("Buy", 9800, 50), Add("Buy", 9900, 50), Add("Buy", 10000, 50),
     Submit(LimitRequest("Sell", 9800, 100),
            FilledWith(100, << Info(10000, 50), Info(9900, 50) >>)) >>

test_time_priority_fifo ==
  << Submit(LimitRequest("Sell", 10000, 50), IsAccepted),
     Submit(LimitRequest("Sell", 10000, 50), IsAccepted),
     Add("Buy", 10000, 50),
     Get(1, [status |-> "Filled"]), Get(2, IsAccepted) >>

(* engine.rs: cancellations and queries.                                   *)
test_cancel_order_success ==
  << Submit(Buy, IsAccepted),
     CancelOrder(1, [order_id |-> 1, status |-> "Cancelled"]),
     Count("orders_in_book", 0), Get(1, IsCancelled) >>

test_cancel_order_not_found == << CancelOrder(FakeId, NotFound) >>

test_cancel_filled_order_fails ==
  << Submit(Sell, IsAccepted), Submit(Buy, Unwrap),
     CancelOrder(1, [error |-> "CannotCancelFilledOrder", order_id |-> 1]) >>

test_cancel_partially_filled_order ==
  << Add("Sell", 10000, 50), Submit(Buy, [status |-> "PartialFill"]),
     CancelOrder(2, IsCancelled),
     Get(2, [status |-> "Cancelled", filled_quantity |-> 50, remaining_quantity |-> 50]) >>

test_cancel_already_cancelled_order ==
  << Submit(Buy, IsAccepted), CancelOrder(1, Unwrap),
     CancelOrder(1, [error |-> "OrderNotFound"]) >>

test_get_order_success ==
  << Submit(Buy, IsAccepted),
     Get(1, Buy @@ [order_id |-> 1, filled_quantity |-> 0, remaining_quantity |-> 100,
                    status |-> "Accepted"]) >>

test_get_order_not_found == << Get(FakeId, NotFound) >>

test_get_order_book ==
  << Add("Buy", 9900, 100), Add("Buy", 10000, 50), Add("Sell", 10100, 75), Add("Sell", 10200, 25),
     Book("AAPL", 10, << Info(10000, 50), Info(9900, 100) >>,
                      << Info(10100, 75), Info(10200, 25) >>) >>

test_get_order_book_empty_symbol == << Book("UNKNOWN", 10, << >>, << >>) >>

test_get_order_book_depth_limit ==
  [i \in 1 .. 5 |-> Add("Buy", 10000 - (i - 1) * 100, 100)]
    \o << Book("AAPL", 3, << Info(10000, 100), Info(9900, 100), Info(9800, 100) >>, << >>) >>

(* engine.rs: metrics, edge cases.                                         *)
test_metrics_orders_received ==
  << Add("Buy", 10000, 100), Add("Sell", 10100, 50), Count("orders_received", 2) >>

test_metrics_orders_matched ==
  << Submit(Sell, Unwrap), Submit(Buy, Unwrap), Count("orders_matched", 2) >>

test_metrics_orders_cancelled ==
  << Submit(Buy, IsAccepted), CancelOrder(1, Unwrap), Count("orders_cancelled", 1) >>

test_metrics_trades_executed ==
  << Submit(Sell, Unwrap), Submit(Buy, Unwrap), Count("trades_executed", 1) >>

test_metrics_multiple_trades ==
  << Add("Sell", 10000, 50), Add("Sell", 10100, 50), Add("Buy", 10100, 100),
     Count("trades_executed", 2) >>

test_no_match_buy_price_too_low ==
  << Add("Sell", 10100, 100), Submit(Buy, IsAccepted),
     Count("orders_in_book", 2), Count("trades_executed", 0) >>

test_no_match_sell_price_too_high ==
  << Submit(Buy, Unwrap), Submit(LimitRequest("Sell", 10100, 100), IsAccepted),
     Count("orders_in_book", 2), Count("trades_executed", 0) >>

test_multiple_symbols ==
  << Submit(Buy, Unwrap),
     Submit([LimitRequest("Sell", 50000, 10) EXCEPT !.symbol = "BTC"], Unwrap),
     Book("AAPL", 10, << Info(10000, 100) >>, << >>),
     Book("BTC", 10, << >>, << Info(50000, 10) >>) >>

test_validation_empty_symbol ==
  << Submit([Buy EXCEPT !.symbol = NoSymbol], Invalid("Symbol cannot be empty")) >>

test_validation_zero_quantity ==
  << Submit(LimitRequest("Buy", 10000, 0), Invalid("Quantity must be positive")) >>

test_validation_limit_order_no_price ==
  << Submit(LimitRequest("Buy", NoPrice, 100), Invalid("Price is required for LIMIT orders")) >>

test_validation_market_order_with_price ==
  << Submit([Buy EXCEPT !.order_type = "Market"],
            Invalid("Price should not be specified for MARKET orders")) >>

test_large_order_multiple_fills ==
  [i \in 1 .. 10 |-> Add("Sell", 10000 + (i - 1) * 10, 10)]
    \o << Submit(LimitRequest("Buy", 10100, 100),
                 [status |-> "Filled", filled_quantity |-> 100, trades_len |-> 10]),
          Count("orders_in_book", 0), Count("trades_executed", 10) >>

test_aggregated_quantity_at_price_level ==
  << Add("Buy", 10000, 100), Add("Buy", 10000, 50), Add("Buy", 10000, 75),
     Book("AAPL", 10, << Info(10000, 225) >>, << >>) >>

test_market_order_matches_multiple_price_levels ==
  << Add("Sell", 10000, 30), Add("Sell", 10100, 30), Add("Sell", 10200, 40),
     Submit(MarketRequest("Buy", 100),
            FilledWith(100, << Info(10000, 30), Info(10100, 30), Info(10200, 40) >>)),
     Count("orders_in_book", 0) >>

test_resting_order_status_updated_after_match ==
  << Submit(Sell, IsAccepted), Add("Buy", 10000, 40),
     Get(1, [status |-> "PartialFill", filled_quantity |-> 40, remaining_quantity |-> 60]) >>

test_resting_order_fully_filled ==
  << Submit(Sell, IsAccepted), Submit(Buy, Unwrap),
     Get(1, [status |-> "Filled", filled_quantity |-> 100, remaining_quantity |-> 0]) >>

test_order_book_updates_after_partial_fill ==
  << Submit(Sell, Unwrap), Add("Buy", 10000, 40), Book("AAPL", 10, << >>, << Info(10000, 60) >>) >>

test_taker_side_in_trade ==
  << Submit(Sell, Unwrap), Submit(Buy, FilledWith(100, << Info(10000, 100) >>)) >>

test_orders_in_book_count ==
  << Count("orders_in_book", 0), Add("Buy", 10000, 100), Count("orders_in_book", 1),
     Add("Sell", 10100, 50), Count("orders_in_book", 2),
     Add("Buy", 10100, 50), Count("orders_in_book", 1) >>

-----------------------------------------------------------------------------
(* handlers.rs.                                                            *)
Ask == LimitRequest("Sell", 15050, 100)

test_submit_limit_order_accepted == << Http(Submit(Bid, IsAccepted), 201) >>

test_submit_limit_order_filled ==
  << Submit(Ask, Unwrap),
     Http(Submit(Bid, [status |-> "Filled", filled_quantity |-> 100, trades_len |-> 1]), 200) >>

test_submit_limit_order_partial_fill ==
  << Add("Sell", 15050, 40),
     Http(Submit(Bid, [status |-> "PartialFill", filled_quantity |-> 40,
                       remaining_quantity |-> 60]), 202) >>

http_test_submit_market_order_insufficient_liquidity ==
  << Http(Submit(MarketRequest("Buy", 100), [error |-> "InsufficientLiquidity"]), 400) >>

test_submit_invalid_order_missing_price ==
  << Http(Submit(LimitRequest("Buy", NoPrice, 100),
                 Invalid("Price is required for LIMIT orders")), 400) >>

test_submit_invalid_order_zero_quantity ==
  << Http(Submit(LimitRequest("Buy", 15050, 0), Invalid("Quantity must be positive")), 400) >>

http_test_cancel_order_success ==
  << Submit(Bid, IsAccepted),
     Http(CancelOrder(1, [order_id |-> 1, status |-> "Cancelled"]), 200) >>

http_test_cancel_order_not_found == << Http(CancelOrder(FakeId, NotFound), 404) >>

test_cancel_filled_order ==
  << Submit(Ask, IsAccepted), Submit(Bid, Unwrap),
     Http(CancelOrder(1, [error |-> "CannotCancelFilledOrder"]), 400) >>

test_get_order_status_success ==
  << Submit(Bid, IsAccepted),
     Http(Get(1, Bid @@ [order_id |-> 1, filled_quantity |-> 0, remaining_quantity |-> 100,
                         status |-> "Accepted"]), 200) >>

test_get_order_status_not_found == << Http(Get(FakeId, NotFound), 404) >>

http_test_get_order_book ==
  << Add("Buy", 15000, 100), Add("Sell", 15100, 50),
     Http(Book("AAPL", DefaultDepth, << Info(15000, 100) >>, << Info(15100, 50) >>), 200) >>

test_get_order_book_with_depth ==
  [i \in 1 .. 5 |-> Add("Buy", 15000 - (i - 1) * 100, 100)]
    \o << Http(Book("AAPL", 3, << Info(15000, 100), Info(14900, 100), Info(14800, 100) >>,
                    << >>), 200) >>

http_test_get_order_book_empty_symbol ==
  << Http(Book("UNKNOWN", DefaultDepth, << >>, << >>), 200) >>

test_get_metrics_after_activity ==
  << Add("Sell", 15000, 100), Add("Buy", 15000, 100),
     Count("orders_received", 2), Count("orders_matched", 2),
     Count("trades_executed", 1), Count("orders_in_book", 0) >>

test_health_check ==
  << Add("Buy", 15000, 100), Http(Health([status |-> "healthy", orders_processed |-> 1]), 200) >>

-----------------------------------------------------------------------------
(* state.rs (a clone of the state shares the engine, so its script is one  *)
(* script) and routes.rs.                                                  *)
test_app_state_creation == << Count("orders_received", 0), Count("orders_in_book", 0) >>

test_app_state_clone_shares_data ==
  << Submit(Buy, Unwrap), Count("orders_received", 1), Count("orders_in_book", 1) >>

test_health_check_route == << Http(Health(Unwrap), 200) >>

-----------------------------------------------------------------------------
Tests == <<
  test_submit_limit_order_no_match, test_submit_limit_order_full_match,
  test_submit_limit_order_partial_match, test_submit_market_order_full_match,
  test_submit_market_order_insufficient_liquidity, test_submit_market_order_no_liquidity,
  test_submit_market_sell_order, test_price_priority_buy_matches_lowest_ask,
  test_price_priority_sell_matches_highest_bid, test_time_priority_fifo,
  test_cancel_order_success, test_cancel_order_not_found, test_cancel_filled_order_fails,
  test_cancel_partially_filled_order, test_cancel_already_cancelled_order,
  test_get_order_success, test_get_order_not_found, test_get_order_book,
  test_get_order_book_empty_symbol, test_get_order_book_depth_limit,
  test_metrics_orders_received, test_metrics_orders_matched, test_metrics_orders_cancelled,
  test_metrics_trades_executed, test_metrics_multiple_trades,
  test_no_match_buy_price_too_low, test_no_match_sell_price_too_high, test_multiple_symbols,
  test_validation_empty_symbol, test_validation_zero_quantity,
  test_validation_limit_order_no_price, test_validation_market_order_with_price,
  test_large_order_multiple_fills, test_aggregated_quantity_at_price_level,
  test_market_order_matches_multiple_price_levels,
  test_resting_order_status_updated_after_match, test_resting_order_fully_filled,
  test_order_book_updates_after_partial_fill, test_taker_side_in_trade,
  test_orders_in_book_count,
  test_submit_limit_order_accepted, test_submit_limit_order_filled,
  test_submit_limit_order_partial_fill, http_test_submit_market_order_insufficient_liquidity,
  test_submit_invalid_order_missing_price, test_submit_invalid_order_zero_quantity,
  http_test_cancel_order_success, http_test_cancel_order_not_found, test_cancel_filled_order,
  test_get_order_status_success, test_get_order_status_not_found, http_test_get_order_book,
  test_get_order_book_with_depth, http_test_get_order_book_empty_symbol,
  test_get_metrics_after_activity, test_health_check,
  test_app_state_creation, test_app_state_clone_shares_data, test_health_check_route >>

TestsInit ==
  /\ ApiInit
  /\ test \in DOMAIN Tests
  /\ step = 1
  /\ answer = Unwrap

Running == step <= Len(Tests[test])
Item == Tests[test][step]
Doing(call) == Running /\ Item.call = call

(* The call of the script returns a, with its code.                        *)
Returns(a) ==
  /\ answer' = a @@ [code |-> IF Item.call = "submit_order"
                              THEN SubmitStatusCode(a) ELSE StatusCode(a)]
  /\ step' = step + 1
  /\ UNCHANGED test

Continues == UNCHANGED <<test, step, answer>>

(* The calls that change the engine.                                       *)
Begin(t) ==
  /\ \/ /\ Doing("submit_order") /\ Item.request \in Request
        /\ SubmitOrder(t) /\ request' = Append(request, Item.request)
     \/ /\ Doing("cancel_order")
        /\ CancelCheck(t) /\ work' = [work EXCEPT ![t] = Item.order]
  /\ UNCHANGED told
  /\ Continues

Continue(t) ==
  \/ (Match(t) \/ Silent(t)) /\ Continues
  \/ Succeed(t) /\ Returns(SubmitAnswer(t))
  \/ TurnDown(t) /\ Returns(InsufficientLiquidity(t))
  \/ Confirm(t) /\ Returns(CancelAnswer(work[t]))

(* The calls that are refused.                                             *)
Refusing ==
  \/ /\ Doing("submit_order") /\ Item.request \notin Request
     /\ Returns(InvalidOrder(Item.request))
  \/ /\ Doing("cancel_order") /\ orders[Item.order].status \notin Active
     /\ Returns(CancelRefusal(Item.order))

(* The calls that only read.                                               *)
Reading ==
  \/ Doing("get_order") /\ Returns(GetOrder(Item.order))
  \/ Doing("get_order_book") /\ Returns(GetOrderBook(Item.symbol, Item.depth))
  \/ Doing("count") /\ Returns(Counters)
  \/ Doing("health_check") /\ Returns(HealthCheck)

TestsNext ==
  \/ \E t \in Tasks : Begin(t) \/ Continue(t)
  \/ (\A t \in Tasks : pc[t] = "idle") /\ (Refusing \/ Reading) /\ UNCHANGED apiVars
  \/ ~ Running /\ UNCHANGED testVars

TestsSpec == TestsInit /\ [][TestsNext]_testVars

-----------------------------------------------------------------------------
(* Every answer of every test is the one the test asserts; and since TLC   *)
(* checks for deadlock, every test comes to its end                        *)
(* (engine.rs:508-1363, handlers.rs:120-693).                              *)
TestsPass == step > 1 => AsExpected(answer, Tests[test][step - 1].expect)
=============================================================================
