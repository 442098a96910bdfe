-------------------------------- MODULE Api --------------------------------
(***************************************************************************)
(* The matching engine with what its clients are told: the answers of the  *)
(* calls (src/src/api/handlers.rs, the response types of src/src/models,   *)
(* src/src/error.rs) and the trades in them.                               *)
(*                                                                         *)
(* An answer is a record with the fields of the response, or with the      *)
(* field `error`.  Message texts, timestamps and uptime are left out.      *)
(* Answers are computed by the step that returns; what outlives it is the  *)
(* ledger, the trades all answers so far have told, in their order.        *)
(***************************************************************************)
EXTENDS EngineProperties, Trades

VARIABLES
  result,  \* the MatchResult of the submission that holds order_books
  ledger   \* the trades told in answers

told == <<result, ledger>>
apiVars == <<vars, told>>

ApiInit == Init /\ result = << >> /\ ledger = << >>

-----------------------------------------------------------------------------
(* The answers of submit_order.                                            *)
Accepted(o) == [order_id |-> o, status |-> "Accepted"]
PartialFill(o, filled, remaining, infos) ==
  [order_id |-> o, status |-> "PartialFill", filled_quantity |-> filled,
   remaining_quantity |-> remaining, trades |-> infos]
Filled(o, filled, infos) ==
  [order_id |-> o, status |-> "Filled", filled_quantity |-> filled, trades |-> infos]

InvalidOrder(r) == [error |-> "InvalidOrder", reason |-> Refusal(r)]
InsufficientLiquidity(t) ==
  [error |-> "InsufficientLiquidity",
   available |-> Available(Own(t)), requested |-> Own(t).quantity]

(* Mutant: a partial fill reports the quantity asked for as remaining.     *)
SubmitAnswerOfRequest(t) ==
  LET r == Own(t)
      infos == ToTradeInfoList(result)
  IN  IF IsFilled(r, incoming) THEN Filled(work[t], incoming.filled, infos)
      ELSE IF incoming.filled > 0
           THEN PartialFill(work[t], incoming.filled, r.quantity, infos)
      ELSE Accepted(work[t])

(* process_limit_order's choice; a market order is always filled.          *)
SubmitAnswer(t) ==
  LET r == Own(t)
      infos == ToTradeInfoList(result)
  IN  IF IsFilled(r, incoming) THEN Filled(work[t], incoming.filled, infos)
      ELSE IF incoming.filled > 0
           THEN PartialFill(work[t], incoming.filled, RemainingQuantity(r, incoming), infos)
      ELSE Accepted(work[t])

(* cancel_order: what its check refuses, and what it says otherwise.       *)
OrderNotFound(o) == [error |-> "OrderNotFound", order_id |-> o]
CancelRefusal(o) ==
  IF orders[o].status = "Filled"
  THEN [error |-> "CannotCancelFilledOrder", order_id |-> o] ELSE OrderNotFound(o)
CancelAnswer(o) == [order_id |-> o, status |-> "Cancelled"]

(* to_status_response, of an order o made of request r and copy c.         *)
StatusResponse(o, r, c) ==
  r @@ [order_id |-> o, filled_quantity |-> c.filled,
        remaining_quantity |-> RemainingQuantity(r, c), status |-> c.status]

(* get_order, get_order_book and health_check.                             *)
GetOrder(o) ==
  IF orders[o] = Absent THEN OrderNotFound(o) ELSE StatusResponse(o, request[o], orders[o])
GetOrderBook(s, depth) ==
  [symbol |-> s, bids |-> SideResponse("Buy", levels[s]["Buy"], depth),
   asks |-> SideResponse("Sell", levels[s]["Sell"], depth)]
DefaultDepth == 10
HealthCheck == [status |-> "healthy", orders_processed |-> Cardinality(Received)]

(* IntoResponse, and the codes the handlers give.                          *)
StatusCode(answer) ==
  IF "error" \in DOMAIN answer
  THEN IF answer.error = "OrderNotFound" THEN 404 ELSE 400
  ELSE 200
SubmitStatusCode(answer) ==
  IF "error" \in DOMAIN answer THEN StatusCode(answer)
  ELSE CASE answer.status = "Accepted" -> 201
         [] answer.status = "PartialFill" -> 202
         [] answer.status = "Filled" -> 200

-----------------------------------------------------------------------------
(* Mutant: the one who comes is the buyer.                                 *)
NextTradeOfBuyer(t) ==
  LET r == Own(t)
      p == BestPrice(r)
      o == Head(QueueAt(Against(r), p))
  IN  NewTrade(r.symbol, p, FillQuantity(r, o), work[t], o, r.side)

(* The trade of the next turn of the loop of match_at_price_level.         *)
NextTrade(t) ==
  LET r == Own(t)
      p == BestPrice(r)
      o == Head(QueueAt(Against(r), p))
      Buyer == IF r.side = "Buy" THEN work[t] ELSE o
      Seller == IF r.side = "Buy" THEN o ELSE work[t]
  IN  NewTrade(r.symbol, p, FillQuantity(r, o), Buyer, Seller, r.side)

Match(t) ==
  /\ Trade(t)
  /\ result' = Append(result, NextTrade(t))
  /\ UNCHANGED ledger

(* Mutant: the trades of an order that rests are kept for later.           *)
TellWhenFilled(t) ==
  /\ ledger' = IF IsFilled(Own(t), incoming) THEN ledger \o result ELSE ledger
  /\ result' = << >>

(* Mutant: the trades are carried over into the next answer.               *)
TellAndKeep(t) == ledger' = ledger \o result /\ UNCHANGED result

(* An answer tells the trades of its submission.                           *)
Tell(t) == ledger' = ledger \o result /\ result' = << >>

(* A submission succeeds, is turned down, or panics and tells nothing.     *)
Succeed(t) == (StoreFilled(t) \/ StoreResting(t)) /\ Tell(t)
TurnDown(t) == RejectMarket(t) /\ UNCHANGED told
Panic(t) ==
  /\ PanicInSum(t) \/ PanicInAdd(t)
  /\ result' = << >>
  /\ UNCHANGED ledger

(* A cancellation is confirmed.                                            *)
Confirm(t) == CancelMark(t) /\ UNCHANGED told

(* The steps that tell nobody anything.                                    *)
Silent(t) ==
  /\ \/ StartMatching(t) \/ FinishLevel(t) \/ CountTrades(t)
     \/ CancelRemove(t) \/ CancelMissed(t)
  /\ UNCHANGED told

Serve(t) == Match(t) \/ Succeed(t) \/ TurnDown(t) \/ Panic(t) \/ Confirm(t) \/ Silent(t)

(* A request arrives.                                                      *)
Arrive(t) == (SubmitOrder(t) \/ CancelCheck(t) \/ Refuse(t)) /\ UNCHANGED told

ApiNext == \E t \in Tasks : Arrive(t) \/ Serve(t)

ApiSpec == ApiInit /\ [][ApiNext]_apiVars

-----------------------------------------------------------------------------
(* A result belongs to the submission that holds the lock, and has the     *)
(* trades that are counted at its end.                                     *)
ApiTypeOK ==
  /\ result \in Seq(TradeRecord) /\ ledger \in Seq(TradeRecord)
  /\ Unlocked => result = << >>
  /\ \A t \in Tasks : pc[t] = "match" => Len(result) = trades

(* The books balance: what a status query says an order has filled is the  *)
(* sum of the trades told of it, to whichever client, and the counter of   *)
(* trades counts the trades told; no panic, rejection or cancellation      *)
(* makes a trade that is told nowhere (engine.rs:132, 170, 298-361).       *)
Quantity(list) == [i \in DOMAIN list |-> list[i].quantity]
TradesOf(list, o) ==
  {i \in DOMAIN list : o \in {list[i].buyer_order_id, list[i].seller_order_id}}
Told(list, o) == SumFunctionOnSet(Quantity(list), TradesOf(list, o))
LedgerBalances ==
  Unlocked => /\ Len(ledger) = trade_count
              /\ \A o \in Created : Told(ledger, o) = orders[o].filled

(* A status query in the middle of a sweep, which reads `orders` without   *)
(* order_books, is late but never wrong: what it says an order has filled  *)
(* is no less than the trades told of it so far, and no more than those    *)
(* and the ones of the answer that is being made (engine.rs:353-361).      *)
StatusIsBetween ==
  \A o \in Created :
    /\ Told(ledger, o) <= orders[o].filled
    /\ orders[o].filled <= Told(ledger, o) + Told(result, o)

(* Every trade is between a buyer and a seller of its symbol, at the price *)
(* of the one who waited, which the other accepts; the prices one taker    *)
(* gets only become worse, and no other submission trades in between       *)
(* (engine.rs:310-325).                                                    *)
FairTrade(tr) ==
  LET buyer == request[tr.buyer_order_id]
      seller == request[tr.seller_order_id]
  IN  /\ buyer.side = "Buy" /\ seller.side = "Sell"
      /\ buyer.symbol = tr.symbol /\ seller.symbol = tr.symbol
      /\ tr.price = request[MakerOf(tr)].price
      /\ Crosses(request[TakerOf(tr)], tr.price)
FairSequence(list) ==
  \A i, j \in DOMAIN list : i < j /\ TakerOf(list[i]) = TakerOf(list[j]) =>
    /\ ~ Better(Opposite(list[i].taker_side), list[j].price, list[i].price)
    /\ \A k \in i .. j : TakerOf(list[k]) = TakerOf(list[i])
TradesAreFair ==
  LET all == ledger \o result
  IN  (\A i \in DOMAIN all : FairTrade(all[i])) /\ FairSequence(all)

(* Waiting orders are served in turn, as clients can tell from the trades: *)
(* once an order has traded while it waited, no order of its side with a   *)
(* price that is not better trades as a maker after it, until it waits no  *)
(* longer.  So a partially filled maker keeps its place in front of its    *)
(* level through every later submission and cancellation                   *)
(* (engine.rs:298-345).                                                    *)
InTurn(list) ==
  \A i, j \in DOMAIN list :
    /\ i < j /\ MakerOf(list[i]) # MakerOf(list[j])
    /\ list[i].symbol = list[j].symbol /\ list[i].taker_side = list[j].taker_side
    /\ ~ Better(Opposite(list[i].taker_side), list[j].price, list[i].price)
    => ~ Waiting(MakerOf(list[i]))
ServedInTurn == InTurn(ledger \o result)

(* What an answer says is what a status query says from then on: the kind  *)
(* of answer, which the code chooses by other fields than the stored       *)
(* status, the fill, the remainder and the trades agree, and the order     *)
(* waits in the book exactly if it is not filled; an order whose           *)
(* cancellation is confirmed waits nowhere (engine.rs:175-196, 418).       *)
TrueAnswers ==
  \A t \in Tasks, o \in Created :
    LET stored == orders'[o]
        answer == SubmitAnswer(t)
    IN  /\ Succeed(t) /\ o = work[t] =>
             /\ answer.status = stored.status
             /\ Waiting(o)' <=> answer.status # "Filled"
             /\ answer.status # "Accepted" =>
                  /\ answer.filled_quantity = stored.filled
                  /\ TotalFilledQuantity(answer.trades) = stored.filled
             /\ answer.status = "PartialFill" =>
                  answer.remaining_quantity = RemainingQuantity(request[o], stored)
        /\ Confirm(t) /\ o = work[t] =>
             stored.status = CancelAnswer(o).status /\ ~ Waiting(o)'
AnswersTellTheTruth == [][TrueAnswers]_apiVars

(* The depth view and the status queries agree: get_order_book, which      *)
(* shows the cached quantities, lists the best prices of the orders that   *)
(* are active, best first, with what those orders have left; an order      *)
(* whose cancellation is about to be marked has already left the view      *)
(* (book.rs:208-231, engine.rs:430-437).                                   *)
OpenOrders(s, side) ==
  {o \in Created : /\ request[o].symbol = s /\ request[o].side = side
                   /\ orders[o].status \in Active
                   /\ ~ \E t \in Tasks : pc[t] = "mark" /\ work[t] = o}
Shows(infos, s, side, depth) ==
  LET open == OpenOrders(s, side)
      openPrices == {request[o].price : o \in open}
      shown == {infos[i].price : i \in DOMAIN infos}
      Left(o) == RemainingQuantity(request[o], orders[o])
  IN  /\ Len(infos) = Min({depth, Cardinality(openPrices)})
      /\ shown \subseteq openPrices
      /\ \A i, j \in DOMAIN infos : i < j => Better(side, infos[i].price, infos[j].price)
      /\ \A p \in shown, q \in openPrices \ shown : Better(side, p, q)
      /\ \A i \in DOMAIN infos : infos[i].quantity =
           MapThenSumSet(Left, {o \in open : request[o].price = infos[i].price})
BookResponseShowsOpenOrders ==
  Unlocked => \A s \in Symbols, depth \in 0 .. Cardinality(Prices) :
    LET book == GetOrderBook(s, depth)
    IN  Shows(book.bids, s, "Buy", depth) /\ Shows(book.asks, s, "Sell", depth)
=============================================================================
