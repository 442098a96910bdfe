------------------------------ MODULE ApiProofs ------------------------------
(***************************************************************************)
(* Proofs about what clients are told, for any number of clients: an       *)
(* answer has the trades of its own submission, and every trade is fair.   *)
(***************************************************************************)
EXTENDS Api, RefinementProofs

(* The trades that two created orders may make, as both of them allow.     *)
FairTrades ==
  {tr \in TradeRecord :
     tr.buyer_order_id \in Created /\ tr.seller_order_id \in Created /\ FairTrade(tr)}

(* What was told was made by stored orders, one after the other.           *)
LedgerInv ==
  /\ ledger \in Seq(TradeRecord)
  /\ \A i \in DOMAIN ledger :
       ledger[i] \in FairTrades /\ orders[TakerOf(ledger[i])] # Absent
  /\ FairSequence(ledger)

(* What is still to be told was made by the order that is being matched,   *)
(* each time at a price not better than before; and no price that it has   *)
(* still to visit is better.                                               *)
ResultInv ==
  /\ result \in Seq(TradeRecord)
  /\ \A i \in DOMAIN result : result[i] \in FairTrades
  /\ \A i, j \in DOMAIN result :
       i < j => ~ Better(Opposite(result[i].taker_side), result[j].price, result[i].price)
  /\ (\A t \in Tasks : pc[t] \notin {"match", "store"}) => result = << >>
  /\ (\A t \in Tasks : pc[t] # "match") => trades = 0
  /\ \A t \in Tasks : pc[t] \in {"match", "store"} =>
       \A i \in DOMAIN result :
         result[i].taker_side = Own(t).side /\ TakerOf(result[i]) = work[t]
  /\ \A t \in Tasks : pc[t] = "match" =>
       /\ Len(result) = trades
       /\ \A i \in DOMAIN result, q \in prices :
            ~ Better(Opposite(Own(t).side), q, result[i].price)

ToldInv == LedgerInv /\ ResultInv

-----------------------------------------------------------------------------
(* The engine with its answers is the engine.                              *)
LEMMA ApiWithin ==
  ASSUME [ApiNext]_apiVars
  PROVE  [Next]_vars
BY DEF ApiNext, apiVars, Arrive, Serve, Match, Succeed, TurnDown, Panic, Confirm, Silent,
  Next, Acquire, Proceed

(* Requests are never changed.                                             *)
LEMMA RequestsStay ==
  ASSUME TypeOK, [Next]_vars
  PROVE  \A o \in Created : o \in Created' /\ request'[o] = request[o]
<1>1. request' = request \/ \E r \in Request : request' = Append(request, r)
  BY DEF Next, Refuse, SubmitOrder, CancelCheck, Acquire, StartMatching, RejectMarket,
    PanicInSum, CancelRemove, CancelMissed, Proceed, Trade, FinishLevel, CountTrades,
    StoreFilled, StoreResting, PanicInAdd, CancelMark, vars
<1> QED BY <1>1 DEF Created, TypeOK

(* What is stored stays stored.                                            *)
LEMMA StoredStays ==
  ASSUME IInv, [Next]_vars, NEW o \in Ids, orders[o] # Absent
  PROVE  orders'[o] # Absent
<1>1. TypeOK /\ orders \in [Ids -> Copy] /\ orders[o] \in Copy /\ filled_qty[o] \in Nat
  BY CopyType DEF IInv, TypeInv, TypeOK
<1>2. CASE orders' = orders
  BY <1>2
<1>3. ASSUME NEW t \in Tasks, StoreFilled(t) \/ StoreResting(t)
      PROVE  orders'[o] # Absent
  <2>1. pc[t] = "store" /\ orders' = [orders EXCEPT ![work[t]] = incoming]
    BY <1>3 DEF StoreFilled, StoreResting, StoreOrder
  <2>2. orders[work[t]] = Absent
    BY <2>1 DEF IInv, TasksInv, Submitting
  <2> QED BY <1>1, <2>1, <2>2
<1>4. ASSUME NEW t \in Tasks, FinishLevel(t)
      PROVE  orders'[o] # Absent
  <2>1. \/ orders'[o] = orders[o]
        \/ filled_qty[o] > 0 /\ orders'[o] = Fill(request[o], orders[o], filled_qty[o])
    BY <1>1, <1>4 DEF FinishLevel, StoreFills
  <2>2. filled_qty[o] > 0 => request[o] \in Request
    BY CreatedType DEF IInv, TypeInv, PendingInv
  <2> QED BY <1>1, <2>1, <2>2, FillEffect DEF Absent
<1>5. ASSUME NEW t \in Tasks, CancelMark(t)
      PROVE  orders'[o] # Absent
  <2>1. orders' = [orders EXCEPT ![work[t]] = Cancel(orders[work[t]])]
    BY <1>5 DEF CancelMark
  <2>2. Cancel(orders[o]) # Absent
    BY <1>1 DEF Cancel, Absent, Copy
  <2> QED BY <1>1, <2>1, <2>2
<1>6. orders' = orders \/ \E t \in Tasks : StoreFilled(t) \/ StoreResting(t)
                                           \/ FinishLevel(t) \/ CancelMark(t)
  BY DEF Next, Refuse, SubmitOrder, CancelCheck, Acquire, StartMatching, RejectMarket,
    PanicInSum, CancelRemove, CancelMissed, Proceed, Trade, CountTrades, PanicInAdd, vars
<1> QED BY <1>2, <1>3, <1>4, <1>5, <1>6

(* A fair trade stays fair.                                                *)
LEMMA FairStays ==
  ASSUME TypeOK, [Next]_vars
  PROVE  FairTrades \subseteq FairTrades'
<1>1. ASSUME NEW tr \in FairTrades
      PROVE  tr \in FairTrades'
  <2>1. /\ tr.buyer_order_id \in Created /\ tr.seller_order_id \in Created
        /\ MakerOf(tr) \in Created /\ TakerOf(tr) \in Created
    BY DEF FairTrades, MakerOf, TakerOf
  <2> QED BY <2>1, RequestsStay DEF FairTrades, FairTrade
<1> QED BY <1>1

(* The elements of two sequences in one.                                   *)
LEMMA Elements ==
  ASSUME NEW S, NEW l \in Seq(S), NEW r \in Seq(S), NEW i \in DOMAIN (l \o r)
  PROVE  \/ \E k \in DOMAIN l : (l \o r)[i] = l[k]
         \/ \E k \in DOMAIN r : (l \o r)[i] = r[k]
<1>1. /\ DOMAIN l = 1 .. Len(l) /\ DOMAIN r = 1 .. Len(r) /\ Len(l) \in Nat /\ Len(r) \in Nat
      /\ DOMAIN (l \o r) = 1 .. Len(l) + Len(r)
      /\ \A k \in 1 .. Len(l) : (l \o r)[k] = l[k]
      /\ \A k \in Len(l) + 1 .. Len(l) + Len(r) :
           k - Len(l) \in 1 .. Len(r) /\ (l \o r)[k] = r[k - Len(l)]
  OBVIOUS
<1>2. i \in 1 .. Len(l) \/ i \in Len(l) + 1 .. Len(l) + Len(r)
  BY <1>1
<1> QED BY <1>1, <1>2

(* The trades of one taker after those of others.                          *)
LEMMA Joined ==
  ASSUME NEW l \in Seq(TradeRecord), NEW r \in Seq(TradeRecord), FairSequence(l),
         \A i, j \in DOMAIN r :
           /\ TakerOf(r[i]) = TakerOf(r[j])
           /\ i < j => ~ Better(Opposite(r[i].taker_side), r[j].price, r[i].price),
         \A i \in DOMAIN l, j \in DOMAIN r : TakerOf(l[i]) # TakerOf(r[j])
  PROVE  FairSequence(l \o r)
<1> DEFINE all == l \o r
<1>1. /\ DOMAIN l = 1 .. Len(l) /\ DOMAIN r = 1 .. Len(r) /\ Len(l) \in Nat /\ Len(r) \in Nat
      /\ DOMAIN all = 1 .. Len(l) + Len(r)
      /\ \A i \in 1 .. Len(l) : all[i] = l[i]
      /\ \A i \in Len(l) + 1 .. Len(l) + Len(r) :
           i - Len(l) \in 1 .. Len(r) /\ all[i] = r[i - Len(l)]
  OBVIOUS
<1> HIDE DEF all
<1>2. ASSUME NEW i \in DOMAIN all, NEW j \in DOMAIN all, i < j, TakerOf(all[i]) = TakerOf(all[j])
      PROVE  /\ ~ Better(Opposite(all[i].taker_side), all[j].price, all[i].price)
             /\ \A k \in i .. j : TakerOf(all[k]) = TakerOf(all[i])
  <2>1. CASE j \in 1 .. Len(l)
    <3>1. i \in DOMAIN l /\ j \in DOMAIN l /\ \A k \in i .. j : k \in DOMAIN l
      BY <1>1, <1>2, <2>1
    <3> QED BY <1>1, <1>2, <3>1 DEF FairSequence
  <2>2. CASE i \in Len(l) + 1 .. Len(l) + Len(r)
    <3>1. /\ i - Len(l) \in DOMAIN r /\ j - Len(l) \in DOMAIN r /\ i - Len(l) < j - Len(l)
          /\ \A k \in i .. j : k - Len(l) \in DOMAIN r
          /\ \A k \in i .. j : all[k] = r[k - Len(l)]
          /\ i \in i .. j /\ j \in i .. j
      BY <1>1, <1>2, <2>2
    <3> QED BY <3>1
  <2>3. CASE i \in 1 .. Len(l) /\ j \in Len(l) + 1 .. Len(l) + Len(r)
    BY <1>1, <1>2, <2>3
  <2> QED BY <1>1, <1>2, <2>1, <2>2, <2>3
<1> QED BY <1>2 DEF FairSequence, all

-----------------------------------------------------------------------------
(* A step that says nothing, makes no trade, and leaves each submission    *)
(* that is under way with its order.                                       *)
LEMMA SameResult ==
  ASSUME TypeOK, [Next]_vars, ResultInv,
         result' = result, trades' = trades, prices' \subseteq prices,
         \A u \in Tasks :
           /\ pc'[u] \in {"match", "store"} <=> pc[u] \in {"match", "store"}
           /\ pc'[u] = "match" <=> pc[u] = "match"
           /\ pc[u] \in {"match", "store"} => work'[u] = work[u]
  PROVE  ResultInv'
<1>1. \A i \in DOMAIN result : result[i] \in FairTrades'
  BY FairStays DEF ResultInv
<1>2. \A u \in Tasks : pc[u] \in {"match", "store"} => Own(u)' = Own(u) /\ work'[u] = work[u]
  BY OwnType, RequestsStay DEF Own
<1> QED BY <1>1, <1>2 DEF ResultInv

(* After the last word of a submission nothing is left to say.             *)
LEMMA NothingToTell ==
  ASSUME result' = << >>, trades' = 0, \A u \in Tasks : pc'[u] \notin {"match", "store"}
  PROVE  ResultInv'
BY DEF ResultInv

(* What was told stays told.                                               *)
LEMMA SameLedger ==
  ASSUME IInv, [Next]_vars, LedgerInv, ledger' = ledger
  PROVE  LedgerInv'
<1>1. TypeOK /\ \A i \in DOMAIN ledger : TakerOf(ledger[i]) \in Ids
  <2>1. TypeOK /\ Created \subseteq Ids
    BY CreatedType DEF IInv, TypeInv
  <2>2. \A i \in DOMAIN ledger : TakerOf(ledger[i]) \in Created
    BY DEF LedgerInv, FairTrades, TakerOf
  <2> QED BY <2>1, <2>2
<1>2. \A i \in DOMAIN ledger :
        ledger[i] \in FairTrades' /\ orders'[TakerOf(ledger[i])] # Absent
  BY <1>1, FairStays, StoredStays DEF LedgerInv
<1> QED BY <1>2 DEF LedgerInv, FairSequence

(* The next trade is fair, at the best price there is.                     *)
LEMMA NextTradeFair ==
  ASSUME IInv, CrossingInv, NEW t \in Tasks, Trade(t)
  PROVE  /\ NextTrade(t) \in FairTrades
         /\ NextTrade(t).taker_side = Own(t).side
         /\ TakerOf(NextTrade(t)) = work[t]
         /\ NextTrade(t).price = BestPrice(Own(t))
         /\ NextTrade(t).symbol = Own(t).symbol
         /\ MakerOf(NextTrade(t)) = Head(Line(Own(t).symbol, Opposite(Own(t).side), BestPrice(Own(t))))
<1>1. /\ pc[t] = "match" /\ prices # {} /\ TypeOK
      /\ work[t] \in Created /\ work[t] \in Nat /\ Own(t) = request[work[t]]
      /\ Own(t) \in Request
  BY OwnType DEF Trade, IInv, TypeInv, Own
<1>2. PICK s0 \in Symbols, d0 \in Sides, p \in Prices, o \in WaitingOrders, n \in Nat,
           popped \in BOOLEAN : TradeFills(t, s0, d0, p, o, n, popped)
  BY TradeEffect
<1>3. /\ s0 = Own(t).symbol /\ d0 = Opposite(Own(t).side) /\ p = BestPrice(Own(t))
      /\ Line(s0, d0, p) # << >> /\ o = Head(Line(s0, d0, p))
      /\ n = FillQuantity(Own(t), o) /\ n > 0 /\ incoming.filled + n <= Own(t).quantity
  BY <1>2 DEF TradeFills
<1>4. /\ o \in Created /\ o \in Nat /\ request[o].symbol = s0 /\ request[o].side = d0
      /\ request[o].price = p
  <2>1. Line(s0, d0, p) \in Seq(Nat) /\ IsInjective(Line(s0, d0, p))
    BY <1>1, LevelType DEF IInv, LinesInv, TypeOK, LevelsOK, Line
  <2>2. o \in ToSet(Line(s0, d0, p))
    BY <1>3, <2>1, TailSet
  <2>3. o \in Created /\ o \in Nat
    BY <1>1, CreatedType DEF WaitingOrders
  <2> QED BY <2>2, <2>3 DEF IInv, LinesInv
<1>5. n \in 1 .. U64Max
  <2>1. Own(t).quantity \in 1 .. U64Max /\ incoming.filled \in Nat
    BY <1>1, RequestType DEF TypeOK, Copy
  <2> QED BY <1>3, <2>1, DomainAssumption DEF DomainAssumption
<1>6. Crosses(Own(t), p)
  BY <1>1, <1>3, BestExists DEF CrossingInv, SweepInv
<1>7. o = Head(QueueAt(Against(Own(t)), p))
  BY <1>3 DEF Line, Against
<1>8. PICK tr : tr = NextTrade(t)
  OBVIOUS
<1>9. /\ tr.symbol = s0 /\ tr.price = p /\ tr.quantity = n /\ tr.taker_side = Own(t).side
      /\ Own(t).side = "Buy" => tr.buyer_order_id = work[t] /\ tr.seller_order_id = o
      /\ Own(t).side = "Sell" => tr.buyer_order_id = o /\ tr.seller_order_id = work[t]
  BY <1>3, <1>7, <1>8 DEF NextTrade, NewTrade
<1>10. Own(t).side \in {"Buy", "Sell"}
  BY <1>1, RequestType DEF Sides
<1>11. tr \in TradeRecord
  <2>1. /\ s0 \in Symbols /\ p \in Prices /\ Own(t).side \in Sides
        /\ (IF Own(t).side = "Buy" THEN work[t] ELSE o) \in Nat
        /\ (IF Own(t).side = "Buy" THEN o ELSE work[t]) \in Nat
    BY <1>1, <1>4, RequestType
  <2> QED BY <1>3, <1>5, <1>7, <1>8, <2>1 DEF NextTrade, NewTrade, TradeRecord
<1>12. TakerOf(tr) = work[t] /\ MakerOf(tr) = o
  BY <1>9, <1>10 DEF TakerOf, MakerOf
<1>13. FairTrade(tr)
  BY <1>1, <1>3, <1>4, <1>6, <1>9, <1>10, <1>12 DEF FairTrade, Opposite
<1>14. tr \in FairTrades
  BY <1>1, <1>4, <1>9, <1>10, <1>11, <1>13 DEF FairTrades
<1> QED BY <1>3, <1>8, <1>9, <1>12, <1>14

(* A trade is not at a better price than those before it.                  *)
LEMMA MatchTold ==
  ASSUME IInv, IInv', CrossingInv, ToldInv, NEW t \in Tasks, Match(t), [Next]_vars
  PROVE  ToldInv'
<1>1. /\ Trade(t) /\ result' = Append(result, NextTrade(t)) /\ ledger' = ledger
      /\ UNCHANGED <<request, prices, pc, work>> /\ trades' = trades + 1
      /\ pc[t] = "match" /\ prices # {} /\ TypeOK
  BY DEF Match, Trade, IInv, TypeInv
<1>2. PICK tr : tr = NextTrade(t)
  OBVIOUS
<1>3. /\ tr \in FairTrades /\ tr \in TradeRecord /\ tr.taker_side = Own(t).side
      /\ TakerOf(tr) = work[t] /\ tr.price = BestPrice(Own(t))
  BY <1>1, <1>2, NextTradeFair DEF FairTrades
<1>4. /\ tr.price \in prices
      /\ \A q \in prices : ~ Better(Opposite(Own(t).side), q, tr.price)
  <2>1. /\ BestPrice(Own(t)) \in prices
        /\ \A q \in prices : IF Own(t).side = "Buy" THEN BestPrice(Own(t)) <= q
                                                    ELSE BestPrice(Own(t)) >= q
    BY <1>1, OwnType, BestExists
  <2>2. \A q \in prices : q \in Nat
    BY <1>1, DomainAssumption DEF TypeOK, DomainAssumption
  <2> QED BY <1>3, <2>1, <2>2 DEF Better, Opposite
<1>5. /\ result \in Seq(TradeRecord) /\ DOMAIN result = 1 .. Len(result) /\ Len(result) \in Nat
      /\ result' \in Seq(TradeRecord) /\ DOMAIN result' = 1 .. Len(result) + 1
      /\ Len(result') = Len(result) + 1
      /\ \A i \in 1 .. Len(result) : result'[i] = result[i]
      /\ result'[Len(result) + 1] = tr
  BY <1>1, <1>2, <1>3 DEF ToldInv, ResultInv
<1>6. \A u \in Tasks : pc[u] \in {"match", "store"} => u = t
  BY <1>1, OneHolder
<1>7. /\ \A i \in DOMAIN result : result[i].taker_side = Own(t).side /\ TakerOf(result[i]) = work[t]
      /\ \A i \in DOMAIN result, q \in prices :
           ~ Better(Opposite(Own(t).side), q, result[i].price)
      /\ Len(result) = trades
  BY <1>1 DEF ToldInv, ResultInv
<1>8. \A i \in DOMAIN result' : result'[i] \in FairTrades'
  <2>1. \A i \in DOMAIN result' : result'[i] \in FairTrades
    BY <1>3, <1>5 DEF ToldInv, ResultInv
  <2> QED BY <1>1, <2>1, FairStays
<1>9. ASSUME NEW i \in DOMAIN result', NEW j \in DOMAIN result', i < j
      PROVE  ~ Better(Opposite(result'[i].taker_side), result'[j].price, result'[i].price)
  <2>1. i \in DOMAIN result /\ result'[i] = result[i] /\ result[i].taker_side = Own(t).side
    BY <1>5, <1>7, <1>9
  <2>2. CASE j \in DOMAIN result
    BY <1>5, <1>9, <2>1, <2>2 DEF ToldInv, ResultInv
  <2>3. CASE j = Len(result) + 1
    BY <1>4, <1>5, <1>7, <2>1, <2>3
  <2> QED BY <1>5, <2>2, <2>3
<1>10. \A i \in DOMAIN result' :
         /\ result'[i].taker_side = Own(t).side /\ TakerOf(result'[i]) = work[t]
         /\ \A q \in prices : ~ Better(Opposite(Own(t).side), q, result'[i].price)
  BY <1>3, <1>4, <1>5, <1>7
<1>11. ResultInv'
  <2>1. Own(t)' = Own(t) /\ work'[t] = work[t]
    BY <1>1 DEF Own
  <2>2. Len(result') = trades'
    BY <1>1, <1>5, <1>7
  <2> QED BY <1>1, <1>5, <1>6, <1>8, <1>9, <1>10, <2>1, <2>2 DEF ResultInv
<1> QED BY <1>1, <1>11, SameLedger DEF ToldInv

(* An answer tells the trades of an order that is stored by then, and that *)
(* nobody told of before.                                                  *)
LEMMA SucceedTold ==
  ASSUME IInv, IInv', ToldInv, NEW t \in Tasks, Succeed(t), [Next]_vars
  PROVE  ToldInv'
<1>1. /\ pc[t] = "store" /\ Release(t) /\ UNCHANGED <<request, trades>>
      /\ orders' = [orders EXCEPT ![work[t]] = incoming]
      /\ result' = << >> /\ ledger' = ledger \o result /\ TypeOK
  BY DEF Succeed, Tell, StoreFilled, StoreResting, StoreOrder, IInv, TypeInv
<1>2. /\ orders[work[t]] = Absent /\ work[t] \in Ids
      /\ \A u \in Tasks \ {t} : pc[u] \notin {"match", "store"}
  BY <1>1, Storing
<1>3. incoming # Absent
  BY <1>1 DEF IInv, IncomingInv, StatusOf, Absent
<1>4. orders'[work[t]] # Absent
  BY <1>1, <1>2, <1>3 DEF TypeOK
<1>5. ResultInv'
  <2>1. \A u \in Tasks : pc'[u] \notin {"match", "store"}
    BY <1>1, <1>2, Released
  <2>2. trades' = 0
    BY <1>1, <1>2 DEF ToldInv, ResultInv
  <2> QED BY <1>1, <2>1, <2>2, NothingToTell
<1>6. /\ ledger \in Seq(TradeRecord) /\ result \in Seq(TradeRecord)
      /\ \A i \in DOMAIN ledger : ledger[i] \in FairTrades /\ orders[TakerOf(ledger[i])] # Absent
      /\ FairSequence(ledger)
      /\ \A i \in DOMAIN result : result[i] \in FairTrades /\ TakerOf(result[i]) = work[t]
      /\ \A i, j \in DOMAIN result : i < j =>
           ~ Better(Opposite(result[i].taker_side), result[j].price, result[i].price)
  BY <1>1 DEF ToldInv, LedgerInv, ResultInv
<1>7. FairSequence(ledger')
  BY <1>1, <1>2, <1>6, Joined
<1>8. ASSUME NEW i \in DOMAIN ledger'
      PROVE  ledger'[i] \in FairTrades /\ orders'[TakerOf(ledger'[i])] # Absent
  <2>1. \/ \E k \in DOMAIN ledger : ledger'[i] = ledger[k]
        \/ \E k \in DOMAIN result : ledger'[i] = result[k]
    BY <1>1, <1>6, Elements
  <2>2. \A k \in DOMAIN ledger : TakerOf(ledger[k]) \in Ids
    <3>1. \A k \in DOMAIN ledger : TakerOf(ledger[k]) \in Created
      BY <1>6 DEF FairTrades, TakerOf
    <3> QED BY <1>1, <3>1, CreatedType
  <2> QED BY <1>4, <1>6, <2>1, <2>2, StoredStays
<1>9. \A i \in DOMAIN ledger' : ledger'[i] \in FairTrades'
  BY <1>1, <1>8, FairStays
<1>10. ledger' \in Seq(TradeRecord)
  BY <1>1, <1>6
<1>11. LedgerInv'
  <2>1. FairSequence(ledger)'
    BY <1>7 DEF FairSequence, TakerOf
  <2> QED BY <1>8, <1>9, <1>10, <2>1 DEF LedgerInv, TakerOf
<1> QED BY <1>5, <1>11 DEF ToldInv

(* Nothing is told by the steps of an answer without trades.               *)
LEMMA QuietTold ==
  ASSUME IInv, IInv', ToldInv, NEW t \in Tasks, [Next]_vars,
         TurnDown(t) \/ Panic(t) \/ Confirm(t) \/ Silent(t) \/ Arrive(t)
  PROVE  ToldInv'
<1>1. TypeOK /\ ledger' = ledger
  BY DEF TurnDown, Panic, Confirm, Silent, Arrive, told, IInv, TypeInv
<1>2. CASE SubmitOrder(t) \/ CancelCheck(t) \/ RejectMarket(t) \/ PanicInSum(t)
           \/ CancelRemove(t) \/ CancelMissed(t) \/ CancelMark(t)
  <2>1. /\ UNCHANGED <<trades, prices>> /\ pc[t] \notin {"match", "store"}
        /\ \E place \in {"idle", "submit", "remove", "mark"} : pc' = [pc EXCEPT ![t] = place]
        /\ work' = work \/ \E m : work' = [work EXCEPT ![t] = m]
    BY <1>2 DEF SubmitOrder, CancelCheck, RejectMarket, PanicInSum, CancelRemove, CancelMissed,
      CancelMark, Return, Goto, locals
  <2>2. \A u \in Tasks : /\ pc'[u] \in {"match", "store"} <=> pc[u] \in {"match", "store"}
                         /\ pc'[u] = "match" <=> pc[u] = "match"
                         /\ pc[u] \in {"match", "store"} => work'[u] = work[u]
    BY <1>1, <2>1 DEF TypeOK
  <2>3. result' = result
    <3>1. CASE UNCHANGED result
      BY <3>1
    <3>2. CASE Panic(t)
      <4>1. \A u \in Tasks : pc[u] \notin {"match", "store"}
        <5>1. writer = NoTask
          BY <1>2, <2>1, <3>2 DEF Panic, PanicInSum, PanicInAdd
        <5> QED BY <5>1, NoHolder
      <4> QED BY <3>2, <4>1 DEF Panic, ToldInv, ResultInv
    <3> QED BY <3>1, <3>2 DEF TurnDown, Confirm, Silent, Arrive, told
  <2>4. ResultInv'
    BY <1>1, <2>1, <2>2, <2>3, SameResult DEF ToldInv
  <2> QED BY <1>1, <2>4, SameLedger DEF ToldInv
<1>3. CASE StartMatching(t)
  <2>1. /\ UNCHANGED <<trades, work>> /\ pc' = [pc EXCEPT ![t] = "match"] /\ writer = NoTask
        /\ pc[t] = "submit"
    BY <1>3 DEF StartMatching, Goto
  <2>2. \A u \in Tasks : pc[u] \notin {"match", "store"}
    BY <2>1, NoHolder
  <2>3. result = << >> /\ trades = 0
    BY <2>2 DEF ToldInv, ResultInv
  <2>4. result' = << >>
    BY <2>1, <2>3 DEF TurnDown, Panic, Confirm, Silent, Arrive, told
  <2>5. \E u \in Tasks : pc'[u] = "match"
    BY <1>1, <2>1 DEF TypeOK
  <2>6. ResultInv'
    BY <2>1, <2>3, <2>4, <2>5 DEF ResultInv
  <2> QED BY <1>1, <2>6, SameLedger DEF ToldInv
<1>4. CASE FinishLevel(t)
  <2>1. UNCHANGED <<trades, pc, work>> /\ prices' \subseteq prices /\ pc[t] = "match"
    BY <1>4 DEF FinishLevel
  <2>2. result' = result
    <3>1. ~ PanicInSum(t) /\ ~ PanicInAdd(t)
      BY <2>1 DEF PanicInSum, PanicInAdd
    <3> QED BY <3>1 DEF TurnDown, Panic, Confirm, Silent, Arrive, told
  <2>3. ResultInv'
    BY <1>1, <2>1, <2>2, SameResult DEF ToldInv
  <2> QED BY <1>1, <2>3, SameLedger DEF ToldInv
<1>5. CASE CountTrades(t)
  <2>1. /\ UNCHANGED <<request, work>> /\ trades' = 0 /\ prices' = {}
        /\ pc' = [pc EXCEPT ![t] = "store"] /\ pc[t] = "match"
    BY <1>5 DEF CountTrades, Goto
  <2>2. result' = result
    <3>1. ~ PanicInSum(t) /\ ~ PanicInAdd(t)
      BY <2>1 DEF PanicInSum, PanicInAdd
    <3> QED BY <3>1 DEF TurnDown, Panic, Confirm, Silent, Arrive, told
  <2>3. \A u \in Tasks \ {t} : pc'[u] = pc[u] /\ pc[u] \notin {"match", "store"}
    BY <1>1, <2>1, OneHolder DEF TypeOK
  <2>4. pc'[t] = "store"
    BY <1>1, <2>1 DEF TypeOK
  <2>5. \A i \in DOMAIN result : result[i] \in FairTrades'
    BY <1>1, FairStays DEF ToldInv, ResultInv
  <2>6. Own(t)' = Own(t)
    BY <2>1 DEF Own
  <2>7. ResultInv'
    BY <2>1, <2>2, <2>3, <2>4, <2>5, <2>6 DEF ToldInv, ResultInv
  <2> QED BY <1>1, <2>7, SameLedger DEF ToldInv
<1>6. CASE PanicInAdd(t)
  <2>1. pc[t] = "store" /\ Release(t) /\ UNCHANGED <<request, trades>>
    BY <1>6 DEF PanicInAdd
  <2>2. \A u \in Tasks \ {t} : pc[u] \notin {"match", "store"}
    BY <2>1, Storing
  <2>3. \A u \in Tasks : pc'[u] \notin {"match", "store"}
    BY <2>1, <2>2, Released
  <2>4. trades' = 0
    BY <2>1, <2>2 DEF ToldInv, ResultInv
  <2>5. result' = << >>
    <3>1. Panic(t)
      BY <2>1 DEF TurnDown, RejectMarket, Panic, Confirm, CancelMark, Silent, StartMatching,
        FinishLevel, CountTrades, CancelRemove, CancelMissed, Arrive, SubmitOrder, CancelCheck,
        Refuse
    <3> QED BY <3>1 DEF Panic
  <2>6. ResultInv'
    BY <2>3, <2>4, <2>5, NothingToTell
  <2> QED BY <1>1, <2>6, SameLedger DEF ToldInv
<1>7. CASE Refuse(t) /\ UNCHANGED told
  <2>1. UNCHANGED <<vars, result, ledger>>
    BY <1>7 DEF Refuse, told
  <2>2. ResultInv'
    BY <1>1, <2>1, SameResult DEF vars, locals, ToldInv
  <2> QED BY <1>1, <2>2, SameLedger DEF ToldInv
<1> QED BY <1>2, <1>3, <1>4, <1>5, <1>6, <1>7 DEF TurnDown, Panic, Confirm, Silent, Arrive

-----------------------------------------------------------------------------
(* At first nothing is told.                                               *)
LEMMA InitTold ==
  ASSUME ApiInit
  PROVE  ToldInv
<1>1. /\ result = << >> /\ ledger = << >> /\ trades = 0
      /\ \A t \in Tasks : pc[t] = "idle"
  BY DEF ApiInit, Init
<1> QED BY <1>1 DEF ToldInv, LedgerInv, ResultInv, FairSequence

(* Every step tells the truth about trades.                                *)
LEMMA NextTold ==
  ASSUME IInv, IInv', CrossingInv, ToldInv, [ApiNext]_apiVars
  PROVE  ToldInv'
<1>1. [Next]_vars
  BY ApiWithin
<1>2. CASE UNCHANGED apiVars
  <2>1. UNCHANGED <<vars, result, ledger>>
    BY <1>2 DEF apiVars, told
  <2>2. ResultInv'
    BY <1>1, <2>1, SameResult DEF vars, locals, ToldInv, IInv, TypeInv
  <2> QED BY <1>1, <2>1, <2>2, SameLedger DEF ToldInv
<1> QED BY <1>1, <1>2, MatchTold, SucceedTold, QuietTold DEF ApiNext, Serve

(* The engine with its answers behaves as the engine, so what is proved of *)
(* the engine holds for its clients.                                       *)
LEMMA EngineUnderApi == ApiSpec => Spec
<1>1. ApiInit => Init
  BY DEF ApiInit
<1>2. [ApiNext]_apiVars => [Next]_vars
  BY ApiWithin
<1> QED BY <1>1, <1>2, PTL DEF ApiSpec, Spec

(* The inductive invariant of the answers.                                 *)
THEOREM Telling == ApiSpec => []ToldInv
<1>1. ApiInit => ToldInv
  BY InitTold
<1>2. IInv /\ IInv' /\ CrossingInv /\ ToldInv /\ [ApiNext]_apiVars => ToldInv'
  BY NextTold
<1> QED BY <1>1, <1>2, EngineUnderApi, Invariance, Crossing, PTL DEF ApiSpec

(* A result has the trades of the submission that holds the lock, all of   *)
(* them, and nobody else's (engine.rs:121-123, 170).                       *)
THEOREM ResultsBelong == ApiSpec => []ApiTypeOK
<1>1. ASSUME IInv, ToldInv  PROVE ApiTypeOK
  <2>1. Unlocked => \A t \in Tasks : pc[t] \notin {"match", "store"}
    BY <1>1, NoHolder DEF Unlocked
  <2> QED BY <1>1, <2>1 DEF ApiTypeOK, ToldInv, LedgerInv, ResultInv
<1> QED BY <1>1, Telling, EngineUnderApi, Invariance, PTL

(* Whoever trades, and however many submissions come at once: every trade  *)
(* is between a buyer and a seller at a price both accept, one taker's     *)
(* trades come one after the other, and their prices only become worse     *)
(* (engine.rs:310-325).                                                    *)
THEOREM FairTrading == ApiSpec => []TradesAreFair
<1>1. ASSUME IInv, ToldInv  PROVE TradesAreFair
  <2>1. /\ ledger \in Seq(TradeRecord) /\ result \in Seq(TradeRecord)
        /\ \A i \in DOMAIN ledger : FairTrade(ledger[i])
        /\ \A i \in DOMAIN result : FairTrade(result[i])
        /\ FairSequence(ledger)
    BY <1>1 DEF ToldInv, LedgerInv, ResultInv, FairTrades
  <2>2. CASE \A t \in Tasks : pc[t] \notin {"match", "store"}
    <3>1. ledger \o result = ledger
      BY <1>1, <2>1, <2>2 DEF ToldInv, ResultInv
    <3> QED BY <2>1, <3>1 DEF TradesAreFair
  <2>3. CASE \E t \in Tasks : pc[t] \in {"match", "store"}
    <3>1. PICK t \in Tasks : pc[t] \in {"match", "store"}
      BY <2>3
    <3>2. orders[work[t]] = Absent
      BY <1>1, <3>1 DEF IInv, TasksInv, Submitting
    <3>3. /\ \A i \in DOMAIN result : TakerOf(result[i]) = work[t]
          /\ \A i \in DOMAIN ledger : orders[TakerOf(ledger[i])] # Absent
          /\ \A i, j \in DOMAIN result : i < j =>
               ~ Better(Opposite(result[i].taker_side), result[j].price, result[i].price)
      BY <1>1, <3>1 DEF ToldInv, LedgerInv, ResultInv
    <3>4. FairSequence(ledger \o result)
      BY <2>1, <3>2, <3>3, Joined
    <3>5. \A i \in DOMAIN (ledger \o result) :
            \/ \E k \in DOMAIN ledger : (ledger \o result)[i] = ledger[k]
            \/ \E k \in DOMAIN result : (ledger \o result)[i] = result[k]
      BY <2>1, Elements
    <3> QED BY <2>1, <3>4, <3>5 DEF TradesAreFair
  <2> QED BY <2>2, <2>3
<1> QED BY <1>1, Telling, EngineUnderApi, Invariance, PTL
-----------------------------------------------------------------------------
(* The quantities of trades.                                               *)
Total(list) == SumFunctionOnSet(Quantity(list), DOMAIN list)

(* What is told and still to be told of an order is what it has traded.    *)
BalanceInv ==
  /\ Len(ledger) + Len(result) = trade_count + trades
  /\ \A o \in Created : FilledSoFar[o] = Told(ledger, o) + Told(result, o)
  /\ \A t \in Tasks : pc[t] \in {"match", "store"} => Total(result) = incoming.filled

(* A list has finitely many trades, of natural quantities.                 *)
LEMMA ListType ==
  ASSUME NEW l \in Seq(TradeRecord)
  PROVE  /\ DOMAIN l = 1 .. Len(l) /\ Len(l) \in Nat /\ IsFiniteSet(DOMAIN l)
         /\ \A i \in DOMAIN l : Quantity(l)[i] = l[i].quantity /\ Quantity(l)[i] \in Nat \ {0}
         /\ \A o : TradesOf(l, o) \subseteq DOMAIN l /\ IsFiniteSet(TradesOf(l, o))
         /\ \A o : Told(l, o) \in Nat
         /\ Total(l) \in Nat
<1>1. DOMAIN l = 1 .. Len(l) /\ Len(l) \in Nat
  OBVIOUS
<1>2. IsFiniteSet(DOMAIN l)
  BY <1>1, FS_Interval
<1>3. \A i \in DOMAIN l : Quantity(l)[i] = l[i].quantity /\ Quantity(l)[i] \in Nat \ {0}
  <2> SUFFICES ASSUME NEW i \in DOMAIN l
               PROVE  Quantity(l)[i] = l[i].quantity /\ Quantity(l)[i] \in Nat \ {0}
    OBVIOUS
  <2>1. l[i].quantity \in 1 .. U64Max
    <3>1. l[i] \in TradeRecord
      OBVIOUS
    <3> QED BY <3>1 DEF TradeRecord
  <2> QED BY <2>1, DomainAssumption DEF Quantity, DomainAssumption
<1>4. \A o : TradesOf(l, o) \subseteq DOMAIN l /\ IsFiniteSet(TradesOf(l, o))
  BY <1>2, FS_Subset DEF TradesOf
<1>5. ASSUME NEW S \in SUBSET DOMAIN l
      PROVE  SumFunctionOnSet(Quantity(l), S) \in Nat
  <2>1. IsFiniteSet(S) /\ \A i \in S : Quantity(l)[i] \in Nat
    BY <1>2, <1>3, FS_Subset
  <2> QED BY <2>1, SumType
<1> QED BY <1>1, <1>2, <1>3, <1>4, <1>5 DEF Told, Total

(* Every trade adds to the total, and a total of nothing is of no trade.   *)
LEMMA NoTotal ==
  ASSUME NEW l \in Seq(TradeRecord), Total(l) = 0
  PROVE  l = << >>
<1>1. SUFFICES ASSUME l # << >>  PROVE FALSE
  OBVIOUS
<1>2. 1 \in DOMAIN l
  BY <1>1
<1>3. IsFiniteSet(DOMAIN l) /\ \A i \in DOMAIN l : Quantity(l)[i] \in Nat /\ Quantity(l)[i] # 0
  BY ListType
<1>4. Total(l) = Quantity(l)[1] + SumFunctionOnSet(Quantity(l), DOMAIN l \ {1})
  BY <1>2, <1>3, SumSplit DEF Total
<1>5. IsFiniteSet(DOMAIN l \ {1}) /\ \A i \in DOMAIN l \ {1} : Quantity(l)[i] \in Nat
  BY <1>3, FS_Subset
<1>6. SumFunctionOnSet(Quantity(l), DOMAIN l \ {1}) \in Nat
  BY <1>5, SumType
<1>7. Quantity(l)[1] \in Nat /\ Quantity(l)[1] # 0
  BY <1>2, <1>3
<1> QED BY <1>4, <1>6, <1>7

(* One trade more.                                                         *)
LEMMA OneMore ==
  ASSUME NEW l \in Seq(TradeRecord), NEW tr \in TradeRecord
  PROVE  /\ Total(Append(l, tr)) = Total(l) + tr.quantity
         /\ \A o : Told(Append(l, tr), o)
                     = Told(l, o) + IF o \in {tr.buyer_order_id, tr.seller_order_id}
                                    THEN tr.quantity ELSE 0
<1> DEFINE k == Append(l, tr)
           m == Len(l) + 1
<1>1. /\ k \in Seq(TradeRecord) /\ DOMAIN k = DOMAIN l \cup {m} /\ m \notin DOMAIN l
      /\ k[m] = tr /\ \A i \in DOMAIN l : k[i] = l[i]
  OBVIOUS
<1> HIDE DEF k, m
<1>2. /\ IsFiniteSet(DOMAIN l)
      /\ \A i \in DOMAIN l : Quantity(l)[i] = l[i].quantity /\ Quantity(l)[i] \in Nat
      /\ \A i \in DOMAIN k : Quantity(k)[i] = k[i].quantity /\ Quantity(k)[i] \in Nat
  BY <1>1, ListType
<1>3. ASSUME NEW S \in SUBSET DOMAIN l
      PROVE  /\ SumFunctionOnSet(Quantity(k), S) = SumFunctionOnSet(Quantity(l), S)
             /\ SumFunctionOnSet(Quantity(l), S) \in Nat
             /\ SumFunctionOnSet(Quantity(k), S \cup {m})
                  = SumFunctionOnSet(Quantity(l), S) + tr.quantity
  <2>1. IsFiniteSet(S) /\ m \notin S
    BY <1>1, <1>2, FS_Subset
  <2>2. \A i \in S : Quantity(k)[i] \in Nat /\ Quantity(k)[i] = Quantity(l)[i]
    BY <1>1, <1>2
  <2>3. SumFunctionOnSet(Quantity(k), S) = SumFunctionOnSet(Quantity(l), S)
    BY <2>1, <2>2, SumSame
  <2>4. \A i \in S \cup {m} : Quantity(k)[i] \in Nat
    BY <1>1, <1>2
  <2>5. SumFunctionOnSet(Quantity(k), S \cup {m})
          = Quantity(k)[m] + SumFunctionOnSet(Quantity(k), S)
    BY <2>1, <2>4, SumAdd
  <2>6. \A i \in S : Quantity(l)[i] \in Nat
    BY <1>2
  <2>7. SumFunctionOnSet(Quantity(l), S) \in Nat
    BY <2>1, <2>6, SumType
  <2>8. Quantity(k)[m] = tr.quantity /\ tr.quantity \in Nat
    BY <1>1, <1>2
  <2> QED BY <2>3, <2>5, <2>7, <2>8
<1>4. Total(k) = Total(l) + tr.quantity
  BY <1>1, <1>3 DEF Total
<1>5. ASSUME NEW o
      PROVE  Told(k, o) = Told(l, o) + IF o \in {tr.buyer_order_id, tr.seller_order_id}
                                       THEN tr.quantity ELSE 0
  <2>1. TradesOf(l, o) \in SUBSET DOMAIN l
    BY ListType
  <2>2. TradesOf(k, o) = IF o \in {tr.buyer_order_id, tr.seller_order_id}
                         THEN TradesOf(l, o) \cup {m} ELSE TradesOf(l, o)
    BY <1>1 DEF TradesOf
  <2>3. Told(l, o) \in Nat
    BY ListType
  <2>4. /\ SumFunctionOnSet(Quantity(k), TradesOf(l, o)) = Told(l, o)
        /\ SumFunctionOnSet(Quantity(k), TradesOf(l, o) \cup {m}) = Told(l, o) + tr.quantity
    BY <1>3, <2>1 DEF Told
  <2>5. CASE o \in {tr.buyer_order_id, tr.seller_order_id}
    BY <2>2, <2>4, <2>5 DEF Told
  <2>6. CASE o \notin {tr.buyer_order_id, tr.seller_order_id}
    <3>1. Told(k, o) = Told(l, o)
      BY <2>2, <2>4, <2>6 DEF Told
    <3> QED BY <2>3, <2>6, <3>1
  <2> QED BY <2>5, <2>6
<1> QED BY <1>4, <1>5 DEF k

(* One list after another.                                                 *)
LEMMA BothLists ==
  ASSUME NEW l \in Seq(TradeRecord), NEW r \in Seq(TradeRecord), NEW o
  PROVE  Told(l \o r, o) = Told(l, o) + Told(r, o)
<1> DEFINE all == l \o r
           n == Len(l)
           h == [i \in DOMAIN r |-> i + n]
           Later == {i \in TradesOf(all, o) : i \notin DOMAIN l}
<1>1. /\ all \in Seq(TradeRecord) /\ n \in Nat
      /\ DOMAIN l = 1 .. n /\ DOMAIN r = 1 .. Len(r) /\ Len(r) \in Nat
      /\ DOMAIN all = 1 .. n + Len(r)
      /\ \A i \in 1 .. n : all[i] = l[i]
      /\ \A i \in n + 1 .. n + Len(r) : i - n \in 1 .. Len(r) /\ all[i] = r[i - n]
      /\ \A i \in 1 .. Len(r) : all[i + n] = r[i]
  OBVIOUS
<1> HIDE DEF all, n
<1>2. /\ \A i \in DOMAIN all : Quantity(all)[i] = all[i].quantity /\ Quantity(all)[i] \in Nat
      /\ \A i \in DOMAIN l : Quantity(l)[i] = l[i].quantity /\ Quantity(l)[i] \in Nat
      /\ \A i \in DOMAIN r : Quantity(r)[i] = r[i].quantity /\ Quantity(r)[i] \in Nat
      /\ IsFiniteSet(TradesOf(l, o)) /\ IsFiniteSet(TradesOf(r, o))
      /\ IsFiniteSet(TradesOf(all, o))
      /\ TradesOf(l, o) \subseteq DOMAIN l /\ TradesOf(r, o) \subseteq DOMAIN r
      /\ TradesOf(all, o) \subseteq DOMAIN all
  BY <1>1, ListType
<1>3. TradesOf(all, o) = TradesOf(l, o) \cup Later /\ TradesOf(l, o) \cap Later = {}
  <2>1. \A i \in DOMAIN l : i \in DOMAIN all /\ all[i] = l[i]
    BY <1>1
  <2> QED BY <1>2, <2>1 DEF TradesOf
<1>4. \A i \in TradesOf(r, o) : h[i] \in Later
  <2> SUFFICES ASSUME NEW i \in TradesOf(r, o)  PROVE i + n \in Later
    BY <1>2
  <2>1. i \in DOMAIN r /\ o \in {r[i].buyer_order_id, r[i].seller_order_id}
    BY DEF TradesOf
  <2>2. i + n \in DOMAIN all /\ i + n \notin DOMAIN l /\ all[i + n] = r[i]
    BY <1>1, <2>1
  <2> QED BY <2>1, <2>2 DEF TradesOf
<1>5. \A x \in Later : \E i \in TradesOf(r, o) : x = h[i]
  <2> SUFFICES ASSUME NEW x \in Later  PROVE \E i \in TradesOf(r, o) : x = h[i]
    OBVIOUS
  <2>1. x \in DOMAIN all /\ x \notin DOMAIN l /\ o \in {all[x].buyer_order_id, all[x].seller_order_id}
    BY DEF TradesOf
  <2>2. x \in n + 1 .. n + Len(r) /\ x - n \in DOMAIN r /\ all[x] = r[x - n] /\ x = (x - n) + n
    BY <1>1, <2>1
  <2>3. x - n \in TradesOf(r, o) /\ x = h[x - n]
    BY <2>1, <2>2 DEF TradesOf
  <2> QED BY <2>3
<1>6. \A x : x \in Later <=> \E i \in TradesOf(r, o) : x = h[i]
  BY <1>4, <1>5
<1>7. \A i, j \in TradesOf(r, o) : i # j => h[i] # h[j]
  BY <1>1, <1>2
<1>8. \A i \in TradesOf(r, o) : Quantity(r)[i] \in Nat
  BY <1>2
<1>9. \A i \in TradesOf(r, o) : Quantity(all)[h[i]] = Quantity(r)[i]
  <2> SUFFICES ASSUME NEW i \in TradesOf(r, o)  PROVE Quantity(all)[i + n] = Quantity(r)[i]
    BY <1>2
  <2>1. i \in DOMAIN r /\ i + n \in DOMAIN all /\ all[i + n] = r[i]
    BY <1>1, <1>2
  <2> QED BY <1>2, <2>1
<1> HIDE DEF h, Later
<1>10. IsFiniteSet(Later) /\ SumFunctionOnSet(Quantity(all), Later) = Told(r, o)
  <2>1. IsFiniteSet(TradesOf(r, o))
    BY <1>2
  <2>2. /\ IsFiniteSet(Later)
        /\ SumFunctionOnSet(Quantity(all), Later) = SumFunctionOnSet(Quantity(r), TradesOf(r, o))
    <3> DEFINE f == Quantity(r)
               g == Quantity(all)
               S == TradesOf(r, o)
    <3>1. IsFiniteSet(S) /\ (\A i, j \in S : i # j => h[i] # h[j])
      BY <2>1, <1>7
    <3>2. (\A i \in S : f[i] \in Nat) /\ (\A i \in S : g[h[i]] = f[i])
      BY <1>8, <1>9
    <3>3. \A x : x \in Later <=> \E i \in S : x = h[i]
      BY <1>6
    <3> HIDE DEF f, g, S
    <3>4. IsFiniteSet(Later) /\ SumFunctionOnSet(g, Later) = SumFunctionOnSet(f, S)
      BY ONLY <3>1, <3>2, <3>3, SumImage
    <3> QED BY <3>4 DEF f, g, S
  <2> QED BY <2>2 DEF Told
<1>11. \A i \in TradesOf(l, o) : Quantity(all)[i] \in Nat /\ Quantity(all)[i] = Quantity(l)[i]
  <2>1. \A i \in DOMAIN l : i \in DOMAIN all /\ all[i] = l[i]
    BY <1>1
  <2> QED BY <1>2, <2>1
<1>12. SumFunctionOnSet(Quantity(all), TradesOf(l, o)) = Told(l, o)
  BY <1>2, <1>11, SumSame DEF Told
<1>13. \A i \in TradesOf(l, o) \cup Later : Quantity(all)[i] \in Nat
  BY <1>2, <1>3
<1>14. SumFunctionOnSet(Quantity(all), TradesOf(l, o) \cup Later)
         = SumFunctionOnSet(Quantity(all), TradesOf(l, o)) + SumFunctionOnSet(Quantity(all), Later)
  BY <1>2, <1>3, <1>10, <1>13, SumUnion
<1>15. Told(all, o) = Told(l, o) + Told(r, o)
  BY <1>3, <1>10, <1>12, <1>14 DEF Told
<1> QED BY <1>15 DEF all
(* total_filled_quantity is the total.                                     *)
LEMMA TotalIsSum ==
  ASSUME NEW l, NEW n \in Nat, DOMAIN l = 1 .. n, \A i \in DOMAIN l : l[i].quantity \in Nat
  PROVE  TotalFilledQuantity(l) = Total(l)
<1> DEFINE D == DOMAIN l
           f == Quantity(l)
           Is(h) == h = [s \in SUBSET D |-> IF s = {} THEN 0
                                            ELSE h[s \ {Max(s)}] + l[Max(s)].quantity]
           c == [s \in SUBSET D |-> Max(s)]
           sums == [s \in SUBSET D |-> SumFunctionOnSet(f, s)]
<1>1. TotalFilledQuantity(l) = (CHOOSE h : Is(h))[D]
  BY DEF TotalFilledQuantity, FoldLeft, MapThenFoldSet
<1>2. IsFiniteSet(D) /\ \A i \in D : f[i] = l[i].quantity /\ f[i] \in Nat
  BY FS_Interval DEF Quantity
<1>3. ASSUME NEW s \in SUBSET D, s # {}  PROVE Max(s) \in s
  <2>1. s \in SUBSET (0 .. n) /\ s \subseteq Nat
    OBVIOUS
  <2>2. \E m \in s : \A k \in s : k <= m
    BY <1>3, <2>1, Greatest
  <2>3. \E m \in s : \A k \in s : m >= k
    BY <2>1, <2>2
  <2> QED BY <2>3 DEF Max
<1>4. \A s \in SUBSET D : s # {} => c[s] \in s
  BY <1>3
<1> HIDE DEF f
<1>5. ASSUME NEW s \in SUBSET D
      PROVE  sums[s] = IF s = {} THEN 0 ELSE sums[s \ {Max(s)}] + l[Max(s)].quantity
  <2>1. CASE s = {}
    BY <2>1, SumEmpty
  <2>2. CASE s # {}
    <3>1. /\ Max(s) \in s /\ IsFiniteSet(s) /\ IsFiniteSet(s \ {Max(s)})
          /\ s \ {Max(s)} \in SUBSET D
      BY <1>2, <1>3, <2>2, FS_Subset
    <3>2. (\A i \in s : f[i] \in Nat) /\ (\A i \in s \ {Max(s)} : f[i] \in Nat)
      BY <1>2
    <3>3. SumFunctionOnSet(f, s) = f[Max(s)] + SumFunctionOnSet(f, s \ {Max(s)})
      BY <3>1, <3>2, SumSplit
    <3>4. SumFunctionOnSet(f, s \ {Max(s)}) \in Nat
      BY <3>1, <3>2, SumType
    <3>5. f[Max(s)] = l[Max(s)].quantity /\ f[Max(s)] \in Nat
      BY <1>2, <3>1
    <3> QED BY <2>2, <3>1, <3>3, <3>4, <3>5
  <2> QED BY <2>1, <2>2
<1>6. Is(sums)
  <2>1. sums = [s \in SUBSET D |-> sums[s]]
    OBVIOUS
  <2> HIDE DEF sums, D
  <2>2. sums = [s \in SUBSET D |-> IF s = {} THEN 0
                                   ELSE sums[s \ {Max(s)}] + l[Max(s)].quantity]
    BY <1>5, <2>1
  <2> QED BY <2>2
<1>7. PICK k : k = (CHOOSE h : Is(h)) /\ Is(k)
  <2> HIDE DEF Is
  <2> QED BY <1>6
<1>8. \A s \in SUBSET D : k[s] = IF s = {} THEN 0 ELSE k[s \ {c[s]}] + f[c[s]]
  <2> SUFFICES ASSUME NEW s \in SUBSET D
               PROVE  k[s] = IF s = {} THEN 0 ELSE k[s \ {c[s]}] + f[c[s]]
    OBVIOUS
  <2>1. k[s] = IF s = {} THEN 0 ELSE k[s \ {Max(s)}] + l[Max(s)].quantity
    BY <1>7
  <2>2. s # {} => f[c[s]] = l[Max(s)].quantity
    BY <1>2, <1>3
  <2> QED BY <2>1, <2>2
<1>9. IsFiniteSet(D) /\ \A i \in D : f[i] \in Nat
  BY <1>2
<1> HIDE DEF c, sums, Is, D
<1>10. k[D] = SumFunctionOnSet(f, D)
  BY ONLY <1>4, <1>8, <1>9, SumAnyOrder
<1> QED BY <1>1, <1>7, <1>10 DEF Total, f, D

(* Only trades fill.                                                       *)
LEMMA OnlyTradesFill ==
  ASSUME IInv, CrossingInv, RestingInv, NEW t \in Tasks,
         \/ Refuse(t) \/ SubmitOrder(t) \/ CancelCheck(t)
         \/ StartMatching(t) \/ RejectMarket(t) \/ PanicInSum(t)
         \/ CancelRemove(t) \/ CancelMissed(t) \/ FinishLevel(t) \/ CountTrades(t)
         \/ StoreFilled(t) \/ StoreResting(t) \/ PanicInAdd(t) \/ CancelMark(t)
  PROVE  FilledSoFar' = FilledSoFar
<1>1. CASE Refuse(t)
  BY <1>1 DEF Refuse, vars, books, locals, FilledSoFar, Taker, Unlocked
<1>2. CASE SubmitOrder(t)
  BY <1>2, SubmitMarket DEF Market!Ask
<1>3. CASE StartMatching(t)
  BY <1>3, StartMarket DEF Market!Arrive
<1>4. CASE CancelRemove(t)
  BY <1>4, RemoveMarket DEF Market!Withdraw, Market!bookVars
<1>5. CASE StoreFilled(t) \/ StoreResting(t) \/ PanicInAdd(t)
  BY <1>5, StoreFilledMarket, StoreRestingMarket, PanicUnseen
  DEF Market!Done, Market!Rest
<1>6. CASE CancelCheck(t) \/ RejectMarket(t) \/ PanicInSum(t) \/ CancelMissed(t) \/ CancelMark(t)
  BY <1>6, OutsideMarket DEF Market!bookVars
<1>7. CASE FinishLevel(t) \/ CountTrades(t)
  BY <1>7, FinishMarket, CountMarket DEF Market!bookVars
<1> QED BY <1>1, <1>2, <1>3, <1>4, <1>5, <1>6, <1>7

(* A step that tells nothing and fills nothing.                            *)
LEMMA SameBalance ==
  ASSUME BalanceInv, UNCHANGED <<request, FilledSoFar, told>>,
         trade_count' + trades' = trade_count + trades,
         \A u \in Tasks : pc'[u] \in {"match", "store"} =>
           pc[u] \in {"match", "store"} /\ incoming' = incoming
  PROVE  BalanceInv'
<1>1. Created' = Created /\ result' = result /\ ledger' = ledger
  BY DEF Created, told
<1>2. \A o : Told(ledger, o)' = Told(ledger, o) /\ Told(result, o)' = Told(result, o)
  BY <1>1 DEF Told, TradesOf, Quantity
<1>3. Total(result)' = Total(result)
  BY <1>1 DEF Total, Quantity
<1> QED BY <1>1, <1>2, <1>3 DEF BalanceInv

(* A new order has no trades.                                              *)
LEMMA SubmitBalance ==
  ASSUME IInv, CrossingInv, RestingInv, ToldInv, BalanceInv, IInv', RestingInv',
         NEW t \in Tasks, SubmitOrder(t), UNCHANGED told
  PROVE  BalanceInv'
<1>1. PICK r \in Request : request' = Append(request, r)
  BY DEF SubmitOrder
<1>2. /\ UNCHANGED <<trade_count, trades, incoming>> /\ pc' = [pc EXCEPT ![t] = "submit"]
      /\ TypeOK /\ request \in Seq(Request) /\ Len(request) \in Nat
  BY DEF SubmitOrder, Goto, locals, IInv, TypeInv, TypeOK
<1>3. FilledSoFar' = FilledSoFar /\ result' = result /\ ledger' = ledger /\ Ids' = Ids
  BY OnlyTradesFill DEF told, Ids
<1>4. \A o : Told(ledger, o)' = Told(ledger, o) /\ Told(result, o)' = Told(result, o)
  BY <1>3 DEF Told, TradesOf, Quantity
<1>5. Total(result)' = Total(result)
  BY <1>3 DEF Total, Quantity
<1>6. ASSUME NEW o \in Created', o \notin Created
      PROVE  FilledSoFar[o] = Told(ledger, o) + Told(result, o)
  <2>1. o \in Ids
    <3>1. Created' = 1 .. Len(request) + 1 /\ Len(request) < MaxOrders
      <4>1. Len(request') = Len(request) + 1
        BY <1>1, <1>2
      <4> QED BY <4>1 DEF Created, SubmitOrder
    <3> QED BY <1>2, <1>6, <3>1, EngineAssumption DEF Ids, EngineAssumption
  <2>2. FilledSoFar[o] = 0
    BY <1>6, <2>1, FilledType
  <2>3. TradesOf(ledger, o) = {} /\ TradesOf(result, o) = {}
    BY <1>6 DEF TradesOf, ToldInv, LedgerInv, ResultInv, FairTrades
  <2> QED BY <2>2, <2>3, SumEmpty DEF Told
<1>7. \A u \in Tasks : pc'[u] \in {"match", "store"} => pc[u] \in {"match", "store"}
  BY <1>2 DEF TypeOK
<1> QED BY <1>2, <1>3, <1>4, <1>5, <1>6, <1>7 DEF BalanceInv

(* A trade is in the result of its taker.                                  *)
LEMMA MatchBalance ==
  ASSUME IInv, CrossingInv, RestingInv, ToldInv, BalanceInv, NEW t \in Tasks, Match(t)
  PROVE  BalanceInv'
<1>1. /\ Trade(t) /\ result' = Append(result, NextTrade(t)) /\ ledger' = ledger
      /\ UNCHANGED <<request, pc, trade_count>> /\ trades' = trades + 1 /\ pc[t] = "match"
      /\ TypeOK
  BY DEF Match, Trade, IInv, TypeInv
<1>2. PICK s0 \in Symbols, d0 \in Sides, p \in Prices, o \in WaitingOrders, n \in Nat,
           popped \in BOOLEAN : TradeFills(t, s0, d0, p, o, n, popped)
  BY <1>1, TradeEffect
<1>3. /\ s0 = Own(t).symbol /\ d0 = Opposite(Own(t).side) /\ p = BestPrice(Own(t))
      /\ o = Head(Line(s0, d0, p)) /\ n = FillQuantity(Own(t), o) /\ n > 0
      /\ incoming' = Fill(Own(t), incoming, n)
  BY <1>2 DEF TradeFills
<1>4. PICK tr : tr = NextTrade(t)
  OBVIOUS
<1>5. /\ tr \in FairTrades /\ tr \in TradeRecord
      /\ result \in Seq(TradeRecord) /\ ledger \in Seq(TradeRecord)
  BY <1>1, <1>4, NextTradeFair DEF FairTrades, ToldInv, LedgerInv, ResultInv
<1>6. /\ Taker = work[t] /\ Taker \in Created /\ Taker \in Ids /\ incoming.filled \in Nat
      /\ Own(t) \in Request
  BY <1>1, TakerIs
<1>7. /\ o \in Ids /\ o # Taker
      /\ FilledSoFar' = [FilledSoFar EXCEPT ![Taker] = @ + n, ![o] = @ + n]
  BY <1>1, <1>2, BothFill
<1>8. tr.quantity = n /\ {tr.buyer_order_id, tr.seller_order_id} = {Taker, o}
  <2>1. o = Head(QueueAt(Against(Own(t)), p))
    BY <1>3 DEF Line, Against
  <2> QED BY <1>3, <1>4, <1>6, <2>1 DEF NextTrade, NewTrade
<1>9. \A q \in Ids : FilledSoFar'[q] = FilledSoFar[q] + IF q \in {Taker, o} THEN n ELSE 0
  <2>1. FilledSoFar = [q \in Ids |-> FilledSoFar[q]] /\ \A q \in Ids : FilledSoFar[q] \in Nat
    BY FilledType DEF FilledSoFar
  <2>2. \A q \in Ids : q \notin {Taker, o} => FilledSoFar'[q] = FilledSoFar[q]
    BY <1>6, <1>7, <2>1
  <2>3. FilledSoFar'[Taker] = FilledSoFar[Taker] + n /\ FilledSoFar'[o] = FilledSoFar[o] + n
    BY <1>6, <1>7, <2>1
  <2> QED BY <2>1, <2>2, <2>3
<1>10. \A q \in Created :
         /\ Told(ledger, q)' = Told(ledger, q) /\ Told(ledger, q) \in Nat /\ Told(result, q) \in Nat
         /\ Told(result, q)' = Told(result, q) + IF q \in {Taker, o} THEN n ELSE 0
  <2>1. ASSUME NEW q
        PROVE  /\ Told(ledger, q)' = Told(ledger, q)
               /\ Told(result, q)' = Told(Append(result, tr), q)
    BY <1>1, <1>4 DEF Told, TradesOf, Quantity
  <2>2. \A q : /\ Told(Append(result, tr), q)
                    = Told(result, q) + IF q \in {Taker, o} THEN n ELSE 0
               /\ Told(ledger, q) \in Nat /\ Told(result, q) \in Nat
    BY <1>5, <1>8, OneMore, ListType
  <2> QED BY <2>1, <2>2
<1>11. Created' = Created /\ Created \subseteq Ids
  BY <1>1, CreatedType DEF Created
<1>12. \A q \in Created' : FilledSoFar'[q] = Told(ledger, q)' + Told(result, q)'
  <2> SUFFICES ASSUME NEW q \in Created
               PROVE  FilledSoFar'[q] = Told(ledger, q)' + Told(result, q)'
    BY <1>11
  <2>1. /\ FilledSoFar[q] = Told(ledger, q) + Told(result, q)
        /\ FilledSoFar'[q] = FilledSoFar[q] + IF q \in {Taker, o} THEN n ELSE 0
    BY <1>9, <1>11 DEF BalanceInv
  <2> QED BY <1>10, <2>1
<1>13. Total(result)' = incoming'.filled
  <2>1. Total(result)' = Total(Append(result, tr))
    BY <1>1, <1>4 DEF Total, Quantity
  <2>2. Total(Append(result, tr)) = Total(result) + n
    BY <1>5, <1>8, OneMore
  <2>3. incoming'.filled = incoming.filled + n
    BY <1>3, <1>6 DEF Fill
  <2> QED BY <1>1, <2>1, <2>2, <2>3 DEF BalanceInv
<1>14. Len(ledger)' + Len(result)' = trade_count' + trades'
  <2>1. /\ Len(result)' = Len(result) + 1 /\ Len(ledger)' = Len(ledger)
        /\ Len(result) \in Nat /\ Len(ledger) \in Nat
    BY <1>1, <1>4, <1>5
  <2>2. trades \in Nat /\ trade_count \in Nat
    BY <1>1 DEF TypeOK
  <2> QED BY <1>1, <2>1, <2>2 DEF BalanceInv
<1> QED BY <1>12, <1>13, <1>14 DEF BalanceInv

(* An answer tells the result.                                             *)
LEMMA SucceedBalance ==
  ASSUME IInv, CrossingInv, RestingInv, ToldInv, BalanceInv, NEW t \in Tasks, Succeed(t)
  PROVE  BalanceInv'
<1>1. /\ pc[t] = "store" /\ Release(t) /\ UNCHANGED <<request, trade_count, trades>>
      /\ result' = << >> /\ ledger' = ledger \o result
  BY DEF Succeed, Tell, StoreFilled, StoreResting
<1>2. FilledSoFar' = FilledSoFar
  BY OnlyTradesFill DEF Succeed
<1>3. result \in Seq(TradeRecord) /\ ledger \in Seq(TradeRecord)
  BY DEF ToldInv, LedgerInv, ResultInv
<1>4. \A u \in Tasks : pc'[u] \notin {"match", "store"}
  BY <1>1, Storing, Released
<1>5. ASSUME NEW o
      PROVE  Told(ledger, o)' = Told(ledger, o) + Told(result, o) /\ Told(result, o)' = 0
  <2>1. Told(ledger, o)' = Told(ledger \o result, o)
    BY <1>1 DEF Told, TradesOf, Quantity
  <2>2. TradesOf(result, o)' = {}
    BY <1>1 DEF TradesOf
  <2>3. Told(result, o)' = 0
    BY <2>2, SumEmpty DEF Told
  <2> QED BY <1>3, <2>1, <2>3, BothLists
<1>6. \A o \in Created' : FilledSoFar'[o] = Told(ledger, o)' + Told(result, o)'
  <2>1. \A o : Told(ledger, o) \in Nat /\ Told(result, o) \in Nat
    BY <1>3, ListType
  <2> QED BY <1>1, <1>2, <1>5, <2>1 DEF BalanceInv, Created
<1>7. Len(ledger)' + Len(result)' = trade_count' + trades'
  <2>1. /\ Len(ledger)' = Len(ledger) + Len(result) /\ Len(result)' = 0
        /\ Len(result) \in Nat /\ Len(ledger) \in Nat
    BY <1>1, <1>3
  <2> QED BY <1>1, <2>1 DEF BalanceInv
<1> QED BY <1>4, <1>6, <1>7 DEF BalanceInv

(* A panic loses no trade.                                                 *)
LEMMA PanicBalance ==
  ASSUME IInv, CrossingInv, RestingInv, ToldInv, BalanceInv, NEW t \in Tasks, Panic(t)
  PROVE  BalanceInv'
<1>1. result = << >>
  <2>1. CASE PanicInSum(t)
    <3>1. \A u \in Tasks : pc[u] \notin {"match", "store"}
      BY <2>1, NoHolder DEF PanicInSum
    <3> QED BY <3>1 DEF ToldInv, ResultInv
  <2>2. CASE PanicInAdd(t)
    <3>1. pc[t] = "store" /\ incoming.filled = 0
      BY <2>2, AddPanicsUntraded DEF PanicInAdd
    <3>2. Total(result) = 0 /\ result \in Seq(TradeRecord)
      BY <3>1 DEF BalanceInv, ToldInv, ResultInv
    <3> QED BY <3>2, NoTotal
  <2> QED BY <2>1, <2>2 DEF Panic
<1>2. UNCHANGED told /\ FilledSoFar' = FilledSoFar
  BY <1>1, OnlyTradesFill DEF Panic, told
<1>3. /\ UNCHANGED <<request, trade_count, trades>>
      /\ \A u \in Tasks : pc'[u] \in {"match", "store"} =>
           pc[u] \in {"match", "store"} /\ incoming' = incoming
  <2>1. CASE PanicInSum(t)
    BY <2>1 DEF PanicInSum, Return, Goto, locals, IInv, TypeInv, TypeOK
  <2>2. CASE PanicInAdd(t)
    <3>1. pc[t] = "store" /\ Release(t) /\ UNCHANGED <<request, trade_count, trades>>
      BY <2>2 DEF PanicInAdd
    <3>2. \A u \in Tasks : pc'[u] \notin {"match", "store"}
      BY <3>1, Storing, Released
    <3> QED BY <3>1, <3>2
  <2> QED BY <2>1, <2>2 DEF Panic
<1> QED BY <1>2, <1>3, SameBalance

(* A submission begins with nothing filled and nothing to tell.            *)
LEMMA StartBalance ==
  ASSUME IInv, CrossingInv, RestingInv, ToldInv, BalanceInv,
         NEW t \in Tasks, StartMatching(t), UNCHANGED told
  PROVE  BalanceInv'
<1>1. /\ writer = NoTask /\ incoming' = NewOrder /\ UNCHANGED <<request, trade_count, trades>>
      /\ FilledSoFar' = FilledSoFar /\ result' = result /\ ledger' = ledger
  BY OnlyTradesFill DEF StartMatching, told
<1>2. result = << >>
  BY <1>1, NoHolder DEF ToldInv, ResultInv
<1>3. Total(result)' = incoming'.filled
  <2>1. DOMAIN result' = {}
    BY <1>1, <1>2
  <2>2. Total(result)' = 0
    BY <2>1, SumEmpty DEF Total
  <2> QED BY <1>1, <2>2 DEF NewOrder
<1>4. \A o : Told(ledger, o)' = Told(ledger, o) /\ Told(result, o)' = Told(result, o)
  BY <1>1 DEF Told, TradesOf, Quantity
<1> QED BY <1>1, <1>3, <1>4 DEF BalanceInv, Created

(* The other steps tell nothing.                                           *)
LEMMA QuietBalance ==
  ASSUME IInv, CrossingInv, RestingInv, ToldInv, BalanceInv, NEW t \in Tasks, UNCHANGED told,
         \/ Refuse(t) \/ CancelCheck(t) \/ RejectMarket(t) \/ CancelRemove(t)
         \/ CancelMissed(t) \/ FinishLevel(t) \/ CountTrades(t) \/ CancelMark(t)
  PROVE  BalanceInv'
<1>1. FilledSoFar' = FilledSoFar /\ pc \in [Tasks -> Places]
  BY OnlyTradesFill DEF IInv, TypeInv, TypeOK
<1>2. UNCHANGED request /\ incoming' = incoming
  BY DEF Refuse, CancelCheck, RejectMarket, CancelRemove, CancelMissed, FinishLevel,
    CountTrades, CancelMark, locals, vars
<1>3. trade_count' + trades' = trade_count + trades
  <2>1. CASE CountTrades(t)
    BY <2>1 DEF CountTrades, IInv, TypeInv, TypeOK
  <2>2. CASE ~ CountTrades(t)
    BY <2>2 DEF Refuse, CancelCheck, RejectMarket, CancelRemove, CancelMissed, FinishLevel,
      CancelMark, locals, vars
  <2> QED BY <2>1, <2>2
<1>4. \A u \in Tasks : pc'[u] \in {"match", "store"} => pc[u] \in {"match", "store"}
  BY <1>1 DEF Refuse, CancelCheck, RejectMarket, CancelRemove, CancelMissed, FinishLevel,
    CountTrades, CancelMark, vars, Return, Goto
<1> QED BY <1>1, <1>2, <1>3, <1>4, SameBalance

(* Every step keeps the books balanced.                                    *)
LEMMA NextBalance ==
  ASSUME IInv, CrossingInv, RestingInv, ToldInv, BalanceInv, IInv', RestingInv',
         [ApiNext]_apiVars
  PROVE  BalanceInv'
<1>1. CASE UNCHANGED apiVars
  <2>1. /\ UNCHANGED <<request, told, trade_count, trades, pc, incoming>>
        /\ UNCHANGED <<orders, resting, filled_qty, writer, work>>
    BY <1>1 DEF apiVars, vars, books, locals
  <2>2. FilledSoFar' = FilledSoFar
    BY <2>1 DEF FilledSoFar, Taker, Unlocked
  <2> QED BY <2>1, <2>2, SameBalance
<1>2. ASSUME NEW t \in Tasks, Arrive(t) \/ Serve(t)
      PROVE  BalanceInv'
  <2>1. CASE Match(t)
    BY <2>1, MatchBalance
  <2>2. CASE Succeed(t)
    BY <2>2, SucceedBalance
  <2>3. CASE Panic(t)
    BY <2>3, PanicBalance
  <2>4. CASE SubmitOrder(t) /\ UNCHANGED told
    BY <2>4, SubmitBalance
  <2>5. CASE StartMatching(t) /\ UNCHANGED told
    BY <2>5, StartBalance
  <2>6. CASE /\ UNCHANGED told
             /\ \/ Refuse(t) \/ CancelCheck(t) \/ RejectMarket(t) \/ CancelRemove(t)
                \/ CancelMissed(t) \/ FinishLevel(t) \/ CountTrades(t) \/ CancelMark(t)
    BY <2>6, QuietBalance
  <2> QED BY <1>2, <2>1, <2>2, <2>3, <2>4, <2>5, <2>6
      DEF Arrive, Serve, TurnDown, Confirm, Silent
<1> QED BY <1>1, <1>2 DEF ApiNext

THEOREM Balance == ApiSpec => []BalanceInv
<1>1. ApiInit => BalanceInv
  <2> SUFFICES ASSUME ApiInit  PROVE BalanceInv
    OBVIOUS
  <2>1. /\ Created = {} /\ result = << >> /\ ledger = << >> /\ trades = 0 /\ trade_count = 0
        /\ \A t \in Tasks : pc[t] = "idle"
    BY DEF ApiInit, Init, Created
  <2> QED BY <2>1 DEF BalanceInv
<1>2. IInv /\ CrossingInv /\ RestingInv /\ ToldInv /\ BalanceInv /\ IInv' /\ RestingInv'
      /\ [ApiNext]_apiVars => BalanceInv'
  BY NextBalance
<1> QED BY <1>1, <1>2, EngineUnderApi, Invariance, Crossing, ClonesWait, Telling, PTL DEF ApiSpec

(* At every moment a reader can look, the trades told of an order add up   *)
(* to what its status says, and there are as many as are counted           *)
(* (engine.rs:132, 170, 298-361).                                          *)
THEOREM Balanced == ApiSpec => []LedgerBalances
<1>1. ASSUME IInv, RestingInv, ToldInv, BalanceInv  PROVE LedgerBalances
  <2> SUFFICES ASSUME Unlocked
               PROVE  /\ Len(ledger) = trade_count
                      /\ \A o \in Created : Told(ledger, o) = orders[o].filled
    BY DEF LedgerBalances
  <2>1. writer = NoTask /\ \A t \in Tasks : pc[t] \notin {"match", "store"}
    BY <1>1, NoHolder DEF Unlocked
  <2>2. /\ result = << >> /\ trades = 0 /\ ledger \in Seq(TradeRecord)
        /\ trade_count \in Nat
    BY <1>1, <2>1 DEF ToldInv, LedgerInv, ResultInv, IInv, TypeInv, TypeOK
  <2>3. Len(ledger) = trade_count
    BY <1>1, <2>2 DEF BalanceInv
  <2>4. ASSUME NEW o \in Created  PROVE Told(ledger, o) = orders[o].filled
    <3>1. FilledSoFar[o] = orders[o].filled
      BY <1>1, <2>1, StoredFilled, CreatedType DEF IInv, TypeInv
    <3>2. TradesOf(result, o) = {}
      BY <2>2 DEF TradesOf
    <3>3. Told(result, o) = 0 /\ Told(ledger, o) \in Nat
      BY <2>2, <3>2, SumEmpty, ListType DEF Told
    <3> QED BY <1>1, <3>1, <3>3 DEF BalanceInv
  <2> QED BY <2>3, <2>4
<1> QED BY <1>1, EngineUnderApi, Invariance, ClonesWait, Telling, Balance, PTL
(* The answer of a submission is of the kind its order's status names.     *)
LEMMA AnswerKind ==
  ASSUME IInv, ToldInv, BalanceInv, NEW t \in Tasks, pc[t] = "store"
  PROVE  /\ SubmitAnswer(t).status = incoming.status
         /\ incoming.status = "Filled" <=> IsFilled(Own(t), incoming)
         /\ incoming.status # "Accepted" =>
              /\ SubmitAnswer(t).filled_quantity = incoming.filled
              /\ TotalFilledQuantity(SubmitAnswer(t).trades) = incoming.filled
         /\ incoming.status = "PartialFill" =>
              SubmitAnswer(t).remaining_quantity = RemainingQuantity(Own(t), incoming)
<1> DEFINE infos == ToTradeInfoList(result)
<1>1. /\ incoming.filled \in Nat /\ Own(t).quantity \in Nat
      /\ incoming.status = StatusOf(Own(t), incoming.filled)
  BY TakerIs, RequestType DEF IInv, IncomingInv
<1>2. TotalFilledQuantity(infos) = incoming.filled
  <2>1. result \in Seq(TradeRecord) /\ Total(result) = incoming.filled
    BY DEF ToldInv, ResultInv, BalanceInv
  <2>2. /\ DOMAIN result = 1 .. Len(result) /\ Len(result) \in Nat
        /\ \A i \in DOMAIN result : Quantity(result)[i] = result[i].quantity
                                    /\ Quantity(result)[i] \in Nat
    BY <2>1, ListType
  <2>3. /\ DOMAIN infos = 1 .. Len(result)
        /\ \A i \in DOMAIN infos : infos[i].quantity = result[i].quantity
                                   /\ infos[i].quantity \in Nat
    BY <2>2 DEF ToTradeInfoList, ToTradeInfo
  <2>4. Quantity(infos) = Quantity(result)
    BY <2>2, <2>3 DEF Quantity
  <2> HIDE DEF infos
  <2>5. TotalFilledQuantity(infos) = Total(infos)
    BY <2>2, <2>3, TotalIsSum
  <2> QED BY <2>1, <2>2, <2>3, <2>4, <2>5 DEF Total
<1> HIDE DEF infos
<1>3. CASE IsFilled(Own(t), incoming)
  <2>1. incoming.status = "Filled"
    BY <1>1, <1>3 DEF IsFilled, StatusOf
  <2>2. SubmitAnswer(t) = Filled(work[t], incoming.filled, infos)
    BY <1>3 DEF SubmitAnswer, infos
  <2> QED BY <1>2, <1>3, <2>1, <2>2 DEF Filled
<1>4. CASE ~ IsFilled(Own(t), incoming) /\ incoming.filled > 0
  <2>1. incoming.status = "PartialFill"
    BY <1>1, <1>4 DEF IsFilled, StatusOf
  <2>2. SubmitAnswer(t) = PartialFill(work[t], incoming.filled,
                                      RemainingQuantity(Own(t), incoming), infos)
    BY <1>4 DEF SubmitAnswer, infos
  <2> QED BY <1>2, <1>4, <2>1, <2>2 DEF PartialFill
<1>5. CASE ~ IsFilled(Own(t), incoming) /\ ~ (incoming.filled > 0)
  <2>1. incoming.status = "Accepted"
    BY <1>1, <1>5 DEF IsFilled, StatusOf
  <2>2. SubmitAnswer(t) = Accepted(work[t])
    BY <1>5 DEF SubmitAnswer, infos
  <2> QED BY <1>5, <2>1, <2>2 DEF Accepted
<1> QED BY <1>3, <1>4, <1>5

(* An order waits after its submission exactly if it is not filled.        *)
LEMMA WaitsUnlessFilled ==
  ASSUME IInv, NEW t \in Tasks, Succeed(t), NEW m, m = work[t]
  PROVE  orders'[m] = incoming /\ (Waiting(m)' <=> ~ IsFilled(Own(t), incoming))
<1>1. /\ pc[t] = "store" /\ orders' = [orders EXCEPT ![work[t]] = incoming]
      /\ UNCHANGED request
  BY DEF Succeed, StoreFilled, StoreResting, StoreOrder
<1>2. m \in Created /\ m \in Ids /\ m \notin WaitingOrders
  BY <1>1, Storing
<1>3. orders'[m] = incoming
  BY <1>1, <1>2 DEF IInv, TypeInv, TypeOK
<1>5. CASE StoreFilled(t)
  <2>1. IsFilled(Own(t), incoming) /\ levels' = levels
    BY <1>5 DEF StoreFilled, books
  <2>2. Waiting(m)' <=> Waiting(m)
    BY <1>1, <2>1 DEF Waiting, OwnLine, Line
  <2> QED BY <1>2, <1>3, <2>1, <2>2 DEF WaitingOrders
<1>6. CASE StoreResting(t)
  <2>1. PICK s0 \in Symbols, d0 \in Sides, p0 \in Prices, k \in Ids, n \in Nat :
          OrderRests(t, s0, d0, p0, k, n)
    BY <1>6, StoreRestingEffect
  <2>2. m \in WaitingOrders'
    BY <1>2, <2>1 DEF OrderRests
  <2>3. Waiting(m)'
    BY <2>2 DEF WaitingOrders
  <2>4. ~ IsFilled(Own(t), incoming)
    BY <1>6 DEF StoreResting
  <2> QED BY <1>2, <1>3, <2>3, <2>4
<1> QED BY <1>5, <1>6 DEF Succeed

(* A confirmed cancellation is stored, and its order waits nowhere.        *)
LEMMA ConfirmedIsGone ==
  ASSUME IInv, NEW t \in Tasks, Confirm(t), NEW m, m = work[t]
  PROVE  orders'[m].status = "Cancelled" /\ ~ Waiting(m)'
<1>1. /\ pc[t] = "mark" /\ orders' = [orders EXCEPT ![m] = Cancel(orders[m])]
      /\ UNCHANGED <<request, levels>>
  BY DEF Confirm, CancelMark, books
<1>2. /\ m \in Created /\ m \in Ids /\ m \notin WaitingOrders
      /\ orders \in [Ids -> Copy]
  BY <1>1, OwnType DEF IInv, TypeInv, TypeOK, TasksInv
<1>3. orders'[m].status = "Cancelled"
  BY <1>1, <1>2 DEF Cancel, Copy
<1>4. ~ Waiting(m)'
  BY <1>1, <1>2 DEF WaitingOrders, Waiting, OwnLine, Line
<1> QED BY <1>3, <1>4

(* Whatever a client is told when its call returns is what a status query  *)
(* says from then on (engine.rs:175-196, 418).                             *)
THEOREM AnswersAreTrue == ApiSpec => AnswersTellTheTruth
<1>1. ASSUME IInv, ToldInv, BalanceInv, [ApiNext]_apiVars,
             NEW t \in Tasks, NEW o \in Created, Succeed(t), o = work[t]
      PROVE  /\ SubmitAnswer(t).status = orders'[o].status
             /\ Waiting(o)' <=> SubmitAnswer(t).status # "Filled"
             /\ SubmitAnswer(t).status # "Accepted" =>
                  /\ SubmitAnswer(t).filled_quantity = orders'[o].filled
                  /\ TotalFilledQuantity(SubmitAnswer(t).trades) = orders'[o].filled
             /\ SubmitAnswer(t).status = "PartialFill" =>
                  SubmitAnswer(t).remaining_quantity = RemainingQuantity(request[o], orders'[o])
  <2>1. pc[t] = "store" /\ Own(t) = request[o]
    BY <1>1 DEF Succeed, StoreFilled, StoreResting, Own
  <2>2. orders'[o] = incoming /\ (Waiting(o)' <=> ~ IsFilled(Own(t), incoming))
    BY <1>1, WaitsUnlessFilled
  <2> QED BY <1>1, <2>1, <2>2, AnswerKind
<1>2. ASSUME IInv, NEW t \in Tasks, NEW o \in Created, Confirm(t), o = work[t]
      PROVE  orders'[o].status = CancelAnswer(o).status /\ ~ Waiting(o)'
  BY <1>2, ConfirmedIsGone DEF CancelAnswer
<1>3. IInv /\ ToldInv /\ BalanceInv /\ [ApiNext]_apiVars => [TrueAnswers]_apiVars
  BY <1>1, <1>2 DEF TrueAnswers
<1> QED BY <1>3, EngineUnderApi, Invariance, Telling, Balance, PTL DEF ApiSpec, AnswersTellTheTruth

-----------------------------------------------------------------------------
(* The depth view.                                                         *)

(* Prices are numbers, and finitely many.                                  *)
LEMMA PricesFinite ==
  Prices \in SUBSET Nat /\ IsFiniteSet(Prices)
<1>1. U64Max \in Nat /\ Prices \in SUBSET (1 .. U64Max)
  BY DomainAssumption DEF DomainAssumption
<1>2. IsFiniteSet(1 .. U64Max)
  BY <1>1, FS_Interval
<1>3. IsFiniteSet(Prices)
  BY <1>1, <1>2, FS_Subset
<1> QED BY <1>1, <1>3

(* Better is a strict order of prices, best first.                         *)
LEMMA BetterOrders ==
  ASSUME NEW d \in Sides
  PROVE  /\ \A p, q \in Nat : p = q \/ Better(d, p, q) \/ Better(d, q, p)
         /\ \A p, q \in Nat : Better(d, p, q) => p # q /\ ~ Better(d, q, p)
         /\ \A p, q, r \in Nat : Better(d, p, q) /\ Better(d, q, r) => Better(d, p, r)
BY DEF Better

(* The smaller of two numbers.                                             *)
LEMMA SmallerOf ==
  ASSUME NEW a \in Nat, NEW b \in Nat
  PROVE  Min({a, b}) \in {a, b} /\ Min({a, b}) <= a /\ Min({a, b}) <= b
<1>1. \E x \in {a, b} : \A y \in {a, b} : x <= y
  OBVIOUS
<1> QED BY <1>1 DEF Min

(* The place of a price among those of a side, and the price at a place.   *)
Place(d, D, p) == Cardinality({q \in D : Better(d, q, p)}) + 1
AtPlace(d, D, i) == CHOOSE p \in D : Place(d, D, p) = i

(* Every price has a place of its own, the better the earlier.             *)
LEMMA PlacesInOrder ==
  ASSUME NEW d \in Sides, NEW D \in SUBSET Nat, IsFiniteSet(D)
  PROVE  /\ Cardinality(D) \in Nat
         /\ \A p \in D : Place(d, D, p) \in 1 .. Cardinality(D)
         /\ \A p, q \in D : Better(d, p, q) <=> Place(d, D, p) < Place(d, D, q)
         /\ \A i \in 1 .. Cardinality(D) :
              AtPlace(d, D, i) \in D /\ Place(d, D, AtPlace(d, D, i)) = i
         /\ \A p, q \in D : Place(d, D, p) = Place(d, D, q) => p = q
<1> DEFINE N == Cardinality(D)
           B(p) == {q \in D : Better(d, q, p)}
           R == [p \in D |-> Place(d, D, p)]
<1>1. N \in Nat /\ \A p \in D : IsFiniteSet(B(p)) /\ Cardinality(B(p)) \in Nat
  BY FS_Subset, FS_CardinalityType
<1>2. \A p \in D : Place(d, D, p) = Cardinality(B(p)) + 1
  BY DEF Place
<1>3. ASSUME NEW p \in D
      PROVE  Place(d, D, p) \in 1 .. N
  <2>1. p \in D /\ p \in Nat
    OBVIOUS
  <2>2. B(p) \subseteq D \ {p}
    BY <2>1, BetterOrders
  <2>3. IsFiniteSet(D \ {p}) /\ Cardinality(D \ {p}) = N - 1
    BY <1>1, FS_RemoveElement
  <2> HIDE DEF B
  <2>4. Cardinality(B(p)) <= N - 1
    BY <2>2, <2>3, FS_Subset
  <2> HIDE DEF N
  <2> QED BY <1>1, <1>2, <2>4
<1>4. ASSUME NEW p \in D, NEW q \in D, Better(d, p, q)
      PROVE  Place(d, D, p) < Place(d, D, q)
  <2>1. p \notin B(p)
    BY BetterOrders
  <2>2. B(p) \cup {p} \subseteq B(q)
    BY <1>4, BetterOrders
  <2> HIDE DEF B
  <2>3. IsFiniteSet(B(p)) /\ Cardinality(B(p) \cup {p}) = Cardinality(B(p)) + 1
    BY <1>1, <2>1, FS_AddElement
  <2>4. Cardinality(B(p) \cup {p}) <= Cardinality(B(q))
    BY <1>1, <2>2, FS_Subset
  <2> QED BY <1>1, <1>2, <2>3, <2>4
<1> HIDE DEF B, N
<1>5. \A p, q \in D : Better(d, p, q) <=> Place(d, D, p) < Place(d, D, q)
  <2> SUFFICES ASSUME NEW p \in D, NEW q \in D, Place(d, D, p) < Place(d, D, q)
               PROVE  Better(d, p, q)
    BY <1>4
  <2>1. p = q \/ Better(d, p, q) \/ Better(d, q, p)
    BY BetterOrders
  <2>2. Place(d, D, p) \in Nat /\ Place(d, D, q) \in Nat
    BY <1>1, <1>3
  <2>3. ~ Better(d, q, p)
    BY <1>4, <2>2
  <2> QED BY <2>1, <2>2, <2>3
<1>6. \A p, q \in D : Place(d, D, p) = Place(d, D, q) => p = q
  <2> SUFFICES ASSUME NEW p \in D, NEW q \in D, Place(d, D, p) = Place(d, D, q)
               PROVE  p = q
    OBVIOUS
  <2>1. p = q \/ Better(d, p, q) \/ Better(d, q, p)
    BY BetterOrders
  <2>2. Place(d, D, p) \in Nat /\ Place(d, D, q) \in Nat
    BY <1>1, <1>3
  <2> QED BY <1>4, <2>1, <2>2
<1>7. R \in Injection(D, 1 .. N)
  BY <1>3, <1>6 DEF Injection, IsInjective
<1>8. IsFiniteSet(1 .. N) /\ Cardinality(1 .. N) = N
  BY <1>1, FS_Interval
<1>9. R \in Surjection(D, 1 .. N)
  <2>1. Cardinality(D) = Cardinality(1 .. N)
    BY <1>8 DEF N
  <2> HIDE DEF R
  <2> QED BY <1>7, <1>8, <2>1, FS_Injection
<1>10. \A i \in 1 .. N : \E p \in D : Place(d, D, p) = i
  BY <1>9 DEF Surjection
<1>11. \A i \in 1 .. N : AtPlace(d, D, i) \in D /\ Place(d, D, AtPlace(d, D, i)) = i
  BY <1>10 DEF AtPlace
<1> QED BY <1>1, <1>3, <1>5, <1>6, <1>11 DEF N

(* A side of a book response is its best places, in their order.           *)
LEMMA ResponseIs ==
  ASSUME NEW d \in Sides, NEW f, NEW depth
  PROVE  SideResponse(d, f, depth) =
           [i \in 1 .. Min({depth, Cardinality(DOMAIN f)}) |->
              [price |-> AtPlace(d, DOMAIN f, i),
               quantity |-> f[AtPlace(d, DOMAIN f, i)].total_quantity]]
BY DEF SideResponse, AtPlace, Place

(* The orders a status query calls open are those that wait.               *)
LEMMA OpenWait ==
  ASSUME IInv, Unlocked, NEW s \in Symbols, NEW d \in Sides
  PROVE  OpenOrders(s, d) = {o \in WaitingOrders : request[o].symbol = s /\ request[o].side = d}
<1>1. orders_to_remove = {}
  BY NoHolder DEF Unlocked
<1>2. ASSUME NEW o \in WaitingOrders
      PROVE  /\ o \in Created /\ orders[o].status \in Active
             /\ ~ \E t \in Tasks : pc[t] = "mark" /\ work[t] = o
  BY DEF IInv, WaitingInv, WaitingOrders, TasksInv
<1>3. ASSUME NEW o \in Created, orders[o].status \in Active,
             ~ \E t \in Tasks : pc[t] = "mark" /\ work[t] = o
      PROVE  o \in WaitingOrders
  BY <1>1, <1>3 DEF IInv, NothingLost, WaitingOrders
<1> QED BY <1>2, <1>3 DEF OpenOrders

(* The levels of a side are those of its open orders, with what these have *)
(* left.                                                                   *)
LEMMA LevelsOpen ==
  ASSUME IInv, TotalsInv, OverflowChecks \/ Fits, Unlocked, NEW s \in Symbols, NEW d \in Sides,
         NEW open, open = OpenOrders(s, d)
  PROVE  /\ DOMAIN levels[s][d] = {request[o].price : o \in open}
         /\ \A p \in DOMAIN levels[s][d] :
              levels[s][d][p].total_quantity = LeftOf({o \in open : request[o].price = p})
<1>1. TypeOK /\ LinesInv /\ quantity_to_reduce = 0
  BY NoHolder DEF Unlocked, IInv, TypeInv
<1>2. open = {o \in WaitingOrders : request[o].symbol = s /\ request[o].side = d}
  BY OpenWait
<1>3. ASSUME NEW o \in open
      PROVE  /\ o \in Created /\ request[o].price \in DOMAIN levels[s][d]
             /\ o \in ToSet(Line(s, d, request[o].price))
  <2>1. o \in Created /\ o \in ToSet(Line(s, d, request[o].price))
    BY <1>2 DEF WaitingOrders, Waiting, OwnLine
  <2>2. request[o].price \in DOMAIN levels[s][d]
    BY <2>1, EmptySet DEF Line, QueueAt, LevelAt, EmptyLevel
  <2> QED BY <2>1, <2>2
<1>4. ASSUME NEW p \in DOMAIN levels[s][d]
      PROVE  /\ ToSet(levels[s][d][p].orders) = {o \in open : request[o].price = p}
             /\ ToSet(levels[s][d][p].orders) # {}
             /\ levels[s][d][p].total_quantity = LeftOf(ToSet(levels[s][d][p].orders))
  <2> DEFINE S == ToSet(levels[s][d][p].orders)
  <2>1. /\ p \in Prices /\ levels[s][d][p] \in PriceLevel
        /\ levels[s][d][p].orders = Line(s, d, p) /\ S \subseteq WaitingOrders
        /\ S \subseteq Created
    BY LevelOrders
  <2>2. LeftOf(S) \in Nat
    BY <2>1, LeftType
  <2>3. Accounted(levels[s][d][p], LeftOf(S), 0)
    BY <1>1, NothingOwed DEF TotalsInv
  <2>4. levels[s][d][p].orders # << >> /\ levels[s][d][p].total_quantity = LeftOf(S)
    <3> HIDE DEF S
    <3> QED BY <2>2, <2>3 DEF Accounted
  <2>5. S # {}
    <3>1. levels[s][d][p].orders \in Seq(Nat)
      BY <2>1 DEF PriceLevel
    <3>2. 1 \in DOMAIN levels[s][d][p].orders
      BY <2>4, <3>1
    <3> QED BY <3>2 DEF ToSet
  <2>6. \A o \in S : request[o].symbol = s /\ request[o].side = d /\ request[o].price = p
    BY <1>1, <2>1 DEF LinesInv
  <2>7. S = {o \in open : request[o].price = p}
    <3>1. \A o \in open : request[o].price = p => o \in S
      BY <1>3, <2>1
    <3> QED BY <1>2, <2>1, <2>6, <3>1
  <2> QED BY <2>4, <2>5, <2>7
<1>5. DOMAIN levels[s][d] \subseteq {request[o].price : o \in open}
  BY <1>4
<1> QED BY <1>3, <1>4, <1>5

(* When nobody is matching, a waiting order has left what is stored.       *)
LEMMA StoredLeft ==
  ASSUME IInv, Unlocked, NEW S \in SUBSET WaitingOrders
  PROVE  MapThenSumSet(LAMBDA o : RemainingQuantity(request[o], orders[o]), S) = LeftOf(S)
<1> DEFINE g == RemainingOf
           Is(h) == h = [q \in SUBSET S |->
                           IF q = {} THEN 0
                           ELSE RemainingQuantity(request[Some(q)], orders[Some(q)]) + h[Without(q)]]
<1>1. MapThenSumSet(LAMBDA o : RemainingQuantity(request[o], orders[o]), S)
        = (CHOOSE h : Is(h))[S]
  BY DEF MapThenSumSet, MapThenFoldSet, Some, Without
<1>2. \A o \in S : RemainingQuantity(request[o], orders[o]) = g[o]
  <2> SUFFICES ASSUME NEW o \in S
               PROVE  RemainingQuantity(request[o], orders[o]) = RemainingOf[o]
    OBVIOUS
  <2>1. TypeOK /\ o \in Created /\ o \in WaitingOrders
    BY DEF IInv, TypeInv, WaitingOrders
  <2>2. o \in Ids
    BY <2>1, CreatedType
  <2>3. filled_qty[o] = 0
    BY <2>2, NoHolder DEF Unlocked
  <2>4. resting[o].filled = orders[o].filled + filled_qty[o] /\ orders[o].filled \in Nat
    BY <2>1, <2>2, CopyType DEF IInv, WaitingInv
  <2>5. resting[o].filled = orders[o].filled
    BY <2>3, <2>4
  <2> QED BY <2>2, <2>5 DEF RemainingOf, Remaining, RemainingQuantity
<1>3. ASSUME NEW h, NEW q \in SUBSET S
      PROVE  (IF q = {} THEN 0
              ELSE RemainingQuantity(request[Some(q)], orders[Some(q)]) + h[Without(q)])
              = (IF q = {} THEN 0 ELSE g[Some(q)] + h[Without(q)])
  <2>1. q # {} => Some(q) \in S
    BY SomeIn
  <2> QED BY <1>2, <2>1
<1>4. \A h : IsSum(h, g, S) <=> Is(h)
  BY <1>3 DEF IsSum
<1>5. (CHOOSE h : IsSum(h, g, S)) = (CHOOSE h : Is(h))
  BY <1>4
<1>6. SumFunctionOnSet(g, S) = (CHOOSE h : IsSum(h, g, S))[S]
  BY SumIs
<1> QED BY <1>1, <1>5, <1>6 DEF LeftOf

(* A side of a response, of any depth, shows the open orders of the side.  *)
LEMMA SideShows ==
  ASSUME IInv, TotalsInv, OverflowChecks \/ Fits, Unlocked, NEW s \in Symbols, NEW d \in Sides,
         NEW depth \in Nat
  PROVE  Shows(SideResponse(d, levels[s][d], depth), s, d, depth)
<1> DEFINE f == levels[s][d]
           D == DOMAIN f
           open == OpenOrders(s, d)
           infos == SideResponse(d, f, depth)
           M == Min({depth, Cardinality(D)})
<1>1. D \in SUBSET Nat /\ IsFiniteSet(D)
  <2>1. D \subseteq Prices
    BY LevelOrders
  <2> HIDE DEF D
  <2>2. IsFiniteSet(D)
    BY <2>1, PricesFinite, FS_Subset
  <2> QED BY <2>1, <2>2, PricesFinite
<1>2. /\ D = {request[o].price : o \in open}
      /\ \A p \in D : f[p].total_quantity = LeftOf({o \in open : request[o].price = p})
  BY LevelsOpen
<1>3. open \subseteq WaitingOrders
  BY OpenWait
<1>4. infos = [i \in 1 .. M |-> [price |-> AtPlace(d, D, i),
                               quantity |-> f[AtPlace(d, D, i)].total_quantity]]
  <2> HIDE DEF f
  <2> QED BY ResponseIs
<1> HIDE DEF infos
<1>5. /\ Cardinality(D) \in Nat
      /\ \A p \in D : Place(d, D, p) \in 1 .. Cardinality(D)
      /\ \A p, q \in D : Better(d, p, q) <=> Place(d, D, p) < Place(d, D, q)
      /\ \A i \in 1 .. Cardinality(D) :
           AtPlace(d, D, i) \in D /\ Place(d, D, AtPlace(d, D, i)) = i
      /\ \A p, q \in D : Place(d, D, p) = Place(d, D, q) => p = q
  <2> HIDE DEF D
  <2> QED BY <1>1, PlacesInOrder
<1> HIDE DEF D, open, f
<1>6. M \in Nat /\ M <= Cardinality(D)
  BY <1>5, SmallerOf
<1> HIDE DEF M
<1>7. \A i \in 1 .. M : /\ i \in 1 .. Cardinality(D) /\ AtPlace(d, D, i) \in D
                         /\ Place(d, D, AtPlace(d, D, i)) = i
                         /\ infos[i].price = AtPlace(d, D, i)
                         /\ infos[i].quantity = f[AtPlace(d, D, i)].total_quantity
  BY <1>4, <1>5, <1>6
<1>8. DOMAIN infos = 1 .. M /\ Len(infos) = M
  <2>1. DOMAIN infos = 1 .. M
    BY <1>4
  <2>2. infos = [i \in 1 .. M |-> infos[i]]
    BY <1>4
  <2>3. infos \in Seq({infos[i] : i \in 1 .. M})
    BY <1>6, <2>2
  <2> QED BY <1>6, <2>1, <2>3
<1>9. Len(infos) = Min({depth, Cardinality({request[o].price : o \in open})})
  BY <1>2, <1>8 DEF M
<1>10. {infos[i].price : i \in DOMAIN infos} \subseteq {request[o].price : o \in open}
  <2>1. \A i \in DOMAIN infos : infos[i].price \in D
    BY <1>7, <1>8
  <2> HIDE DEF D
  <2> QED BY <1>2, <2>1
<1>11. \A i, j \in DOMAIN infos : i < j => Better(d, infos[i].price, infos[j].price)
  BY <1>5, <1>7, <1>8
<1>12. ASSUME NEW p \in {infos[i].price : i \in DOMAIN infos},
              NEW q \in {request[o].price : o \in open} \ {infos[i].price : i \in DOMAIN infos}
       PROVE  Better(d, p, q)
  <2>1. PICK i \in 1 .. M : p = infos[i].price
    BY <1>8
  <2>2. p \in D /\ Place(d, D, p) = i /\ q \in D
    BY <1>2, <1>7, <2>1
  <2>3. Place(d, D, q) \in 1 .. Cardinality(D)
    BY <1>5, <2>2
  <2>4. Place(d, D, q) \notin 1 .. M
    <3> SUFFICES ASSUME Place(d, D, q) \in 1 .. M  PROVE FALSE
      OBVIOUS
    <3>1. /\ AtPlace(d, D, Place(d, D, q)) \in D
          /\ Place(d, D, AtPlace(d, D, Place(d, D, q))) = Place(d, D, q)
          /\ infos[Place(d, D, q)].price = AtPlace(d, D, Place(d, D, q))
      BY <1>7
    <3>2. AtPlace(d, D, Place(d, D, q)) = q
      BY <1>5, <2>2, <3>1
    <3> QED BY <1>8, <3>1, <3>2
  <2>5. Place(d, D, p) < Place(d, D, q)
    BY <1>6, <2>2, <2>3, <2>4
  <2> QED BY <1>5, <2>2, <2>5
<1>13. ASSUME NEW i \in DOMAIN infos
       PROVE  infos[i].quantity =
                MapThenSumSet(LAMBDA o : RemainingQuantity(request[o], orders[o]),
                              {o \in open : request[o].price = infos[i].price})
  <2> DEFINE S == {o \in open : request[o].price = infos[i].price}
  <2>1. S \in SUBSET WaitingOrders
    BY <1>3
  <2>2. infos[i].price \in D /\ infos[i].quantity = f[infos[i].price].total_quantity
    BY <1>7, <1>8
  <2>3. infos[i].quantity = LeftOf(S)
    BY <1>2, <2>2
  <2> HIDE DEF S
  <2>4. MapThenSumSet(LAMBDA o : RemainingQuantity(request[o], orders[o]), S) = LeftOf(S)
    BY <2>1, StoredLeft
  <2> QED BY <2>3, <2>4 DEF S
<1> QED BY <1>9, <1>10, <1>11, <1>12, <1>13 DEF Shows, open, infos, f

(* A book response never shows a price, an order of prices or a quantity   *)
(* that the status queries contradict, at any depth and for any number of  *)
(* clients, where additions are checked or nothing can overflow            *)
(* (book.rs:208-231).                                                      *)
THEOREM ViewsAreTrue ==
  ASSUME OverflowChecks \/ Fits
  PROVE  ApiSpec => []BookResponseShowsOpenOrders
<1>1. ASSUME IInv, TotalsInv  PROVE BookResponseShowsOpenOrders
  <2> SUFFICES ASSUME Unlocked, NEW s \in Symbols, NEW depth \in 0 .. Cardinality(Prices)
               PROVE  /\ Shows(SideResponse("Buy", levels[s]["Buy"], depth), s, "Buy", depth)
                      /\ Shows(SideResponse("Sell", levels[s]["Sell"], depth), s, "Sell", depth)
    BY DEF BookResponseShowsOpenOrders, GetOrderBook
  <2>1. depth \in Nat
    <3>1. Cardinality(Prices) \in Nat
      BY PricesFinite, FS_CardinalityType
    <3> QED BY <3>1
  <2>2. "Buy" \in Sides /\ "Sell" \in Sides
    BY DEF Sides
  <2> QED BY <1>1, <2>1, <2>2, SideShows
<1> QED BY <1>1, EngineUnderApi, Invariance, Totals, PTL

-----------------------------------------------------------------------------
(* A status query in the middle of a sweep.                                *)

(* The fills that have still to reach the map are of trades to be told.    *)
PendingTold == \A o \in Created : filled_qty[o] <= Told(result, o)

(* Only a trade adds to what is pending.                                   *)
LEMMA NextPending ==
  ASSUME IInv, IInv', CrossingInv, ToldInv, ToldInv', PendingTold, [ApiNext]_apiVars
  PROVE  PendingTold'
<1>1. /\ result \in Seq(TradeRecord) /\ result' \in Seq(TradeRecord)
      /\ \A o : Told(result, o) \in Nat
      /\ \A o : Told(result, o)' \in Nat
  <2>1. result \in Seq(TradeRecord) /\ result' \in Seq(TradeRecord)
    BY DEF ToldInv, ResultInv
  <2>2. \A l \in Seq(TradeRecord) : \A o : Told(l, o) \in Nat
    BY ListType
  <2>3. ASSUME NEW o
        PROVE  Told(result, o)' = Told(result', o)
    BY DEF Told, TradesOf, Quantity
  <2> QED BY <2>1, <2>2, <2>3
<1>2. CASE \A o \in Ids : filled_qty'[o] = 0
  <2>1. Created' \subseteq Ids
    BY CreatedType, EngineAssumption DEF IInv, TypeInv, TypeOK, Created, Ids, EngineAssumption
  <2> QED BY <1>1, <1>2, <2>1 DEF PendingTold
<1>3. CASE UNCHANGED <<request, filled_qty, result>>
  BY <1>3 DEF PendingTold, Created, Told, TradesOf, Quantity
<1>4. ASSUME NEW t \in Tasks, Match(t)
      PROVE  PendingTold'
  <2>1. Trade(t) /\ result' = Append(result, NextTrade(t)) /\ request' = request /\ TypeOK
    BY <1>4 DEF Match, Trade, IInv, TypeInv
  <2>2. PICK s0 \in Symbols, d0 \in Sides, p \in Prices, o \in WaitingOrders, n \in Nat,
             popped \in BOOLEAN : TradeFills(t, s0, d0, p, o, n, popped)
    BY <2>1, TradeEffect
  <2>3. /\ s0 = Own(t).symbol /\ d0 = Opposite(Own(t).side) /\ p = BestPrice(Own(t))
        /\ o = Head(Line(s0, d0, p)) /\ n = FillQuantity(Own(t), o)
        /\ filled_qty' = [filled_qty EXCEPT ![o] = filled_qty[o] + n]
    BY <2>2 DEF TradeFills
  <2>4. PICK tr : tr = NextTrade(t)
    OBVIOUS
  <2>5. tr \in TradeRecord
    BY <2>1, <2>4, NextTradeFair DEF FairTrades
  <2>6. tr.quantity = n /\ o \in {tr.buyer_order_id, tr.seller_order_id}
    <3>1. o = Head(QueueAt(Against(Own(t)), p))
      BY <2>3 DEF Line, Against
    <3> QED BY <2>3, <2>4, <3>1 DEF NextTrade, NewTrade
  <2>7. Created' = Created /\ Created \subseteq Ids /\ \A q \in Ids : filled_qty[q] \in Nat
    BY <2>1, CreatedType, CopyType DEF Created
  <2>8. ASSUME NEW q \in Created
        PROVE  filled_qty'[q] <= Told(result, q)'
    <3>1. Told(result, q)' = Told(Append(result, tr), q)
      BY <2>1, <2>4 DEF Told, TradesOf, Quantity
    <3>2. Told(Append(result, tr), q)
            = Told(result, q) + IF q \in {tr.buyer_order_id, tr.seller_order_id}
                                THEN tr.quantity ELSE 0
      BY <1>1, <2>5, OneMore
    <3>3. filled_qty[q] <= Told(result, q) /\ filled_qty[q] \in Nat /\ Told(result, q) \in Nat
      BY <1>1, <2>7 DEF PendingTold
    <3>4. filled_qty'[q] = filled_qty[q] + IF q = o THEN n ELSE 0
      BY <2>3, <2>7, <3>3 DEF IInv, TypeInv, TypeOK
    <3> QED BY <2>6, <3>1, <3>2, <3>3, <3>4
  <2> QED BY <2>7, <2>8 DEF PendingTold
<1>5. ASSUME NEW t \in Tasks, Succeed(t) \/ Panic(t)
      PROVE  \A o \in Ids : filled_qty'[o] = 0
  <2>1. filled_qty' = filled_qty
    BY <1>5 DEF Succeed, Panic, StoreFilled, StoreResting, PanicInSum, PanicInAdd, locals
  <2>2. writer = NoTask \/ pc[t] = "store"
    BY <1>5 DEF Succeed, Panic, StoreFilled, StoreResting, PanicInSum, PanicInAdd
  <2> QED BY <2>1, <2>2, NoHolder, Storing
<1>6. ASSUME NEW t \in Tasks, FinishLevel(t)
      PROVE  \A o \in Ids : filled_qty'[o] = 0
  BY <1>6 DEF FinishLevel, NoFills
<1>7. ASSUME NEW t \in Tasks, SubmitOrder(t), UNCHANGED told
      PROVE  PendingTold'
  <2>1. /\ request \in Seq(Request) /\ filled_qty' = filled_qty /\ result' = result
        /\ Created' \subseteq Ids
        /\ Created' = Created \cup {Len(request) + 1}
    <3>1. /\ request \in Seq(Request) /\ Len(request) + 1 <= MaxOrders /\ Len(request) \in Nat
          /\ \E r \in Request : request' = Append(request, r)
      BY <1>7, EngineAssumption DEF SubmitOrder, IInv, TypeInv, TypeOK, EngineAssumption
    <3> QED BY <1>7, <3>1, EngineAssumption
        DEF SubmitOrder, locals, told, Created, Ids, EngineAssumption
  <2>2. \A o \in Created' \ Created : filled_qty[o] = 0
    <3>1. \A o \in Ids : filled_qty[o] \in Nat /\ (filled_qty[o] > 0 => o \in Created)
      BY CopyType DEF IInv, TypeInv, PendingInv
    <3> QED BY <2>1, <3>1
  <2>3. \A o : Told(result, o)' = Told(result, o)
    BY <2>1 DEF Told, TradesOf, Quantity
  <2> QED BY <1>1, <2>1, <2>2, <2>3 DEF PendingTold
<1>8. ASSUME NEW t \in Tasks, UNCHANGED told,
             \/ Refuse(t) \/ CancelCheck(t) \/ RejectMarket(t) \/ CancelRemove(t)
             \/ StartMatching(t) \/ CancelMissed(t) \/ CountTrades(t) \/ CancelMark(t)
      PROVE  UNCHANGED <<request, filled_qty, result>>
  BY <1>8 DEF Refuse, CancelCheck, RejectMarket, CancelRemove, StartMatching, CancelMissed,
    CountTrades, CancelMark, vars, locals, told
<1>9. CASE UNCHANGED apiVars
  BY <1>3, <1>9 DEF apiVars, vars, locals, told
<1> QED BY <1>2, <1>3, <1>4, <1>5, <1>6, <1>7, <1>8, <1>9
    DEF ApiNext, Arrive, Serve, TurnDown, Confirm, Silent

(* Nothing has been told of the order that is being matched.               *)
LEMMA TakerUntold ==
  ASSUME IInv, RestingInv, ToldInv, BalanceInv, NEW t \in Tasks, pc[t] \in {"match", "store"}
  PROVE  Told(ledger, work[t]) = 0
<1>1. /\ Taker = work[t] /\ work[t] \in Created /\ FilledSoFar[work[t]] = incoming.filled
      /\ incoming.filled \in Nat
  BY TakerIs
<1>2. /\ result \in Seq(TradeRecord) /\ ledger \in Seq(TradeRecord)
      /\ \A i \in DOMAIN result : TakerOf(result[i]) = work[t]
  BY DEF ToldInv, LedgerInv, ResultInv
<1>3. TradesOf(result, work[t]) = DOMAIN result
  BY <1>2 DEF TradesOf, TakerOf
<1>4. Told(result, work[t]) = incoming.filled
  BY <1>3 DEF Told, Total, BalanceInv
<1>5. Told(ledger, work[t]) \in Nat
  BY <1>2, ListType
<1> QED BY <1>1, <1>4, <1>5 DEF BalanceInv

(* At every moment of every sweep, whatever a thread reads of an order is  *)
(* between what clients were told and what they are about to be told       *)
(* (engine.rs:353-361).                                                    *)
THEOREM StatusesAreBetween == ApiSpec => []StatusIsBetween
<1>1. ApiInit => PendingTold
  BY DEF ApiInit, Init, PendingTold, Created
<1>2. IInv /\ IInv' /\ CrossingInv /\ ToldInv /\ ToldInv' /\ PendingTold /\ [ApiNext]_apiVars
        => PendingTold'
  BY NextPending
<1>3. ASSUME IInv, RestingInv, ToldInv, BalanceInv, PendingTold
      PROVE  StatusIsBetween
  <2> SUFFICES ASSUME NEW o \in Created
               PROVE  /\ Told(ledger, o) <= orders[o].filled
                      /\ orders[o].filled <= Told(ledger, o) + Told(result, o)
    BY DEF StatusIsBetween
  <2>1. /\ Told(ledger, o) \in Nat /\ Told(result, o) \in Nat
        /\ FilledSoFar[o] = Told(ledger, o) + Told(result, o)
        /\ filled_qty[o] <= Told(result, o)
    BY <1>3, ListType DEF ToldInv, LedgerInv, ResultInv, BalanceInv, PendingTold
  <2>2. /\ o \in Ids /\ orders[o].filled \in Nat /\ filled_qty[o] \in Nat
        /\ resting[o].filled \in Nat
    BY <1>3, CreatedType, CopyType DEF IInv, TypeInv
  <2>3. CASE o = Taker
    <3>1. writer # NoTask
      BY <2>2, <2>3, NoTaker
    <3>2. writer \in Tasks /\ pc[writer] \in {"match", "store"}
      BY <1>3, <3>1 DEF IInv, TypeInv, TypeOK, LockDiscipline
    <3>3. Taker = work[writer] /\ orders[o] = Absent
      BY <1>3, <2>3, <3>2, TakerIs
    <3>4. Told(ledger, o) = 0
      BY <1>3, <2>3, <3>2, <3>3, TakerUntold
    <3> QED BY <2>1, <3>3, <3>4 DEF Absent
  <2>4. CASE o # Taker
    <3>1. FilledSoFar[o] = orders[o].filled + filled_qty[o]
      <4>1. resting[o] # Absent => resting[o].filled = orders[o].filled + filled_qty[o]
        BY <1>3, <2>2 DEF RestingInv, IInv, WaitingInv
      <4> QED BY <2>2, <2>4, <4>1 DEF FilledSoFar
    <3> QED BY <2>1, <2>2, <3>1
  <2> QED BY <2>3, <2>4
<1> QED BY <1>1, <1>2, <1>3, EngineUnderApi, Invariance, Crossing, ClonesWait, Telling, Balance, PTL
    DEF ApiSpec

-----------------------------------------------------------------------------
(* Waiting orders are served in turn.                                      *)

(* Who has traded while it waited is first in its line as long as it waits.*)
FirstInLine(list) ==
  \A i \in DOMAIN list :
    /\ MakerOf(list[i]) \in Created /\ orders[MakerOf(list[i])] # Absent
    /\ Waiting(MakerOf(list[i])) => Head(OwnLine(MakerOf(list[i]))) = MakerOf(list[i])

TurnInv == InTurn(ledger \o result) /\ FirstInLine(ledger \o result)

(* How a line can change in a step.                                        *)
LineMoves(old, new) ==
  \/ new = old
  \/ old # << >> /\ new = Tail(old)
  \/ Taker \in Created /\ new = Append(old, Taker)
  \/ \E k \in 1 .. Len(old) : new = Market!Without(old, k)

(* The engine moves its lines in no other way than the market does.        *)
LEMMA LineSteps ==
  ASSUME IInv, CrossingInv, RestingInv, TotalsInv, [Next]_vars,
         NEW s \in Symbols, NEW d \in Sides, NEW p \in Prices
  PROVE  LineMoves(Line(s, d, p), Lines'[s][d][p])
<1>1. [Market!BookNext]_(Market!bookVars)
  BY NextMarket
<1>2. /\ Lines = [x \in Symbols |-> [y \in Sides |-> [z \in Prices |-> Line(x, y, z)]]]
      /\ Lines[s][d][p] = Line(s, d, p)
      /\ TypeOK /\ Line(s, d, p) \in Seq(Nat)
  BY LevelType DEF Lines, Line, IInv, TypeInv, TypeOK, LevelsOK
<1>3. Taker # NoOrder => /\ Taker \in Created /\ request[Taker] \in Request
  <2>1. Taker # NoOrder => writer \in Tasks /\ pc[writer] \in {"match", "store"}
    BY DEF Taker, Unlocked, IInv, TypeInv, TypeOK, LockDiscipline
  <2> QED BY <2>1, TakerIs
<1>4. ASSUME Market!Trade
      PROVE  LineMoves(Line(s, d, p), Lines'[s][d][p])
  <2>1. Taker # NoOrder
    BY <1>4 DEF Market!Trade, Market!Nobody, NoOrder
  <2>2. PICK s0 \in Symbols, d0 \in Sides, r \in Request :
          r = request[Taker] /\ s0 = r.symbol /\ d0 = Opposite(r.side)
    BY <1>3, <2>1, RequestType
  <2>3. PICK p0 \in Prices :
          /\ p0 \in Market!Offers(r)
          /\ Lines' = Lines \/ Lines' = [Lines EXCEPT ![s0][d0][p0] = Tail(@)]
    <3>1. Market!Opposite(r.side) = d0
      BY <2>2 DEF Market!Opposite, Opposite
    <3> QED BY <1>4, <2>2, <3>1 DEF Market!Trade, Market!Best
  <2>4. Lines[s0][d0][p0] # << >>
    BY <2>2, <2>3 DEF Market!Offers, Market!Opposite, Opposite
  <2>5. CASE Lines' = Lines
    BY <1>2, <2>5 DEF LineMoves
  <2>6. CASE Lines' = [Lines EXCEPT ![s0][d0][p0] = Tail(@)]
    <3>1. CASE s = s0 /\ d = d0 /\ p = p0
      <4>1. Lines'[s][d][p] = Tail(Line(s, d, p)) /\ Line(s, d, p) # << >>
        BY <1>2, <2>4, <2>6, <3>1
      <4> QED BY <4>1 DEF LineMoves
    <3>2. CASE s # s0 \/ d # d0 \/ p # p0
      <4>1. Lines'[s][d][p] = Line(s, d, p)
        BY <1>2, <2>6, <3>2
      <4> QED BY <4>1 DEF LineMoves
    <3> QED BY <3>1, <3>2
  <2> QED BY <2>3, <2>5, <2>6
<1>5. ASSUME Market!Rest
      PROVE  LineMoves(Line(s, d, p), Lines'[s][d][p])
  <2>1. /\ Taker # NoOrder
        /\ Lines' = [Lines EXCEPT ![request[Taker].symbol][request[Taker].side]
                                    [request[Taker].price] = Append(@, Taker)]
    BY <1>5 DEF Market!Rest, Market!Nobody, NoOrder
  <2>2. Lines'[s][d][p] = Line(s, d, p) \/ Lines'[s][d][p] = Append(Line(s, d, p), Taker)
    BY <1>2, <2>1
  <2> QED BY <1>3, <2>1, <2>2 DEF LineMoves
<1>6. ASSUME NEW o, Market!Withdraw(o)
      PROVE  LineMoves(Line(s, d, p), Lines'[s][d][p])
  <2>1. PICK s0, d0, p0 :
          s0 = request[o].symbol /\ d0 = request[o].side /\ p0 = request[o].price
    OBVIOUS
  <2>2. \E k \in DOMAIN Lines[s0][d0][p0] :
          Lines' = [Lines EXCEPT ![s0][d0][p0] = Market!Without(Lines[s0][d0][p0], k)]
    BY <1>6, <2>1 DEF Market!Withdraw
  <2>3. \/ Lines'[s][d][p] = Line(s, d, p)
        \/ \E k \in DOMAIN Line(s, d, p) : Lines'[s][d][p] = Market!Without(Line(s, d, p), k)
    BY <1>2, <2>2
  <2> QED BY <1>2, <2>3 DEF LineMoves
<1>7. Lines' = Lines \/ Market!Trade \/ Market!Rest \/ \E o : Market!Withdraw(o)
  BY <1>1 DEF Market!BookNext, Market!bookVars, Market!Ask, Market!Arrive, Market!Handle,
    Market!Done, Market!TurnAway
<1>8. Lines' = Lines => Lines'[s][d][p] = Line(s, d, p)
  BY <1>2
<1> QED BY <1>4, <1>5, <1>6, <1>7, <1>8 DEF LineMoves

(* A sequence without its k-th element.                                    *)
LEMMA WithoutAt ==
  ASSUME NEW q \in Seq(Nat), NEW k \in 1 .. Len(q)
  PROVE  /\ Market!Without(q, k) \in Seq(Nat)
         /\ Len(Market!Without(q, k)) = Len(q) - 1
         /\ \A i \in 1 .. Len(q) - 1 :
              Market!Without(q, k)[i] = IF i < k THEN q[i] ELSE q[i + 1]
<1> DEFINE a == SubSeq(q, 1, k - 1)
           b == SubSeq(q, k + 1, Len(q))
           r == a \o b
<1>1. Len(q) \in Nat /\ k \in Nat /\ \A i \in 1 .. Len(q) : q[i] \in Nat
  OBVIOUS
<1>2. /\ a \in Seq(Nat) /\ Len(a) = k - 1
      /\ \A i \in 1 .. k - 1 : a[i] = q[i]
  BY <1>1
<1>3. /\ b \in Seq(Nat) /\ Len(b) = Len(q) - k
      /\ \A i \in 1 .. Len(q) - k : b[i] = q[k + i]
  <2>1. \A i \in k + 1 .. Len(q) : q[i] \in Nat
    BY <1>1
  <2>2. k + 1 \in Int /\ Len(q) \in Int
    BY <1>1
  <2>3. /\ SubSeq(q, k + 1, Len(q)) \in Seq(Nat)
        /\ Len(SubSeq(q, k + 1, Len(q))) = IF k + 1 <= Len(q) THEN Len(q) - (k + 1) + 1 ELSE 0
        /\ \A i \in 1 .. Len(q) - (k + 1) + 1 : SubSeq(q, k + 1, Len(q))[i] = q[(k + 1) + i - 1]
    BY <2>1, <2>2, SubSeqProperties
  <2> QED BY <1>1, <2>3
<1>4. Market!Without(q, k) = r
  BY DEF Market!Without
<1> HIDE DEF a, b
<1>5. r \in Seq(Nat) /\ Len(r) = Len(a) + Len(b)
  BY <1>2, <1>3, ConcatProperties
<1>6. \A i \in 1 .. Len(a) + Len(b) : r[i] = IF i <= Len(a) THEN a[i] ELSE b[i - Len(a)]
  BY <1>2, <1>3, ConcatProperties
<1>7. ASSUME NEW i \in 1 .. Len(q) - 1
      PROVE  r[i] = IF i < k THEN q[i] ELSE q[i + 1]
  <2>1. CASE i < k
    BY <1>1, <1>2, <1>3, <1>6, <2>1
  <2>2. CASE ~ (i < k)
    <3>1. i - (k - 1) \in 1 .. Len(q) - k /\ k + (i - (k - 1)) = i + 1
      BY <1>1, <2>2
    <3>2. i \in 1 .. Len(a) + Len(b) /\ ~ (i <= Len(a)) /\ i - Len(a) = i - (k - 1)
      BY <1>1, <1>2, <1>3, <2>2
    <3>3. r[i] = b[i - (k - 1)]
      BY <1>6, <3>2
    <3> QED BY <1>3, <2>2, <3>1, <3>3
  <2> QED BY <2>1, <2>2
<1> HIDE DEF r
<1>8. Len(r) = Len(q) - 1
  BY <1>1, <1>2, <1>3, <1>5
<1> QED BY <1>4, <1>5, <1>7, <1>8

(* Who is first in a line stays first as long as it is there.              *)
LEMMA FirstOfLine ==
  ASSUME NEW old \in Seq(Nat), IsInjective(old), NEW new, LineMoves(old, new),
         NEW m \in ToSet(new), m # Taker, Taker \in Created => Taker \in Nat
  PROVE  m \in ToSet(old) /\ (Head(old) = m => Head(new) = m)
<1>1. CASE new = old
  BY <1>1
<1>2. CASE old # << >> /\ new = Tail(old)
  BY <1>2, TailSet
<1>3. CASE Taker \in Created /\ new = Append(old, Taker)
  <2>1. m \in ToSet(old)
    BY <1>3, AppendSet
  <2>2. old # << >>
    BY <2>1, EmptySet
  <2> QED BY <1>3, <2>1, <2>2
<1>4. ASSUME NEW k \in 1 .. Len(old), new = Market!Without(old, k)
      PROVE  m \in ToSet(old) /\ (Head(old) = m => Head(new) = m)
  <2>0. /\ Len(new) = Len(old) - 1 /\ new \in Seq(Nat)
        /\ \A i \in 1 .. Len(old) - 1 : new[i] = IF i < k THEN old[i] ELSE old[i + 1]
    BY <1>4, WithoutAt
  <2>1. /\ Len(new) = Len(old) - 1 /\ new \in Seq(Nat)
        /\ \A i \in 1 .. Len(old) - 1 : new[i] = IF i < k THEN old[i] ELSE old[i + 1]
        /\ Len(old) \in Nat /\ DOMAIN old = 1 .. Len(old) /\ DOMAIN new = 1 .. Len(old) - 1
    BY <2>0
  <2>2. PICK i \in 1 .. Len(old) - 1 : m = new[i]
    BY <2>1 DEF ToSet
  <2>3. PICK j \in 1 .. Len(old) : m = old[j] /\ j # k /\ (j = i \/ j = i + 1)
    <3>1. CASE i < k
      <4>1. i \in 1 .. Len(old) /\ i # k /\ m = old[i]
        BY <2>1, <2>2, <3>1
      <4> QED BY <4>1
    <3>2. CASE ~ (i < k)
      <4>1. m = old[i + 1]
        BY <2>1, <2>2, <3>2
      <4>2. i + 1 \in 1 .. Len(old) /\ i + 1 # k
        <5>1. Len(old) \in Nat /\ k \in Nat
          BY <2>1
        <5> QED BY <3>2, <5>1
      <4> QED BY <4>1, <4>2
    <3> QED BY <3>1, <3>2
  <2>4. m \in ToSet(old)
    BY <2>3 DEF ToSet
  <2>5. ASSUME Head(old) = m
        PROVE  Head(new) = m
    <3>1. old[1] = m /\ 1 \in DOMAIN old /\ j \in DOMAIN old
      BY <2>3, <2>5
    <3>2. j = 1
      BY <2>3, <3>1 DEF IsInjective
    <3>3. i = 1 /\ k > 1
      BY <1>4, <2>2, <2>3, <3>2
    <3>4. new[1] = m /\ new # << >>
      BY <2>1, <2>2, <3>3
    <3> QED BY <2>1, <3>4
  <2> QED BY <2>4, <2>5
<1> QED BY <1>1, <1>2, <1>3, <1>4 DEF LineMoves

(* A stored order never comes back to its line, and once it is first there *)
(* it stays first.                                                         *)
LEMMA FirstStays ==
  ASSUME IInv, CrossingInv, RestingInv, TotalsInv, [Next]_vars, NEW m \in Created, orders[m] # Absent,
         Waiting(m)'
  PROVE  Waiting(m) /\ (Head(OwnLine(m)) = m => Head(OwnLine(m))' = m)
<1>1. /\ TypeOK /\ LinesInv /\ m \in Ids /\ request[m] \in Request /\ request'[m] = request[m]
      /\ request[m].symbol \in Symbols /\ request[m].side \in Sides
  BY CreatedType, RequestsStay, RequestType DEF IInv, TypeInv
<1>2. PICK s \in Symbols, d \in Sides : s = request[m].symbol /\ d = request[m].side
  BY <1>1
<1>3. PICK p : p = request[m].price
  OBVIOUS
<1>4. OwnLine(m) = Line(s, d, p) /\ OwnLine(m)' = Line(s, d, p)'
  BY <1>1, <1>2, <1>3 DEF OwnLine, Line
<1>5. p \in Prices
  <2>1. IsLevelMap(levels[s][d])'
    BY NextIInv DEF IInv, TypeInv, TypeOK, LevelsOK
  <2>2. QueueAt(levels[s][d], p)' # << >>
    BY <1>4, EmptySet DEF Waiting, Line
  <2>3. IsLevelMap(levels'[s][d]) /\ QueueAt(levels'[s][d], p) # << >>
    BY <2>1, <2>2 DEF IsLevelMap, QueueAt, LevelAt
  <2> QED BY <2>3, LevelType
<1>6. /\ Line(s, d, p)' = Lines'[s][d][p]
      /\ Line(s, d, p) \in Seq(Nat) /\ IsInjective(Line(s, d, p))
  BY <1>1, <1>5, LevelType DEF Lines, Line, TypeOK, LevelsOK, LinesInv
<1>7. m # Taker /\ (Taker \in Created => Taker \in Nat)
  <2>1. Taker # NoOrder => writer \in Tasks /\ pc[writer] \in {"match", "store"}
    BY DEF Taker, Unlocked, IInv, TypeInv, TypeOK, LockDiscipline
  <2>2. m # NoOrder
    BY <1>1 DEF Ids, NoOrder
  <2>3. Taker \in Created => Taker \in Nat
    BY <1>1, CreatedType
  <2> QED BY <2>1, <2>2, <2>3, TakerIs
<1>8. PICK new : new = Lines'[s][d][p]
  OBVIOUS
<1>9. LineMoves(Line(s, d, p), new)
  BY <1>5, <1>8, LineSteps
<1>10. m \in ToSet(new)
  BY <1>4, <1>6, <1>8 DEF Waiting
<1>11. m \in ToSet(Line(s, d, p)) /\ (Head(Line(s, d, p)) = m => Head(new) = m)
  BY <1>6, <1>7, <1>9, <1>10, FirstOfLine
<1> QED BY <1>4, <1>6, <1>8, <1>11 DEF Waiting

(* What held of a list of trades holds after a step.                       *)
LEMMA TurnStays ==
  ASSUME IInv, CrossingInv, RestingInv, TotalsInv, [Next]_vars,
         NEW l \in Seq(TradeRecord), InTurn(l), FirstInLine(l)
  PROVE  InTurn(l)' /\ FirstInLine(l)'
<1>1. ASSUME NEW i \in DOMAIN l, NEW m, m = MakerOf(l[i])
      PROVE  /\ m \in Created' /\ orders'[m] # Absent
             /\ Waiting(m)' => Waiting(m) /\ Head(OwnLine(m))' = m
  <2>1. /\ m \in Created /\ m \in Ids /\ orders[m] # Absent
        /\ Waiting(m) => Head(OwnLine(m)) = m
    BY <1>1, CreatedType DEF FirstInLine, IInv, TypeInv
  <2>2. m \in Created' /\ orders'[m] # Absent
    BY <2>1, RequestsStay, StoredStays DEF IInv, TypeInv
  <2> QED BY <2>1, <2>2, FirstStays
<1>2. FirstInLine(l)'
  BY <1>1 DEF FirstInLine
<1>3. InTurn(l)'
  BY <1>1 DEF InTurn
<1> QED BY <1>2, <1>3

(* What holds of a list holds of its beginning.                            *)
LEMMA TurnOfBeginning ==
  ASSUME NEW l \in Seq(TradeRecord), NEW r \in Seq(TradeRecord),
         InTurn(l \o r), FirstInLine(l \o r)
  PROVE  InTurn(l) /\ FirstInLine(l)
<1>1. \A i \in DOMAIN l : i \in DOMAIN (l \o r) /\ (l \o r)[i] = l[i]
  OBVIOUS
<1> QED BY <1>1 DEF InTurn, FirstInLine

(* The next trade is with the first of the line, so it is in turn.         *)
LEMMA MatchTurn ==
  ASSUME IInv, CrossingInv, RestingInv, TotalsInv, ToldInv, TurnInv, NEW t \in Tasks, Match(t),
         [Next]_vars
  PROVE  TurnInv'
<1>1. /\ Trade(t) /\ result' = Append(result, NextTrade(t)) /\ ledger' = ledger
      /\ pc[t] = "match" /\ prices # {} /\ TypeOK /\ UNCHANGED <<request, orders>>
      /\ ~ IsFilled(Own(t), incoming) /\ Own(t) \in Request
  BY OwnType DEF Match, Trade, IInv, TypeInv
<1>2. PICK s0 \in Symbols, d0 \in Sides, p \in Prices, o \in WaitingOrders, n \in Nat,
           popped \in BOOLEAN : TradeFills(t, s0, d0, p, o, n, popped)
  BY <1>1, TradeEffect
<1>3. /\ s0 = Own(t).symbol /\ d0 = Opposite(Own(t).side) /\ p = BestPrice(Own(t))
      /\ Line(s0, d0, p) # << >> /\ o = Head(Line(s0, d0, p))
      /\ Lines' = IF popped THEN [Lines EXCEPT ![s0][d0][p] = Tail(Line(s0, d0, p))] ELSE Lines
      /\ WaitingOrders' = IF popped THEN WaitingOrders \ {o} ELSE WaitingOrders
  BY <1>2 DEF TradeFills
<1>4. PICK tr : tr = NextTrade(t)
  OBVIOUS
<1>5. /\ tr \in TradeRecord /\ tr.taker_side = Own(t).side /\ tr.price = p /\ tr.symbol = s0
      /\ MakerOf(tr) = o
  BY <1>1, <1>3, <1>4, NextTradeFair DEF FairTrades
<1>6. PICK l : l = ledger \o result
  OBVIOUS
<1>7. /\ l \in Seq(TradeRecord) /\ (ledger \o result)' = Append(l, tr)
      /\ \A i \in DOMAIN l : l[i] \in FairTrades
  <2>1. /\ ledger \in Seq(TradeRecord) /\ result \in Seq(TradeRecord)
        /\ \A i \in DOMAIN ledger : ledger[i] \in FairTrades
        /\ \A i \in DOMAIN result : result[i] \in FairTrades
    BY DEF ToldInv, LedgerInv, ResultInv
  <2>2. \A i \in DOMAIN (ledger \o result) : (ledger \o result)[i] \in FairTrades
    BY <2>1, Elements
  <2> QED BY <1>1, <1>4, <1>5, <1>6, <2>1, <2>2
<1>8. InTurn(l)' /\ FirstInLine(l)' /\ InTurn(l) /\ FirstInLine(l)
  <2>1. InTurn(l) /\ FirstInLine(l)
    BY <1>6 DEF TurnInv
  <2> QED BY <1>7, <2>1, TurnStays
<1>9. PICK new : new = Append(l, tr)
  OBVIOUS
<1>10. /\ DOMAIN new = DOMAIN l \cup {Len(l) + 1} /\ new[Len(l) + 1] = tr
       /\ \A i \in DOMAIN l : new[i] = l[i] /\ i < Len(l) + 1
       /\ Len(l) + 1 \notin DOMAIN l
       /\ \A i, j \in DOMAIN new : i < j => i \in DOMAIN l
  BY <1>5, <1>7, <1>9
<1>11. /\ o \in Created /\ orders[o] # Absent /\ OwnLine(o) = Line(s0, d0, p)
       /\ OwnLine(o) = Lines[s0][d0][p]
  <2>1. o \in Created
    BY DEF WaitingOrders
  <2>2. Line(s0, d0, p) \in Seq(Nat) /\ IsInjective(Line(s0, d0, p))
    BY <1>1, LevelType DEF IInv, LinesInv, TypeOK, LevelsOK, Line
  <2>3. o \in ToSet(Line(s0, d0, p))
    BY <1>3, <2>2, TailSet
  <2>4. orders[o].status \in Active
    BY DEF IInv, WaitingInv
  <2> QED BY <1>1, <2>1, <2>3, <2>4, InLine DEF IInv, Absent, Active, Lines
<1>12. /\ o \in Created' /\ orders'[o] # Absent
       /\ Waiting(o)' => Head(OwnLine(o))' = o
  <2>1. o \in Created' /\ orders'[o] # Absent
    BY <1>1, <1>11 DEF Created
  <2>2. ASSUME Waiting(o)'
        PROVE  Head(OwnLine(o))' = o
    <3>1. Head(OwnLine(o)) = o
      BY <1>3, <1>11
    <3> QED BY <1>11, <2>2, <3>1, FirstStays
  <2> QED BY <2>1, <2>2
<1>13. FirstInLine(new)'
  <2>1. ASSUME NEW i \in DOMAIN new
        PROVE  /\ MakerOf(new[i]) \in Created' /\ orders'[MakerOf(new[i])] # Absent
               /\ Waiting(MakerOf(new[i]))' => Head(OwnLine(MakerOf(new[i])))' = MakerOf(new[i])
    <3>1. CASE i \in DOMAIN l
      BY <1>8, <1>10, <3>1 DEF FirstInLine
    <3>2. CASE i = Len(l) + 1
      <4>1. MakerOf(new[i]) = o
        BY <1>5, <1>10, <3>2
      <4> QED BY <1>12, <4>1
    <3> QED BY <1>10, <3>1, <3>2
  <2> QED BY <2>1 DEF FirstInLine
<1>14. ASSUME NEW i \in DOMAIN l, NEW m, m = MakerOf(l[i]), m # o,
              l[i].symbol = s0, l[i].taker_side = Own(t).side, ~ Better(d0, p, l[i].price)
       PROVE  ~ Waiting(m)
  <2> SUFFICES ASSUME Waiting(m)  PROVE FALSE
    OBVIOUS
  <2>1. /\ m \in Created /\ m \in Ids /\ m \in WaitingOrders /\ Head(OwnLine(m)) = m
        /\ request[m] \in Request
    BY <1>1, <1>8, <1>14, CreatedType DEF FirstInLine, WaitingOrders
  <2>2. /\ request[m].symbol = s0 /\ request[m].side = d0 /\ request[m].price = l[i].price
    <3>1. l[i] \in TradeRecord /\ FairTrade(l[i]) /\ Own(t).side \in {"Buy", "Sell"}
      BY <1>1, <1>7, RequestType DEF FairTrades, Sides
    <3> QED BY <1>3, <1>14, <3>1 DEF FairTrade, MakerOf, Opposite
  <2>3. PICK q : q = request[m].price
    OBVIOUS
  <2>4. /\ m \in ToSet(Line(s0, d0, q)) /\ Head(Line(s0, d0, q)) = m
        /\ q \in DOMAIN levels[s0][d0]
    <3>1. m \in ToSet(Line(s0, d0, q)) /\ Head(Line(s0, d0, q)) = m
      BY <2>1, <2>2, <2>3 DEF Waiting, OwnLine
    <3> QED BY <3>1, EmptySet DEF Line, QueueAt, LevelAt, EmptyLevel
  <2>5. q \in Nat /\ q \in Prices /\ p \in Nat
    <3>1. DOMAIN levels[s0][d0] \subseteq Prices
      BY <1>1 DEF TypeOK, LevelsOK, IsLevelMap
    <3>2. q \in Prices
      BY <2>4, <3>1
    <3> QED BY <3>2, PricesFinite
  <2>6. /\ p \in prices /\ Crosses(Own(t), p) /\ CrossingPrices(Own(t)) \subseteq prices
        /\ \A x \in prices : IF Own(t).side = "Buy" THEN p <= x ELSE p >= x
    BY <1>1, <1>3, BestExists DEF CrossingInv, SweepInv
  <2>7. IF Own(t).side = "Buy" THEN q <= p ELSE q >= p
    <3>1. ~ Better(d0, p, q) /\ Own(t).side \in {"Buy", "Sell"}
      BY <1>1, <1>14, <2>2, <2>3, RequestType DEF Sides
    <3> QED BY <1>3, <2>5, <3>1 DEF Better, Opposite
  <2>8. q \in prices
    <3>1. Own(t).order_type # "Market" => Own(t).price \in Nat
      <4>1. Own(t).order_type # "Market" => Own(t).price \in Prices
        BY <1>1, RequestType DEF OrderTypes
      <4> QED BY <4>1, PricesFinite
    <3>2. Crosses(Own(t), q)
      BY <2>5, <2>6, <2>7, <3>1 DEF Crosses
    <3>3. q \in CrossingPrices(Own(t))
      BY <1>3, <2>4, <3>2 DEF CrossingPrices, Against
    <3> QED BY <2>6, <3>3
  <2>9. q = p
    BY <2>5, <2>6, <2>7, <2>8
  <2> QED BY <1>3, <1>14, <2>4, <2>9
<1>15. InTurn(new)'
  <2>1. ASSUME NEW i \in DOMAIN new, NEW j \in DOMAIN new, i < j,
               MakerOf(new[i]) # MakerOf(new[j]), new[i].symbol = new[j].symbol,
               new[i].taker_side = new[j].taker_side,
               ~ Better(Opposite(new[i].taker_side), new[j].price, new[i].price)
        PROVE  ~ Waiting(MakerOf(new[i]))'
    <3>1. i \in DOMAIN l /\ new[i] = l[i]
      BY <1>10, <2>1
    <3>2. CASE j \in DOMAIN l
      BY <1>8, <1>10, <2>1, <3>1, <3>2 DEF InTurn
    <3>3. CASE j = Len(l) + 1
      <4>1. new[j] = tr
        BY <1>10, <3>3
      <4>2. PICK m : m = MakerOf(l[i])
        OBVIOUS
      <4>3. ~ Waiting(m)
        BY <1>3, <1>5, <1>14, <2>1, <3>1, <4>1, <4>2
      <4>4. m \in Created /\ orders[m] # Absent
        BY <1>8, <3>1, <4>2 DEF FirstInLine
      <4>5. ~ Waiting(m)'
        BY <4>3, <4>4, FirstStays
      <4> QED BY <3>1, <4>2, <4>5
    <3> QED BY <1>10, <3>2, <3>3
  <2> QED BY <2>1 DEF InTurn
<1>16. TurnInv'
  <2>1. (ledger \o result)' = new
    BY <1>7, <1>9
  <2>2. InTurn(ledger \o result)' /\ FirstInLine(ledger \o result)'
    BY <1>13, <1>15, <2>1 DEF InTurn, FirstInLine
  <2> QED BY <2>2 DEF TurnInv
<1> QED BY <1>16

(* No other step makes a trade, and a panic only forgets some.             *)
LEMMA NextTurn ==
  ASSUME IInv, CrossingInv, RestingInv, TotalsInv, ToldInv, TurnInv, [ApiNext]_apiVars
  PROVE  TurnInv'
<1>1. [Next]_vars
  BY ApiWithin
<1>2. ledger \in Seq(TradeRecord) /\ result \in Seq(TradeRecord)
  BY DEF ToldInv, LedgerInv, ResultInv
<1>3. PICK l : l = ledger \o result
  OBVIOUS
<1>4. l \in Seq(TradeRecord) /\ InTurn(l) /\ FirstInLine(l)
  BY <1>2, <1>3 DEF TurnInv
<1>5. CASE (ledger \o result)' = l
  <2>1. InTurn(l)' /\ FirstInLine(l)'
    BY <1>1, <1>4, TurnStays
  <2> QED BY <1>5, <2>1 DEF TurnInv, InTurn, FirstInLine
<1>6. CASE (ledger \o result)' = ledger
  <2>1. PICK a : a = ledger
    OBVIOUS
  <2>2. a \in Seq(TradeRecord) /\ InTurn(a) /\ FirstInLine(a)
    BY <1>2, <1>3, <1>4, <2>1, TurnOfBeginning
  <2>3. InTurn(a)' /\ FirstInLine(a)'
    BY <1>1, <2>2, TurnStays
  <2> QED BY <1>6, <2>1, <2>3 DEF TurnInv, InTurn, FirstInLine
<1>7. CASE UNCHANGED told
  BY <1>3, <1>5, <1>7 DEF told
<1>8. ASSUME NEW t \in Tasks, Succeed(t)
      PROVE  (ledger \o result)' = l
  <2>1. ledger' = ledger \o result /\ result' = << >>
    BY <1>8 DEF Succeed, Tell
  <2> QED BY <1>2, <1>3, <2>1
<1>9. ASSUME NEW t \in Tasks, Panic(t)
      PROVE  (ledger \o result)' = ledger
  <2>1. ledger' = ledger /\ result' = << >>
    BY <1>9 DEF Panic
  <2> QED BY <1>2, <2>1
<1>10. \/ UNCHANGED told
       \/ \E t \in Tasks : Match(t) \/ Succeed(t) \/ Panic(t)
  BY DEF ApiNext, Arrive, Serve, TurnDown, Confirm, Silent, apiVars
<1> QED BY <1>1, <1>5, <1>6, <1>7, <1>8, <1>9, <1>10, MatchTurn

(* Nobody is passed over: whoever has traded while waiting is the next of  *)
(* its price to trade, through every submission, cancellation and panic,   *)
(* as long as it waits (engine.rs:298-345).                                *)
THEOREM OrdersAreServedInTurn == ApiSpec => []ServedInTurn
<1>1. ApiInit => TurnInv
  BY DEF ApiInit, TurnInv, InTurn, FirstInLine
<1>2. IInv /\ CrossingInv /\ RestingInv /\ TotalsInv /\ ToldInv /\ TurnInv /\ [ApiNext]_apiVars
      => TurnInv'
  BY NextTurn
<1>3. TurnInv => ServedInTurn
  BY DEF TurnInv, ServedInTurn
<1> QED BY <1>1, <1>2, <1>3, EngineUnderApi, Invariance, Crossing, ClonesWait, Totals, Telling,
       PTL
    DEF ApiSpec
=============================================================================
