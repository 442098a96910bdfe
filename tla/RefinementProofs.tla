-------------------------- MODULE RefinementProofs --------------------------
(***************************************************************************)
(* The engine implements the market of LimitOrderBook, for every value of  *)
(* the constants: each of its steps is a step of the market, or invisible  *)
(* in it.  So cancelled orders trade no more, sweeps end, and buyers buy   *)
(* what sellers sell.                                                      *)
(***************************************************************************)
EXTENDS TotalsProofs

-----------------------------------------------------------------------------
(* The best price.                                                         *)

(* While prices are left, best-first picks one, and no other is better.    *)
LEMMA BestExists ==
  ASSUME TypeOK, prices # {}, NEW r \in Request
  PROVE  /\ BestPrice(r) \in prices
         /\ \A q \in prices : IF r.side = "Buy" THEN BestPrice(r) <= q
                                                ELSE BestPrice(r) >= q
<1>1. /\ U64Max \in Nat /\ prices \subseteq 0 .. U64Max
      /\ \A q \in prices : q \in Nat
  BY DomainAssumption DEF TypeOK, DomainAssumption
<1>2. \E p \in prices : \A q \in prices \ {p} : Better(Opposite(r.side), p, q)
  <2>1. CASE r.side = "Buy"
    <3>1. PICK p \in prices : \A q \in prices : p <= q
      BY <1>1, Least
    <3>2. \A q \in prices \ {p} : p < q
      BY <1>1, <3>1
    <3> QED BY <2>1, <3>2 DEF Better, Opposite
  <2>2. CASE r.side # "Buy"
    <3>1. PICK p \in prices : \A q \in prices : q <= p
      BY <1>1, Greatest
    <3>2. \A q \in prices \ {p} : p > q
      BY <1>1, <3>1
    <3> QED BY <2>2, <3>2 DEF Better, Opposite
  <2> QED BY <2>1, <2>2
<1>3. /\ BestPrice(r) \in prices
      /\ \A q \in prices \ {BestPrice(r)} : Better(Opposite(r.side), BestPrice(r), q)
  BY <1>2 DEF BestPrice
<1>4. BestPrice(r) \in Nat
  BY <1>1, <1>3
<1> QED BY <1>1, <1>3, <1>4 DEF Better, Opposite

-----------------------------------------------------------------------------
(* Only the clones of waiting orders are in the book.                      *)

(* An order that does not wait has no clone; one that does has one.        *)
LEMMA Clones ==
  ASSUME IInv, RestingInv
  PROVE  /\ \A o \in WaitingOrders : resting[o] # Absent /\ orders[o] # Absent
         /\ \A o \in Ids \ WaitingOrders : resting[o] = Absent
         /\ \A o \in Ids : orders[o] = Absent => resting[o] = Absent
<1>1. ASSUME NEW o \in WaitingOrders
      PROVE  resting[o].status \in {"Accepted", "PartialFill", "Filled"}
             /\ orders[o].status \in Active
  BY <1>1 DEF IInv, WaitingInv, StatusOf
<1> QED BY <1>1 DEF RestingInv, Absent, Active

(* Steps that leave the books' lines and the clones alone.                 *)
LEMMA SameResting ==
  ASSUME RestingInv, UNCHANGED resting, WaitingOrders' = WaitingOrders
  PROVE  RestingInv'
BY DEF RestingInv, Ids, Absent

(* Every step keeps RestingInv.                                            *)
LEMMA NextResting ==
  ASSUME IInv, RestingInv, [Next]_vars
  PROVE  RestingInv'
<1>1. ASSUME UNCHANGED <<request, levels, resting>>
      PROVE  RestingInv'
  <2>1. WaitingOrders' = WaitingOrders
    BY <1>1 DEF WaitingOrders, Created, Waiting, OwnLine, Line
  <2> QED BY <1>1, <2>1, SameResting
<1>2. ASSUME NEW t \in Tasks, SubmitOrder(t)
      PROVE  RestingInv'
  <2>1. /\ UNCHANGED <<levels, resting>>
        /\ \E r \in Request : request' = Append(request, r)
    BY <1>2 DEF SubmitOrder, books
  <2>2. request \in Seq(Request) /\ Len(request) \in Nat
    BY DEF IInv, TypeInv, TypeOK
  <2>3. /\ Created \subseteq Created'
        /\ \A o \in Created : request'[o] = request[o]
    BY <2>1, <2>2 DEF Created
  <2>4. WaitingOrders \subseteq WaitingOrders'
    BY <2>1, <2>3 DEF WaitingOrders, Waiting, OwnLine, Line
  <2> QED BY <2>1, <2>4 DEF RestingInv
<1>3. ASSUME NEW t \in Tasks, Trade(t)
      PROVE  RestingInv'
  <2>1. PICK s0 \in Symbols, d0 \in Sides, p \in Prices, o \in WaitingOrders, n \in Nat,
             popped \in BOOLEAN : TradeFills(t, s0, d0, p, o, n, popped)
    BY <1>3, TradeEffect
  <2>2. /\ WaitingOrders' = IF popped THEN WaitingOrders \ {o} ELSE WaitingOrders
        /\ resting' = [resting EXCEPT ![o] = IF popped THEN Absent
                                             ELSE Fill(request[o], resting[o], n)]
    BY <2>1 DEF TradeFills
  <2>3. resting \in [Ids -> Copy]
    BY DEF IInv, TypeInv, TypeOK
  <2> QED BY <2>2, <2>3 DEF RestingInv
<1>4. ASSUME NEW t \in Tasks, FinishLevel(t)
      PROVE  RestingInv'
  BY <1>4, FinishLines, SameResting DEF FinishLevel
<1>5. ASSUME NEW t \in Tasks, StoreResting(t)
      PROVE  RestingInv'
  <2>1. PICK s0 \in Symbols, d0 \in Sides, p0 \in Prices, m \in Ids, n \in Nat :
          OrderRests(t, s0, d0, p0, m, n)
    BY <1>5, StoreRestingEffect
  <2>2. /\ WaitingOrders' = WaitingOrders \cup {m}
        /\ resting' = [resting EXCEPT ![m] = incoming]
    BY <2>1 DEF OrderRests
  <2> QED BY <2>2 DEF RestingInv, IInv, TypeInv, TypeOK
<1>6. ASSUME NEW t \in Tasks, CancelRemove(t)
      PROVE  RestingInv'
  <2>1. PICK s0 \in Symbols, d0 \in Sides, m \in Ids, n \in Nat :
          OrderLeaves(t, s0, d0, m, n)
    BY <1>6, RemoveEffect
  <2>2. /\ WaitingOrders' = WaitingOrders \ {m}
        /\ resting' = [resting EXCEPT ![m] = Absent]
    BY <2>1 DEF OrderLeaves
  <2> QED BY <2>2 DEF RestingInv, IInv, TypeInv, TypeOK
<1>7. ASSUME NEW t \in Tasks,
             \/ Refuse(t) \/ CancelCheck(t) \/ StartMatching(t) \/ RejectMarket(t)
             \/ PanicInSum(t) \/ CancelMissed(t) \/ CountTrades(t) \/ StoreFilled(t)
             \/ PanicInAdd(t) \/ CancelMark(t)
      PROVE  UNCHANGED <<request, levels, resting>>
  BY <1>7 DEF Refuse, CancelCheck, StartMatching, RejectMarket, PanicInSum, CancelMissed,
    CountTrades, StoreFilled, PanicInAdd, CancelMark, vars, books
<1>8. CASE UNCHANGED vars
  BY <1>1, <1>8 DEF vars, books
<1> QED BY <1>1, <1>2, <1>3, <1>4, <1>5, <1>6, <1>7, <1>8 DEF Next, Acquire, Proceed

(* A clone in the book is the clone of an order that waits, in all states. *)
THEOREM ClonesWait == Spec => []RestingInv
<1>1. Init => RestingInv
  BY DEF Init, RestingInv
<1>2. IInv /\ RestingInv /\ [Next]_vars => RestingInv'
  BY NextResting
<1> QED BY <1>1, <1>2, Invariance, PTL DEF Spec

-----------------------------------------------------------------------------
(* The view of the market.                                                 *)

(* Both specifications speak of the same requests.                         *)
LEMMA SameRequests == Market!Request = Request
BY DEF Market!Request, Market!CreateOrderRequest, Market!Validate, Market!Sides,
  Market!OrderTypes, Market!NoPrice,
  Request, CreateOrderRequest, Validate, Sides, OrderTypes, NoPrice

(* The taker is the order of the task that matches or stores.              *)
LEMMA TakerIs ==
  ASSUME IInv, NEW t \in Tasks, pc[t] \in {"match", "store"}
  PROVE  /\ Taker = work[t] /\ Taker # NoOrder /\ Taker \in Created /\ Taker \in Ids
         /\ Own(t) = request[Taker] /\ Own(t) \in Request
         /\ orders[Taker] = Absent /\ Taker \notin WaitingOrders
         /\ FilledSoFar[Taker] = incoming.filled
         /\ incoming.filled \in Nat /\ incoming.filled <= Own(t).quantity
         /\ incoming # Absent
<1>1. writer = t /\ TypeOK
  BY OneHolder DEF IInv, TypeInv
<1>2. /\ work[t] \in Created /\ work[t] \in Ids /\ work[t] \in Nat
      /\ Own(t) \in Request /\ work[t] # NoOrder
  BY <1>1, OwnType DEF TypeOK
<1>3. Taker = work[t]
  BY <1>1, EngineAssumption DEF Taker, Unlocked, EngineAssumption
<1>4. orders[Taker] = Absent /\ Taker \notin WaitingOrders
  BY <1>3 DEF IInv, TasksInv, Submitting, WaitingInv, Absent, Active
<1>5. /\ incoming.filled \in Nat /\ incoming.filled <= Own(t).quantity
      /\ incoming.status = StatusOf(Own(t), incoming.filled)
  BY <1>1 DEF IInv, IncomingInv, TypeOK, Copy
<1>6. incoming # Absent
  BY <1>5 DEF StatusOf, Absent
<1> QED BY <1>2, <1>3, <1>4, <1>5, <1>6 DEF FilledSoFar, Own

(* There is none while the lock is free.                                   *)
LEMMA NoTaker ==
  ASSUME writer = NoTask
  PROVE  /\ Taker = NoOrder /\ Taker \notin Ids
         /\ Arrived = Received
BY EngineAssumption DEF Taker, Unlocked, Ids, NoOrder, EngineAssumption, Arrived, Received

(* The steps of a task that does not hold the lock leave the taker alone.  *)
LEMMA TakerKept ==
  ASSUME IInv, NEW t \in Tasks, pc[t] \notin {"match", "store"}, writer' = writer,
         \A u \in Tasks \ {t} : work'[u] = work[u]
  PROVE  Taker' = Taker
<1>1. writer # NoTask => writer \in Tasks \ {t}
  BY DEF IInv, TypeInv, TypeOK, LockDiscipline
<1> QED BY <1>1 DEF Taker, Unlocked

(* A step that the market does not see.                                    *)
LEMMA Unseen ==
  ASSUME Taker' = Taker, Lines' = Lines, UNCHANGED <<request, incoming>>,
         \A o \in Ids : /\ orders'[o] = Absent <=> orders[o] = Absent
                        /\ resting'[o] = resting[o]
                        /\ orders'[o].filled + filled_qty'[o] = orders[o].filled + filled_qty[o]
  PROVE  UNCHANGED Market!bookVars
<1>1. Arrived' = Arrived
  BY DEF Arrived, Ids, Absent
<1>2. FilledSoFar' = FilledSoFar
  BY DEF FilledSoFar, Ids, Absent
<1> QED BY <1>1, <1>2 DEF Market!bookVars

(* The lines an order accepts are levels it crosses.                       *)
LEMMA OffersCross ==
  ASSUME TypeOK, NEW r \in Request
  PROVE  Market!Offers(r) \subseteq CrossingPrices(r)
<1> SUFFICES ASSUME NEW p \in Market!Offers(r)
             PROVE  p \in CrossingPrices(r)
  OBVIOUS
<1>1. r.symbol \in Symbols /\ r.side \in Sides /\ Opposite(r.side) \in Sides
  BY RequestType
<1>2. Market!Opposite(r.side) = Opposite(r.side)
  BY DEF Market!Opposite, Opposite
<1>3. /\ p \in Prices /\ Lines[r.symbol][Opposite(r.side)][p] # << >>
      /\ Market!Accepts(r, p)
  BY <1>2 DEF Market!Offers
<1>4. p \in DOMAIN Against(r)
  <2>1. IsLevelMap(Against(r))
    BY <1>1 DEF TypeOK, LevelsOK, Against
  <2>2. QueueAt(Against(r), p) # << >>
    BY <1>1, <1>3 DEF Lines, Line, Against
  <2> QED BY <2>1, <2>2, LevelType
<1>5. Crosses(r, p)
  BY <1>1, <1>3 DEF Market!Accepts, Crosses, Sides
<1> QED BY <1>4, <1>5 DEF CrossingPrices

-----------------------------------------------------------------------------
(* The initial states and the steps, one by one.                           *)

(* The engine starts as an empty market.                                   *)
LEMMA InitMarket ==
  ASSUME Init
  PROVE  Market!BookInit
<1>1. Taker = NoOrder
  BY DEF Init, Taker, Unlocked
<1>2. Arrived = {}
  BY <1>1, EngineAssumption DEF Init, Arrived, Ids, NoOrder, EngineAssumption
<1>3. FilledSoFar = [o \in Ids |-> 0]
  BY <1>1, EngineAssumption
  DEF Init, FilledSoFar, Ids, NoOrder, EngineAssumption, NoFills, Absent
<1>4. Lines = [s \in Symbols |-> [d \in Sides |-> [p \in Prices |-> << >>]]]
  BY DEF Init, Lines, Line, QueueAt, LevelAt, NoLevels, EmptyLevel
<1> QED BY <1>1, <1>2, <1>3, <1>4
  DEF Init, Market!BookInit, Market!Orders, Market!Nobody, Market!Sides, Ids, NoOrder, Sides

(* A submission that waits for the lock is a created order.                *)
LEMMA SubmitMarket ==
  ASSUME IInv, NEW t \in Tasks, SubmitOrder(t)
  PROVE  Market!Ask
<1>1. /\ pc[t] = "idle" /\ Len(request) < MaxOrders
      /\ \E r \in Request : request' = Append(request, r)
      /\ work' = [work EXCEPT ![t] = Len(request) + 1]
      /\ UNCHANGED <<orders, levels, resting, filled_qty, incoming, writer>>
  BY DEF SubmitOrder, books, locals
<1>2. Taker' = Taker
  BY <1>1, TakerKept DEF IInv, TypeInv, TypeOK
<1>3. Arrived' = Arrived /\ FilledSoFar' = FilledSoFar /\ Lines' = Lines
  BY <1>1, <1>2 DEF Arrived, FilledSoFar, Lines, Line
<1> QED BY <1>1, <1>2, <1>3, SameRequests DEF Market!Ask

(* Taking the lock is the arrival.                                         *)
LEMMA StartMarket ==
  ASSUME IInv, RestingInv, NEW t \in Tasks, StartMatching(t)
  PROVE  \E o \in Market!Orders : Market!Arrive(o)
<1>1. /\ pc[t] = "submit" /\ writer = NoTask /\ writer' = t
      /\ incoming' = NewOrder
      /\ UNCHANGED <<request, orders, levels, resting, work, filled_qty>>
  BY DEF StartMatching, books
<1>2. PICK m \in Ids : m = work[t] /\ m \in Created
  BY <1>1, OwnType DEF IInv, TypeInv
<1>3. /\ orders[m] = Absent /\ resting[m] = Absent /\ filled_qty[m] = 0
  BY <1>1, <1>2, Clones, NoHolder DEF IInv, TasksInv, Submitting
<1>4. Taker = NoOrder /\ Taker \notin Ids /\ Taker' = m
  BY <1>1, <1>2, NoTaker, EngineAssumption DEF Taker, Unlocked, EngineAssumption
<1>5. Arrived' = Arrived \cup {m} /\ m \notin Arrived
  BY <1>1, <1>2, <1>3, <1>4 DEF Arrived
<1>6. FilledSoFar' = FilledSoFar
  <2>1. \A o \in Ids : FilledSoFar'[o] = FilledSoFar[o]
    BY <1>1, <1>3, <1>4 DEF FilledSoFar, NewOrder, Absent
  <2> QED BY <2>1 DEF FilledSoFar, Ids
<1>7. Lines' = Lines
  BY <1>1 DEF Lines, Line
<1>8. Market!Arrive(m)
  BY <1>1, <1>2, <1>4, <1>5, <1>6, <1>7
  DEF Market!Arrive, Market!Nobody, NoOrder, Created
<1> QED BY <1>8 DEF Market!Orders, Ids

(* A trade fills both of its orders by the same amount, and no other.      *)
LEMMA BothFill ==
  ASSUME IInv, RestingInv, NEW t \in Tasks, Trade(t),
         NEW s0 \in Symbols, NEW d0 \in Sides, NEW p \in Prices, NEW o \in WaitingOrders,
         NEW n \in Nat, NEW popped \in BOOLEAN, TradeFills(t, s0, d0, p, o, n, popped)
  PROVE  /\ o \in Ids /\ o # Taker /\ Taker' = Taker
         /\ FilledSoFar' = [FilledSoFar EXCEPT ![Taker] = @ + n, ![o] = @ + n]
<1>1. /\ pc[t] = "match" /\ prices # {} /\ ~ IsFilled(Own(t), incoming)
      /\ UNCHANGED <<request, orders, writer, work>>
  BY DEF Trade
<1>3. PICK m \in Ids : m = Taker
  BY <1>1, TakerIs
<1>4. PICK r \in Request : r = Own(t)
  BY <1>1, TakerIs
<1>5. /\ r = request[m] /\ orders[m] = Absent /\ m \notin WaitingOrders /\ m # NoOrder
      /\ FilledSoFar[m] = incoming.filled /\ incoming.filled \in Nat /\ incoming \in Copy
      /\ r.quantity \in Nat /\ incoming.filled < r.quantity
  BY <1>1, <1>3, <1>4, TakerIs, RequestType DEF IsFilled, IInv, TypeInv, TypeOK
<1>6. /\ o \in Ids /\ o # m /\ resting[o] # Absent /\ resting[o] \in Copy
      /\ request[o] \in Request /\ request[o].quantity \in Nat
      /\ resting[o].filled \in Nat /\ filled_qty[o] \in Nat /\ orders[o].filled \in Nat
      /\ resting[o].filled < request[o].quantity
      /\ resting[o].filled = orders[o].filled + filled_qty[o]
  <2>1. o \in Created /\ o \in Ids
    BY CreatedType DEF WaitingOrders, IInv, TypeInv
  <2> QED BY <1>5, <2>1, CreatedType, RequestType, CopyType, Clones
      DEF IInv, TypeInv, WaitingInv
<1>7. Taker' = m
  BY <1>1, <1>3 DEF Taker, Unlocked
<1>8. /\ n > 0
      /\ popped <=> resting[o].filled + n = request[o].quantity
      /\ incoming' = Fill(r, incoming, n)
      /\ resting' = [resting EXCEPT ![o] = IF popped THEN Absent
                                            ELSE Fill(request[o], resting[o], n)]
      /\ filled_qty' = [filled_qty EXCEPT ![o] = filled_qty[o] + n]
  BY <1>4 DEF TradeFills
<1>9. FilledSoFar' = [FilledSoFar EXCEPT ![m] = @ + n, ![o] = @ + n]
  <2>1. FilledSoFar'[m] = FilledSoFar[m] + n
    <3>1. incoming'.filled = incoming.filled + n
      BY <1>5, <1>8, FillEffect
    <3> QED BY <1>5, <1>7, <3>1 DEF FilledSoFar, Ids
  <2>2. FilledSoFar'[o] = FilledSoFar[o] + n
    <3>1. FilledSoFar[o] = resting[o].filled
      BY <1>3, <1>6 DEF FilledSoFar
    <3>2. FilledSoFar'[o] = IF resting'[o] # Absent THEN resting'[o].filled
                            ELSE orders[o].filled + filled_qty'[o]
      BY <1>1, <1>6, <1>7 DEF FilledSoFar, Ids, Absent
    <3>3. resting \in [Ids -> Copy] /\ filled_qty \in [Ids -> Nat]
      BY DEF IInv, TypeInv, TypeOK
    <3>4. CASE popped
      <4>1. resting'[o] = Absent /\ filled_qty'[o] = filled_qty[o] + n
        BY <1>6, <1>8, <3>3, <3>4
      <4> QED BY <1>6, <3>1, <3>2, <4>1
    <3>5. CASE ~ popped
      <4>1. resting'[o] = Fill(request[o], resting[o], n)
        BY <1>6, <1>8, <3>3, <3>5
      <4>2. /\ resting'[o].filled = resting[o].filled + n
            /\ resting'[o].status \in {"Filled", "PartialFill"}
        <5>1. n > 0 /\ n \in Nat
          BY <1>8
        <5>2. request[o] \in Request /\ resting[o] \in Copy
          BY <1>6
        <5>3. /\ Fill(request[o], resting[o], n).filled = resting[o].filled + n
              /\ Fill(request[o], resting[o], n).status \in {"Filled", "PartialFill"}
          BY <5>1, <5>2, FillEffect
        <5> QED BY <4>1, <5>3
      <4> QED BY <3>1, <3>2, <4>2 DEF Absent
    <3> QED BY <3>4, <3>5
  <2>3. \A q \in Ids : q # m /\ q # o => FilledSoFar'[q] = FilledSoFar[q]
    <3>1. /\ resting \in [Ids -> Copy] /\ filled_qty \in [Ids -> Nat]
      BY DEF IInv, TypeInv, TypeOK
    <3>2. \A q \in Ids : q # o => resting'[q] = resting[q] /\ filled_qty'[q] = filled_qty[q]
      BY <1>8, <3>1
    <3> QED BY <1>1, <1>3, <1>7, <3>2 DEF FilledSoFar, Ids, Absent
  <2>4. FilledSoFar = [q \in Ids |-> FilledSoFar[q]]
        /\ FilledSoFar' = [q \in Ids |-> FilledSoFar'[q]]
    BY DEF FilledSoFar, Ids
  <2> QED BY <1>3, <1>6, <2>1, <2>2, <2>3, <2>4
<1> QED BY <1>3, <1>6, <1>7, <1>9

(* A fill: the taker trades with the first order of its best line.         *)
LEMMA TradeMarket ==
  ASSUME IInv, CrossingInv, RestingInv, NEW t \in Tasks, Trade(t)
  PROVE  Market!Trade
<1>1. /\ pc[t] = "match" /\ prices # {} /\ ~ IsFilled(Own(t), incoming)
      /\ UNCHANGED <<request, orders, writer, work>>
  BY DEF Trade
<1>2. PICK s0 \in Symbols, d0 \in Sides, p \in Prices, o \in WaitingOrders, n \in Nat,
           popped \in BOOLEAN : TradeFills(t, s0, d0, p, o, n, popped)
  BY TradeEffect
<1>3. PICK m \in Ids : m = Taker
  BY <1>1, TakerIs
<1>4. PICK r \in Request : r = Own(t)
  BY <1>1, TakerIs
<1>5. /\ r = request[m] /\ orders[m] = Absent /\ m \notin WaitingOrders /\ m # NoOrder
      /\ FilledSoFar[m] = incoming.filled /\ incoming.filled \in Nat /\ incoming \in Copy
      /\ r.quantity \in Nat /\ incoming.filled < r.quantity
  BY <1>1, <1>3, <1>4, TakerIs, RequestType DEF IsFilled, IInv, TypeInv, TypeOK
<1>6. /\ o \in Ids /\ o # m /\ resting[o] # Absent /\ resting[o] \in Copy
      /\ request[o] \in Request /\ request[o].quantity \in Nat
      /\ resting[o].filled \in Nat /\ filled_qty[o] \in Nat /\ orders[o].filled \in Nat
      /\ resting[o].filled < request[o].quantity
      /\ resting[o].filled = orders[o].filled + filled_qty[o]
  <2>1. o \in Created /\ o \in Ids
    BY CreatedType DEF WaitingOrders, IInv, TypeInv
  <2> QED BY <1>5, <2>1, CreatedType, RequestType, CopyType, Clones
      DEF IInv, TypeInv, WaitingInv
<1>7. Taker' = m
  BY <1>1, <1>3 DEF Taker, Unlocked
<1>8. /\ n > 0 /\ n = FillQuantity(r, o)
      /\ popped <=> resting[o].filled + n = request[o].quantity
      /\ incoming' = Fill(r, incoming, n)
      /\ resting' = [resting EXCEPT ![o] = IF popped THEN Absent
                                            ELSE Fill(request[o], resting[o], n)]
      /\ filled_qty' = [filled_qty EXCEPT ![o] = filled_qty[o] + n]
      /\ Lines' = IF popped THEN [Lines EXCEPT ![s0][d0][p] = Tail(Line(s0, d0, p))]
                  ELSE Lines
  BY <1>2, <1>4 DEF TradeFills
<1>9. /\ s0 = r.symbol /\ d0 = Opposite(r.side) /\ p = BestPrice(r)
      /\ Line(s0, d0, p) # << >> /\ o = Head(Line(s0, d0, p))
  BY <1>2, <1>4 DEF TradeFills
<1>10. Arrived' = Arrived
  BY <1>1, <1>3, <1>7 DEF Arrived
<1>11. FilledSoFar' = [FilledSoFar EXCEPT ![m] = @ + n, ![o] = @ + n]
  BY <1>2, <1>3, BothFill
<1>12. /\ Market!Left(m) = r.quantity - incoming.filled /\ Market!Left(m) > 0
       /\ Market!Left(o) = request[o].quantity - resting[o].filled
       /\ n = IF Market!Left(m) < Market!Left(o) THEN Market!Left(m) ELSE Market!Left(o)
       /\ popped <=> n = Market!Left(o)
  <2>1. FilledSoFar[o] = resting[o].filled
    BY <1>3, <1>6 DEF FilledSoFar
  <2>2. /\ Market!Left(m) = r.quantity - incoming.filled /\ Market!Left(m) > 0
        /\ Market!Left(o) = request[o].quantity - resting[o].filled
    BY <1>5, <2>1 DEF Market!Left
  <2>3. n = IF r.quantity - incoming.filled < request[o].quantity - resting[o].filled
            THEN r.quantity - incoming.filled ELSE request[o].quantity - resting[o].filled
    BY <1>5, <1>6, <1>8 DEF FillQuantity, Smaller, RemainingQuantity, SaturatingSub
  <2>4. popped <=> n = request[o].quantity - resting[o].filled
    BY <1>6, <1>8
  <2> QED BY <2>2, <2>3, <2>4
<1>13. Market!Best(r, p)
  <2>1. /\ p \in prices
        /\ \A q \in prices : IF r.side = "Buy" THEN p <= q ELSE p >= q
    BY <1>1, <1>9, BestExists DEF IInv, TypeInv
  <2>2. /\ Crosses(r, p) /\ CrossingPrices(r) \subseteq prices
    BY <1>1, <1>4, <2>1 DEF CrossingInv, SweepInv
  <2>3. r.side \in Sides /\ Market!Opposite(r.side) = d0 /\ Lines[s0][d0][p] = Line(s0, d0, p)
    BY <1>9, RequestType DEF Market!Opposite, Opposite, Lines
  <2>4. p \in Market!Offers(r)
    BY <1>9, <2>2, <2>3 DEF Market!Offers, Market!Accepts, Crosses, Sides
  <2>5. \A q \in Market!Offers(r) : q \in prices
    BY <2>2, OffersCross DEF IInv, TypeInv
  <2> QED BY <2>1, <2>4, <2>5 DEF Market!Best
<1>14. /\ Market!Opposite(r.side) = d0 /\ Lines[r.symbol][d0][p] = Line(s0, d0, p)
  BY <1>9, RequestType DEF Market!Opposite, Opposite, Lines
<1>15. Lines' = IF n = Market!Left(o)
                THEN [Lines EXCEPT ![r.symbol][d0][p] = Tail(@)] ELSE Lines
  <2>1. r.symbol \in DOMAIN Lines /\ d0 \in DOMAIN Lines[r.symbol]
        /\ p \in DOMAIN Lines[r.symbol][d0]
    BY <1>9 DEF Lines
  <2> QED BY <1>8, <1>9, <1>12, <1>14, <2>1
<1> QED BY <1>1, <1>3, <1>4, <1>5, <1>7, <1>9, <1>10, <1>11, <1>12, <1>13, <1>14, <1>15
    DEF Market!Trade, Market!Nobody, NoOrder

(* The pending fills reach the map: no order has traded more or less.      *)
LEMMA FinishMarket ==
  ASSUME IInv, NEW t \in Tasks, FinishLevel(t)
  PROVE  UNCHANGED Market!bookVars
<1>1. /\ UNCHANGED <<request, resting, writer, work, incoming>>
      /\ orders' = StoreFills /\ filled_qty' = NoFills
  BY DEF FinishLevel
<1>2. Lines' = Lines
  BY FinishLines
<1>3. Taker' = Taker
  BY <1>1 DEF Taker, Unlocked
<1>4. ASSUME NEW o \in Ids
      PROVE  /\ orders'[o] = Absent <=> orders[o] = Absent
             /\ orders'[o].filled + filled_qty'[o] = orders[o].filled + filled_qty[o]
  <2>1. /\ TypeOK /\ orders[o] \in Copy /\ orders[o].filled \in Nat /\ filled_qty[o] \in Nat
        /\ filled_qty'[o] = 0
    BY <1>1, CopyType DEF IInv, TypeInv, NoFills
  <2>2. CASE filled_qty[o] > 0
    <3>1. o \in Created /\ orders[o] # Absent
      BY <2>2 DEF IInv, PendingInv, Active, Absent
    <3>2. orders'[o] = Fill(request[o], orders[o], filled_qty[o])
      BY <1>1, <2>2, <3>1 DEF StoreFills
    <3>3. /\ orders'[o].filled = orders[o].filled + filled_qty[o]
          /\ orders'[o].status \in {"Filled", "PartialFill"}
      BY <2>1, <2>2, <3>1, <3>2, CreatedType, FillEffect
    <3> QED BY <2>1, <3>1, <3>3 DEF Absent
  <2>3. CASE ~ (filled_qty[o] > 0)
    <3>1. orders'[o] = orders[o]
      BY <1>1, <2>3 DEF StoreFills
    <3> QED BY <2>1, <2>3, <3>1
  <2> QED BY <2>2, <2>3
<1> QED BY <1>1, <1>2, <1>3, <1>4, Unseen

(* The end of a submission, on each way out.                               *)
LEMMA ReleaseMarket ==
  ASSUME IInv, RestingInv, NEW t \in Tasks, pc[t] = "store", Release(t), UNCHANGED request
  PROVE  /\ Taker' = NoOrder /\ Taker' \notin Ids
         /\ resting[Taker] = Absent /\ filled_qty[Taker] = 0
<1>1. Taker' = NoOrder /\ Taker' \notin Ids
  BY DEF Release, Taker, Unlocked, NoOrder, Ids
<1>2. Taker \in Ids /\ orders[Taker] = Absent /\ Taker = work[t]
  BY TakerIs
<1> QED BY <1>1, <1>2, Clones, Storing

(* Storing a filled order is Done.                                         *)
LEMMA StoreFilledMarket ==
  ASSUME IInv, RestingInv, NEW t \in Tasks, StoreFilled(t)
  PROVE  Market!Done
<1>1. /\ pc[t] = "store" /\ Release(t) /\ IsFilled(Own(t), incoming)
      /\ orders' = [orders EXCEPT ![work[t]] = incoming]
      /\ UNCHANGED <<request, levels, resting, filled_qty>>
  BY DEF StoreFilled, StoreOrder, books
<1>2. PICK m \in Ids : /\ m = Taker /\ m = work[t] /\ m # NoOrder
                       /\ Own(t) = request[m] /\ Own(t) \in Request
                       /\ FilledSoFar[m] = incoming.filled /\ incoming.filled \in Nat
                       /\ incoming.filled <= Own(t).quantity /\ incoming # Absent
  BY <1>1, TakerIs
<1>3. /\ Taker' = NoOrder /\ Taker' \notin Ids /\ resting[m] = Absent /\ filled_qty[m] = 0
  BY <1>1, <1>2, ReleaseMarket
<1>4. /\ orders'[m] = incoming
      /\ \A o \in Ids : o # m => orders'[o] = orders[o]
  BY <1>1, <1>2 DEF IInv, TypeInv, TypeOK
<1>5. Arrived' = Arrived
  <2>1. \A o \in Ids : orders'[o] # Absent \/ o = Taker' <=> orders[o] # Absent \/ o = Taker
    BY <1>2, <1>3, <1>4
  <2> QED BY <2>1 DEF Arrived, Ids, Absent
<1>6. FilledSoFar' = FilledSoFar
  <2>1. \A o \in Ids : FilledSoFar'[o] = FilledSoFar[o]
    BY <1>1, <1>2, <1>3, <1>4 DEF FilledSoFar, Ids, Absent
  <2> QED BY <2>1 DEF FilledSoFar, Ids
<1>7. Lines' = Lines
  BY <1>1 DEF Lines, Line
<1>8. Market!Left(m) = 0
  BY <1>1, <1>2, RequestType DEF Market!Left, IsFilled
<1> QED BY <1>1, <1>2, <1>3, <1>5, <1>6, <1>7, <1>8 DEF Market!Done, Market!Nobody, NoOrder

(* Storing what is left is Rest.                                           *)
LEMMA StoreRestingMarket ==
  ASSUME IInv, CrossingInv, RestingInv, NEW t \in Tasks, StoreResting(t)
  PROVE  Market!Rest
<1>1. /\ pc[t] = "store" /\ Release(t) /\ ~ IsFilled(Own(t), incoming)
      /\ UNCHANGED <<request, filled_qty>>
  BY DEF StoreResting
<1>2. PICK m \in Ids : /\ m = Taker /\ m = work[t] /\ m # NoOrder
                       /\ Own(t) = request[m] /\ Own(t) \in Request
                       /\ FilledSoFar[m] = incoming.filled /\ incoming.filled \in Nat
                       /\ incoming # Absent
  BY <1>1, TakerIs
<1>3. Taker' = NoOrder /\ Taker' \notin Ids
  BY <1>1, <1>2, ReleaseMarket
<1>4. PICK s0 \in Symbols, d0 \in Sides, p0 \in Prices, n \in Nat :
        OrderRests(t, s0, d0, p0, m, n)
  <2>1. PICK s0 \in Symbols, d0 \in Sides, p0 \in Prices, k \in Ids, n \in Nat :
          OrderRests(t, s0, d0, p0, k, n)
    BY StoreRestingEffect
  <2>2. k = m
    BY <1>2, <2>1 DEF OrderRests
  <2> QED BY <2>1, <2>2
<1>5. /\ s0 = request[m].symbol /\ d0 = request[m].side /\ p0 = request[m].price
      /\ orders' = [orders EXCEPT ![m] = incoming]
      /\ resting' = [resting EXCEPT ![m] = incoming]
      /\ Lines' = [Lines EXCEPT ![s0][d0][p0] = Append(Line(s0, d0, p0), m)]
  BY <1>4 DEF OrderRests
<1>6. /\ orders'[m] = incoming /\ resting'[m] = incoming
      /\ \A o \in Ids : o # m => orders'[o] = orders[o] /\ resting'[o] = resting[o]
  BY <1>5 DEF IInv, TypeInv, TypeOK
<1>7. Arrived' = Arrived
  <2>1. \A o \in Ids : orders'[o] # Absent \/ o = Taker' <=> orders[o] # Absent \/ o = Taker
    BY <1>2, <1>3, <1>6
  <2> QED BY <2>1 DEF Arrived, Ids, Absent
<1>8. FilledSoFar' = FilledSoFar
  <2>1. \A o \in Ids : FilledSoFar'[o] = FilledSoFar[o]
    BY <1>1, <1>2, <1>3, <1>6 DEF FilledSoFar, Ids, Absent
  <2> QED BY <2>1 DEF FilledSoFar, Ids
<1>9. /\ Market!Left(m) > 0 /\ request[m].order_type = "Limit"
  <2>1. Market!Left(m) > 0
    BY <1>1, <1>2, RequestType DEF Market!Left, IsFilled
  <2>2. request[m].order_type = "Limit"
    BY <1>1, <1>2, RequestType DEF IInv, TypeInv, OnlyLimitsRest, OrderTypes
  <2> QED BY <2>1, <2>2
<1>10. Market!Offers(request[m]) = {}
  <2>1. CrossingPrices(request[m]) = {}
    BY <1>1, <1>2 DEF CrossingInv, SweepInv
  <2> QED BY <1>2, <2>1, OffersCross DEF IInv, TypeInv
<1>11. Lines' = [Lines EXCEPT ![s0][d0][p0] = Append(@, m)]
  <2>1. /\ s0 \in DOMAIN Lines /\ d0 \in DOMAIN Lines[s0] /\ p0 \in DOMAIN Lines[s0][d0]
        /\ Lines[s0][d0][p0] = Line(s0, d0, p0)
    BY DEF Lines
  <2> QED BY <1>5, <2>1
<1> QED BY <1>1, <1>2, <1>3, <1>5, <1>7, <1>8, <1>9, <1>10, <1>11
    DEF Market!Rest, Market!Nobody, NoOrder

(* The overflow in add_order: the taker is gone, and nothing else changes. *)
LEMMA PanicUnseen ==
  ASSUME IInv, CrossingInv, RestingInv, NEW t \in Tasks, PanicInAdd(t)
  PROVE  /\ FilledSoFar[Taker] = 0 /\ Taker' = NoOrder
         /\ Arrived' = Arrived \ {Taker}
         /\ UNCHANGED <<request, FilledSoFar, Lines>>
<1>1. /\ pc[t] = "store" /\ Release(t)
      /\ UNCHANGED <<request, orders, levels, resting, filled_qty>>
  BY DEF PanicInAdd
<1>2. PICK m \in Ids : /\ m = Taker /\ m # NoOrder /\ orders[m] = Absent
                       /\ FilledSoFar[m] = incoming.filled
  BY <1>1, TakerIs
<1>3. FilledSoFar[m] = 0
  BY <1>2, AddPanicsUntraded
<1>4. /\ Taker' = NoOrder /\ Taker' \notin Ids /\ resting[m] = Absent /\ filled_qty[m] = 0
  BY <1>1, <1>2, ReleaseMarket
<1>5. Arrived' = Arrived \ {m}
  BY <1>1, <1>2, <1>4 DEF Arrived
<1>6. FilledSoFar' = FilledSoFar
  <2>1. \A o \in Ids : FilledSoFar'[o] = FilledSoFar[o]
    BY <1>1, <1>2, <1>3, <1>4 DEF FilledSoFar, Ids, Absent
  <2> QED BY <2>1 DEF FilledSoFar, Ids
<1>7. Lines' = Lines
  BY <1>1 DEF Lines, Line
<1> QED BY <1>1, <1>2, <1>3, <1>4, <1>5, <1>6, <1>7

(* What the market says is left of the orders of a line is what the clones *)
(* in the book have left.                                                  *)
LEMMA MarketLeft ==
  ASSUME IInv, RestingInv, NEW S \in SUBSET WaitingOrders, Taker \notin S
  PROVE  Market!MapThenSumSet(Market!Left, S) = LeftOf(S)
<1> DEFINE g == RemainingOf
           Is(h) == h = [s \in SUBSET S |->
                           IF s = {} THEN 0 ELSE Market!Left(Some(s)) + h[Without(s)]]
<1>1. Market!MapThenSumSet(Market!Left, S) = (CHOOSE h : Is(h))[S]
  BY DEF Market!MapThenSumSet, Market!MapThenFoldSet, Some, Without
<1>2. ASSUME NEW o \in S  PROVE Market!Left(o) = g[o]
  BY <1>2, RemainingType, Clones DEF Market!Left, FilledSoFar
<1>3. ASSUME NEW h, NEW s \in SUBSET S
      PROVE  (IF s = {} THEN 0 ELSE Market!Left(Some(s)) + h[Without(s)])
              = (IF s = {} THEN 0 ELSE g[Some(s)] + h[Without(s)])
  BY <1>2, SomeIn
<1>4. \A h : IsSum(h, g, S) <=> Is(h)
  BY <1>3 DEF IsSum
<1>5. (CHOOSE h : IsSum(h, g, S)) = (CHOOSE h : Is(h))
  BY <1>4
<1>6. SumFunctionOnSet(g, S) = (CHOOSE h : IsSum(h, g, S))[S]
  BY SumIs
<1> QED BY <1>1, <1>5, <1>6 DEF LeftOf

(* The line that add_order finds too full is full in the market.           *)
LEMMA PanicFull ==
  ASSUME IInv, RestingInv, TotalsInv, NEW t \in Tasks, PanicInAdd(t)
  PROVE  LET r == request[Taker]
         IN  Market!Full(Lines[r.symbol][r.side][r.price], Taker)
<1>1. /\ pc[t] = "store" /\ ~ IsFilled(Own(t), incoming) /\ AddPanics(Own(t))
      /\ OverflowChecks
  BY DEF PanicInAdd, AddPanics
<1>2. PICK r \in Request : r = Own(t) /\ r = request[Taker]
  BY <1>1, TakerIs
<1>3. /\ Taker \notin WaitingOrders /\ FilledSoFar[Taker] = incoming.filled
      /\ incoming.filled \in Nat /\ r.quantity \in 1 .. U64Max /\ U64Max \in Nat
      /\ r.symbol \in Symbols /\ r.side \in Sides
  BY <1>1, <1>2, TakerIs, RequestType, DomainAssumption DEF DomainAssumption
<1>4. /\ RemainingQuantity(r, incoming) = r.quantity - incoming.filled
      /\ r.quantity - incoming.filled \in 1 .. U64Max
      /\ Market!Left(Taker) = r.quantity - incoming.filled
  BY <1>1, <1>2, <1>3 DEF RemainingQuantity, SaturatingSub, IsFilled, Market!Left
<1> DEFINE side == levels[r.symbol][r.side]
<1>5. r.price \in DOMAIN side
  BY <1>1, <1>2, <1>3, <1>4 DEF AddPanics, AddOverflows, LevelAt, EmptyLevel
<1>6. side[r.price].total_quantity + (r.quantity - incoming.filled) > U64Max
  BY <1>1, <1>2, <1>4, <1>5 DEF AddPanics, AddOverflows, LevelAt
<1>7. /\ r.price \in Prices
      /\ side[r.price].orders = Line(r.symbol, r.side, r.price)
      /\ ToSet(Line(r.symbol, r.side, r.price)) \subseteq WaitingOrders
      /\ ToSet(Line(r.symbol, r.side, r.price)) \subseteq Created
      /\ side[r.price].total_quantity \in Nat
  BY <1>3, <1>5, LevelOrders
<1> DEFINE S == ToSet(Line(r.symbol, r.side, r.price))
<1>8. side[r.price].total_quantity = LeftOf(S)
  <2>1. quantity_to_reduce = 0
    BY <1>1, Storing
  <2>2. Accounted(side[r.price], LeftOf(S), 0)
    BY <1>3, <1>5, <1>7, <2>1, NothingOwed DEF TotalsInv
  <2>3. LeftOf(S) \in Nat
    BY <1>7, LeftType
  <2> QED BY <1>1, <2>2, <2>3 DEF Accounted
<1>9. Market!MapThenSumSet(Market!Left, S) = LeftOf(S)
  BY <1>3, <1>7, MarketLeft
<1>10. Lines[r.symbol][r.side][r.price] = Line(r.symbol, r.side, r.price)
  BY <1>3, <1>7 DEF Lines
<1>11. Market!ToSet(Line(r.symbol, r.side, r.price)) = S
  BY DEF Market!ToSet, ToSet
<1>12. Market!MapThenSumSet(Market!Left, S) + Market!Left(Taker) > U64Max
  BY <1>4, <1>6, <1>8, <1>9
<1> QED BY <1>2, <1>10, <1>11, <1>12 DEF Market!Full

(* So it is TurnAway.                                                      *)
LEMMA PanicMarket ==
  ASSUME IInv, CrossingInv, RestingInv, TotalsInv, NEW t \in Tasks, PanicInAdd(t)
  PROVE  Market!TurnAway
<1>1. pc[t] = "store" /\ ~ IsFilled(Own(t), incoming)
  BY DEF PanicInAdd
<1>2. PICK m \in Ids : m = Taker /\ m # NoOrder /\ Own(t) = request[m] /\ Own(t) \in Request
  BY <1>1, TakerIs
<1>3. request[m].order_type = "Limit"
  BY <1>1, <1>2, RequestType DEF IInv, TypeInv, OnlyLimitsRest, OrderTypes
<1>4. Market!Offers(request[m]) = {}
  <2>1. CrossingPrices(request[m]) = {}
    BY <1>1, <1>2 DEF CrossingInv, SweepInv
  <2> QED BY <1>2, <2>1, OffersCross DEF IInv, TypeInv
<1>5. Market!Full(Lines[request[m].symbol][request[m].side][request[m].price], m)
  BY <1>2, PanicFull
<1> QED BY <1>2, <1>3, <1>4, <1>5, PanicUnseen DEF Market!TurnAway, Market!Nobody, NoOrder

(* A removal takes out a waiting order, or nothing that the market sees.   *)
LEMMA RemoveMarket ==
  ASSUME IInv, RestingInv, NEW t \in Tasks, CancelRemove(t)
  PROVE  (\E o \in Market!Orders : Market!Withdraw(o)) \/ UNCHANGED Market!bookVars
<1>1. /\ pc[t] = "remove" /\ writer = NoTask
      /\ UNCHANGED <<request, orders, writer, work, incoming, filled_qty>>
  BY DEF CancelRemove, locals
<1>2. PICK s0 \in Symbols, d0 \in Sides, m \in Ids, n \in Nat :
        OrderLeaves(t, s0, d0, m, n)
  BY RemoveEffect
<1>3. /\ m = work[t] /\ s0 = request[m].symbol /\ d0 = request[m].side
      /\ resting' = [resting EXCEPT ![m] = Absent]
      /\ m \notin WaitingOrders => Lines' = Lines
      /\ m \in WaitingOrders => \E k \in 1 .. Len(OwnLine(m)) :
           /\ OwnLine(m)[k] = m
           /\ Lines' = [Lines EXCEPT ![s0][d0][request[m].price] =
                          Market!Without(OwnLine(m), k)]
  BY <1>2 DEF OrderLeaves
<1>4. /\ Taker = NoOrder /\ Taker \notin Ids /\ Taker' = Taker
  BY <1>1, NoTaker DEF Taker, Unlocked
<1>5. /\ resting'[m] = Absent
      /\ \A o \in Ids : o # m => resting'[o] = resting[o]
  BY <1>3 DEF IInv, TypeInv, TypeOK, Absent
<1>6. CASE m \notin WaitingOrders
  <2>1. resting[m] = Absent
    BY <1>6, Clones
  <2>2. \A o \in Ids : resting'[o] = resting[o]
    BY <1>5, <2>1
  <2> QED BY <1>1, <1>3, <1>4, <1>6, <2>2, Unseen
<1>7. CASE m \in WaitingOrders
  <2>1. /\ m \in Created /\ request[m] \in Request /\ orders[m] # Absent
        /\ resting[m].filled = orders[m].filled + filled_qty[m]
    BY <1>7, CreatedType, Clones DEF IInv, TypeInv, WaitingInv, WaitingOrders
  <2>2. Arrived' = Arrived /\ m \in Arrived
    BY <1>1, <1>4, <2>1 DEF Arrived
  <2>3. FilledSoFar' = FilledSoFar
    <3>1. \A o \in Ids : FilledSoFar'[o] = FilledSoFar[o]
      BY <1>1, <1>4, <1>5, <2>1 DEF FilledSoFar, Ids, Absent
    <3> QED BY <3>1 DEF FilledSoFar, Ids
  <2>4. PICK p0 \in Prices : p0 = request[m].price
    <3>1. IsLevelMap(levels[s0][d0]) /\ m \in ToSet(QueueAt(levels[s0][d0], request[m].price))
      BY <1>3, <1>7 DEF IInv, TypeInv, TypeOK, LevelsOK, WaitingOrders, Waiting, OwnLine, Line
    <3> QED BY <3>1, LevelType, EmptySet
  <2>5. request[m].order_type = "Limit"
    <3>1. NoPrice \notin Prices
      BY DomainAssumption DEF DomainAssumption, NoPrice
    <3> QED BY <2>1, <2>4, <3>1, RequestType DEF OrderTypes
  <2>6. /\ Lines[s0][d0][p0] = OwnLine(m)
        /\ s0 \in DOMAIN Lines /\ d0 \in DOMAIN Lines[s0] /\ p0 \in DOMAIN Lines[s0][d0]
        /\ DOMAIN OwnLine(m) = 1 .. Len(OwnLine(m))
    <3>1. QueueAt(levels[s0][d0], p0) \in Seq(Nat)
      BY LevelType DEF IInv, TypeInv, TypeOK, LevelsOK
    <3>2. OwnLine(m) = Line(s0, d0, p0)
      BY <1>3, <2>4 DEF OwnLine
    <3> QED BY <3>1, <3>2 DEF Lines, Line
  <2>7. \E i \in DOMAIN OwnLine(m) :
          /\ OwnLine(m)[i] = m
          /\ Lines' = [Lines EXCEPT ![s0][d0][p0] = Market!Without(OwnLine(m), i)]
    BY <1>3, <1>7, <2>4, <2>6
  <2>8. /\ Lines[request[m].symbol][request[m].side][request[m].price] = OwnLine(m)
        /\ \E i \in DOMAIN OwnLine(m) :
             /\ OwnLine(m)[i] = m
             /\ Lines' = [Lines EXCEPT ![request[m].symbol][request[m].side][request[m].price] =
                            Market!Without(OwnLine(m), i)]
    BY <1>3, <2>4, <2>6, <2>7
  <2>9. Market!Withdraw(m)
    BY <1>1, <1>4, <2>2, <2>3, <2>5, <2>8 DEF Market!Withdraw, Market!Nobody, NoOrder
  <2> QED BY <2>9 DEF Market!Orders, Ids
<1> QED BY <1>6, <1>7

(* Steps of a task that holds no lock and touches no book.                 *)
LEMMA OutsideMarket ==
  ASSUME IInv, NEW t \in Tasks,
         \/ CancelCheck(t) \/ RejectMarket(t) \/ PanicInSum(t) \/ CancelMissed(t)
         \/ CancelMark(t)
  PROVE  UNCHANGED Market!bookVars
<1>1. /\ pc[t] \notin {"match", "store"}
      /\ UNCHANGED <<request, levels, resting, writer, incoming, filled_qty>>
      /\ work' = work \/ \E o : work' = [work EXCEPT ![t] = o]
  BY DEF CancelCheck, RejectMarket, PanicInSum, CancelMissed, CancelMark, Return, books, locals
<1>2. Taker' = Taker
  BY <1>1, TakerKept DEF IInv, TypeInv, TypeOK
<1>3. Lines' = Lines
  BY <1>1 DEF Lines, Line
<1>4. ASSUME NEW o \in Ids
      PROVE  (orders'[o] = Absent <=> orders[o] = Absent) /\ orders'[o].filled = orders[o].filled
  <2>1. CASE orders' = orders
    BY <2>1
  <2>2. CASE CancelMark(t)
    <3>1. /\ pc[t] = "mark" /\ orders' = [orders EXCEPT ![work[t]] = Cancel(@)]
          /\ orders \in [Ids -> Copy] /\ orders[o] \in Copy
      BY <2>2 DEF CancelMark, IInv, TypeInv, TypeOK
    <3>2. o # work[t] => orders'[o] = orders[o]
      BY <3>1
    <3>3. ASSUME o = work[t]
          PROVE  orders[o].status # "Absent" /\ orders'[o] = Cancel(orders[o])
      BY <3>1, <3>3 DEF IInv, TasksInv
    <3>4. Cancel(orders[o]).filled = orders[o].filled /\ Cancel(orders[o]).status = "Cancelled"
      BY <3>1 DEF Cancel, Copy
    <3> QED BY <3>2, <3>3, <3>4 DEF Absent
  <2> QED BY <2>1, <2>2 DEF CancelCheck, RejectMarket, PanicInSum, CancelMissed
<1> QED BY <1>1, <1>2, <1>3, <1>4, Unseen

(* Counting the trades is invisible.                                       *)
LEMMA CountMarket ==
  ASSUME IInv, NEW t \in Tasks, CountTrades(t)
  PROVE  UNCHANGED Market!bookVars
<1>1. UNCHANGED <<request, orders, levels, resting, writer, work, incoming, filled_qty>>
  BY DEF CountTrades, books
<1>2. Taker' = Taker /\ Lines' = Lines
  BY <1>1 DEF Taker, Unlocked, Lines, Line
<1> QED BY <1>1, <1>2, Unseen

(* Every step is a step of the market or invisible.                        *)
LEMMA NextMarket ==
  ASSUME IInv, CrossingInv, RestingInv, TotalsInv, [Next]_vars
  PROVE  [Market!BookNext]_(Market!bookVars)
<1>1. CASE UNCHANGED vars
  <2>1. /\ UNCHANGED <<request, orders, levels, resting, writer, work, incoming, filled_qty>>
    BY <1>1 DEF vars, books, locals
  <2>2. Taker' = Taker /\ Lines' = Lines
    BY <2>1 DEF Taker, Unlocked, Lines, Line
  <2> QED BY <2>1, <2>2, Unseen
<1>2. ASSUME NEW t \in Tasks,
             Refuse(t) \/ SubmitOrder(t) \/ CancelCheck(t) \/ Acquire(t) \/ Proceed(t)
      PROVE  Market!BookNext \/ UNCHANGED Market!bookVars
  <2>1. CASE Refuse(t)
    BY <1>1, <2>1 DEF Refuse
  <2>2. CASE SubmitOrder(t)
    BY <2>2, SubmitMarket DEF Market!BookNext
  <2>3. CASE StartMatching(t)
    BY <2>3, StartMarket DEF Market!BookNext
  <2>4. CASE \/ CancelCheck(t) \/ RejectMarket(t) \/ PanicInSum(t) \/ CancelMissed(t)
             \/ CancelMark(t)
    BY <2>4, OutsideMarket
  <2>5. CASE CancelRemove(t)
    BY <2>5, RemoveMarket DEF Market!BookNext
  <2>6. CASE FinishLevel(t)
    BY <2>6, FinishMarket
  <2>7. CASE CountTrades(t)
    BY <2>7, CountMarket
  <2>8. CASE Trade(t) \/ StoreFilled(t) \/ StoreResting(t) \/ PanicInAdd(t)
    <3>1. Market!Handle
      BY <2>8, TradeMarket, StoreFilledMarket, StoreRestingMarket, PanicMarket DEF Market!Handle
    <3> QED BY <3>1 DEF Market!BookNext
  <2> QED BY <1>2, <2>1, <2>2, <2>3, <2>4, <2>5, <2>6, <2>7, <2>8 DEF Acquire, Proceed
<1> QED BY <1>1, <1>2 DEF Next

(* The engine is a market with price-time priority: whatever the threads,  *)
(* the prices and the number of orders, every fill is with the order that  *)
(* is first in the best line, only what crosses nothing waits, and only    *)
(* an order without a trade, whose line is full, is turned away            *)
(* (engine.rs:169-379).                                                    *)
THEOREM Implementation == Spec => PriceTimePriority
<1>1. Init => Market!BookInit
  BY InitMarket, InitIInv, InitCrossing
<1>2. IInv /\ CrossingInv /\ RestingInv /\ TotalsInv /\ [Next]_vars
      => [Market!BookNext]_(Market!bookVars)
  BY NextMarket
<1> QED BY <1>1, <1>2, Invariance, Crossing, ClonesWait, Totals, PTL
    DEF Spec, PriceTimePriority, Market!BookSpec

-----------------------------------------------------------------------------
(* What a cancelled order has traded is settled when it leaves its line.   *)

(* Only the taker and waiting orders trade.                                *)
LEMMA OnlyTheseTrade ==
  ASSUME IInv, CrossingInv, RestingInv, TotalsInv, [Next]_vars,
         NEW o \in Ids, o # Taker, o \notin WaitingOrders
  PROVE  FilledSoFar'[o] = FilledSoFar[o]
<1>1. [Market!BookNext]_(Market!bookVars)
  BY NextMarket
<1>2. FilledSoFar' = FilledSoFar \/ Market!Trade
  BY <1>1 DEF Market!BookNext, Market!bookVars, Market!Ask, Market!Arrive, Market!Handle,
    Market!Done, Market!Rest, Market!TurnAway, Market!Withdraw
<1>3. ASSUME Market!Trade
      PROVE  FilledSoFar'[o] = FilledSoFar[o]
  <2>1. Taker # NoOrder /\ TypeOK /\ LinesInv
    BY <1>3 DEF Market!Trade, Market!Nobody, NoOrder, IInv, TypeInv
  <2>2. writer \in Tasks /\ pc[writer] \in {"match", "store"}
    BY <2>1 DEF Taker, Unlocked, IInv, TypeInv, TypeOK, LockDiscipline
  <2>3. PICK r \in Request : r = request[Taker]
    BY <2>2, TakerIs
  <2>4. r.symbol \in Symbols /\ r.side \in Sides /\ Opposite(r.side) \in Sides
    BY RequestType
  <2>5. Market!Opposite(r.side) = Opposite(r.side)
    BY DEF Market!Opposite, Opposite
  <2>6. PICK p \in Prices :
          /\ p \in Market!Offers(r)
          /\ \E n : FilledSoFar' = [FilledSoFar EXCEPT
               ![Taker] = @ + n, ![Head(Lines[r.symbol][Opposite(r.side)][p])] = @ + n]
    BY <1>3, <2>3, <2>5 DEF Market!Trade, Market!Best
  <2>7. Lines[r.symbol][Opposite(r.side)][p] = Line(r.symbol, Opposite(r.side), p)
    BY <2>4 DEF Lines
  <2>8. /\ Line(r.symbol, Opposite(r.side), p) \in Seq(Nat)
        /\ Line(r.symbol, Opposite(r.side), p) # << >>
        /\ IsInjective(Line(r.symbol, Opposite(r.side), p))
    <3>1. Line(r.symbol, Opposite(r.side), p) \in Seq(Nat)
      BY <2>1, <2>4, LevelType DEF Line, TypeOK, LevelsOK
    <3>2. Line(r.symbol, Opposite(r.side), p) # << >>
      BY <2>5, <2>6, <2>7 DEF Market!Offers
    <3> QED BY <2>1, <2>4, <3>1, <3>2 DEF LinesInv
  <2>9. Head(Line(r.symbol, Opposite(r.side), p)) \in WaitingOrders
    <3>1. Head(Line(r.symbol, Opposite(r.side), p)) \in ToSet(Line(r.symbol, Opposite(r.side), p))
      BY <2>8, TailSet
    <3> QED BY <2>1, <2>4, <3>1, InLine
  <2> QED BY <2>6, <2>7, <2>9 DEF FilledSoFar, Ids
<1> QED BY <1>2, <1>3

(* No trade reaches an order between its removal and its mark, in any      *)
(* interleaving of any number of threads (engine.rs:399-416).              *)
THEOREM RemovalStopsTrading == Spec => RemovedTradesNoMore
<1>1. ASSUME IInv, CrossingInv, RestingInv, TotalsInv, [Next]_vars
      PROVE  \A t \in Tasks : pc[t] = "mark" => FilledSoFar'[work[t]] = FilledSoFar[work[t]]
  <2> SUFFICES ASSUME NEW t \in Tasks, pc[t] = "mark"
               PROVE  FilledSoFar'[work[t]] = FilledSoFar[work[t]]
    OBVIOUS
  <2>1. /\ work[t] \in Ids /\ work[t] \notin WaitingOrders
        /\ orders[work[t]].status # "Absent"
    BY <1>1, OwnType DEF IInv, TypeInv, TasksInv
  <2>2. work[t] # Taker
    <3>1. CASE writer = NoTask
      BY <1>1, <2>1, <3>1, NoTaker
    <3>2. CASE writer # NoTask
      <4>1. writer \in Tasks /\ pc[writer] \in {"match", "store"}
        BY <1>1, <3>2 DEF IInv, TypeInv, TypeOK, LockDiscipline
      <4> QED BY <1>1, <2>1, <4>1, TakerIs DEF Absent
    <3> QED BY <3>1, <3>2
  <2> QED BY <1>1, <2>1, <2>2, OnlyTheseTrade
<1>2. IInv /\ CrossingInv /\ RestingInv /\ TotalsInv /\ [Next]_vars
        => [\A t \in Tasks : pc[t] = "mark" => FilledSoFar'[work[t]] = FilledSoFar[work[t]]]_vars
  BY <1>1
<1> QED BY <1>2, Invariance, Crossing, ClonesWait, Totals, PTL DEF Spec, RemovedTradesNoMore

-----------------------------------------------------------------------------
(* A sweep ends.                                                           *)

(* The orders ahead of a sweep, by the lines they wait in.                 *)
LEMMA AheadLines ==
  ASSUME IInv, writer \in Tasks, pc[writer] = "match"
  PROVE  /\ Own(writer).symbol \in Symbols /\ Opposite(Own(writer).side) \in Sides
         /\ prices \subseteq Prices
         /\ Ahead = UNION {ToSet(Line(Own(writer).symbol, Opposite(Own(writer).side), p)) :
                            p \in prices}
         /\ Ahead \subseteq Created
<1>1. TypeOK /\ prices \subseteq Prices
  BY DEF IInv, TypeInv, TypeOK
<1>2. Own(writer).symbol \in Symbols /\ Opposite(Own(writer).side) \in Sides
  BY <1>1, OwnType, RequestType
<1>3. Ahead = UNION {ToSet(Line(Own(writer).symbol, Opposite(Own(writer).side), p)) :
                     p \in prices}
  BY DEF Ahead, Against, Line
<1> QED BY <1>1, <1>2, <1>3 DEF TypeOK, LevelsOK

(* They are finitely many, and so are the prices.                          *)
LEMMA MeasureType ==
  ASSUME IInv, writer \in Tasks, pc[writer] = "match"
  PROVE  /\ IsFiniteSet(prices) /\ Cardinality(prices) \in Nat
         /\ IsFiniteSet(Ahead) /\ Cardinality(Ahead) \in Nat
<1>1. IsFiniteSet(Prices)
  <2>1. IsFiniteSet(1 .. U64Max)
    BY FS_Interval, DomainAssumption DEF DomainAssumption
  <2> QED BY <2>1, FS_Subset, DomainAssumption DEF DomainAssumption
<1>2. IsFiniteSet(Created)
  BY FS_Interval DEF Created, IInv, TypeInv, TypeOK
<1> QED BY <1>1, <1>2, AheadLines, FS_Subset, FS_CardinalityType

(* A trade takes its maker off what is ahead, or fills the taker.          *)
LEMMA TradeShrinks ==
  ASSUME IInv, NEW t \in Tasks, Trade(t)
  PROVE  StepsLeft' < StepsLeft
<1>1. /\ pc[t] = "match" /\ prices # {} /\ ~ IsFilled(Own(t), incoming)
      /\ UNCHANGED <<request, writer, pc, work, prices>>
  BY DEF Trade
<1>2. writer = t /\ ~ Unlocked /\ ~ Unlocked' /\ TypeOK /\ LinesInv /\ Own(t)' = Own(t)
  BY <1>1, OneHolder, EngineAssumption DEF IInv, TypeInv, Unlocked, EngineAssumption, Own
<1>3. PICK s0 \in Symbols, d0 \in Sides, p \in Prices, o \in WaitingOrders, n \in Nat,
           popped \in BOOLEAN : TradeFills(t, s0, d0, p, o, n, popped)
  BY TradeEffect
<1>4. /\ s0 = Own(t).symbol /\ d0 = Opposite(Own(t).side) /\ p = BestPrice(Own(t))
      /\ Line(s0, d0, p) # << >> /\ o = Head(Line(s0, d0, p))
      /\ n = FillQuantity(Own(t), o) /\ n > 0
      /\ incoming.filled + n <= Own(t).quantity
      /\ resting[o].filled + n <= request[o].quantity
      /\ popped <=> resting[o].filled + n = request[o].quantity
      /\ incoming' = Fill(Own(t), incoming, n)
      /\ Lines' = IF popped THEN [Lines EXCEPT ![s0][d0][p] = Tail(Line(s0, d0, p))] ELSE Lines
  BY <1>3 DEF TradeFills
<1>5. /\ Own(t) \in Request /\ Own(t).quantity \in Nat /\ incoming.filled \in Nat
      /\ p \in prices /\ prices \subseteq Prices
      /\ incoming'.filled = incoming.filled + n
  <2>1. Own(t) \in Request /\ Own(t).quantity \in Nat /\ incoming \in Copy
    BY <1>1, <1>2, OwnType, RequestType DEF TypeOK
  <2>2. p \in prices /\ prices \subseteq Prices
    BY <1>1, <1>2, <1>4, <2>1, BestExists DEF TypeOK
  <2> QED BY <1>4, <2>1, <2>2, FillEffect DEF Copy
<1>6. /\ \A x : x \in Ahead <=> \E q \in prices : x \in ToSet(Lines[s0][d0][q])
      /\ \A x : x \in Ahead' <=> \E q \in prices : x \in ToSet(Lines'[s0][d0][q])
  <2>1. /\ \A q \in prices : Lines[s0][d0][q] = QueueAt(levels[s0][d0], q)
        /\ \A q \in prices : Lines'[s0][d0][q] = QueueAt(levels'[s0][d0], q)
    BY <1>5 DEF Lines, Line
  <2>2. /\ Against(Own(writer)) = levels[s0][d0]
        /\ Against(Own(writer))' = levels'[s0][d0]
    BY <1>1, <1>2, <1>4 DEF Against
  <2>3. /\ \A x : x \in Ahead <=> \E q \in prices : x \in ToSet(QueueAt(levels[s0][d0], q))
        /\ \A x : x \in Ahead' <=> \E q \in prices : x \in ToSet(QueueAt(levels'[s0][d0], q))
    BY <1>1, <2>2, Zenon DEF Ahead
  <2> QED BY <2>1, <2>3
<1>7. /\ IsFiniteSet(prices) /\ Cardinality(prices) \in Nat
      /\ IsFiniteSet(Ahead) /\ Cardinality(Ahead) \in Nat
  BY <1>1, <1>2, MeasureType
<1>8. CASE popped
  <2>1. /\ Line(s0, d0, p) \in Seq(Nat) /\ IsInjective(Line(s0, d0, p))
        /\ Lines[s0][d0][p] = Line(s0, d0, p)
    BY <1>2, LevelType DEF Line, Lines, LinesInv, TypeOK, LevelsOK
  <2>2. o \in ToSet(Lines[s0][d0][p]) /\ ToSet(Tail(Line(s0, d0, p))) = ToSet(Lines[s0][d0][p]) \ {o}
    BY <1>4, <2>1, TailSet
  <2>3. \A q \in prices \ {p} : o \notin ToSet(Lines[s0][d0][q])
    <3>1. request[o].price = p
      BY <1>2, <2>1, <2>2 DEF LinesInv
    <3>2. \A q \in prices : Lines[s0][d0][q] = Line(s0, d0, q)
      BY <1>5 DEF Lines
    <3> QED BY <1>2, <1>5, <3>1, <3>2 DEF LinesInv
  <2>4. /\ Lines'[s0][d0][p] = Tail(Line(s0, d0, p))
        /\ \A q \in prices \ {p} : Lines'[s0][d0][q] = Lines[s0][d0][q]
    <3>1. Lines' = [Lines EXCEPT ![s0][d0][p] = Tail(Line(s0, d0, p))]
      BY <1>4, <1>8
    <3>2. /\ s0 \in DOMAIN Lines /\ d0 \in DOMAIN Lines[s0] /\ p \in DOMAIN Lines[s0][d0]
      BY DEF Lines
    <3> QED BY <3>1, <3>2
  <2>5. Ahead' = Ahead \ {o} /\ o \in Ahead
    <3>1. \A q \in prices : ToSet(Lines'[s0][d0][q]) = ToSet(Lines[s0][d0][q]) \ {o}
      BY <2>1, <2>2, <2>3, <2>4
    <3>2. \A x : x \in Ahead' <=> x \in Ahead /\ x # o
      BY <1>6, <3>1
    <3> QED BY <1>5, <1>6, <2>2, <3>2
  <2>6. Cardinality(Ahead') = Cardinality(Ahead) - 1
    BY <1>7, <2>5, FS_RemoveElement
  <2> QED BY <1>1, <1>2, <1>7, <2>6 DEF StepsLeft
<1>9. CASE ~ popped
  <2>1. Lines' = Lines
    BY <1>4, <1>9
  <2>2. Ahead' = Ahead
    BY <1>6, <2>1
  <2>3. /\ request[o].quantity \in Nat /\ resting[o].filled \in Nat
        /\ resting[o].filled < request[o].quantity
    <3>1. o \in Created
      BY DEF WaitingOrders
    <3> QED BY <1>2, <3>1, CreatedType, CopyType, RequestType DEF IInv, WaitingInv
  <2>4. n = Own(t).quantity - incoming.filled
    <3>1. /\ n = IF SaturatingSub(Own(t).quantity, incoming.filled)
                      < SaturatingSub(request[o].quantity, resting[o].filled)
                   THEN SaturatingSub(Own(t).quantity, incoming.filled)
                   ELSE SaturatingSub(request[o].quantity, resting[o].filled)
          /\ resting[o].filled + n # request[o].quantity
      BY <1>4, <1>9 DEF FillQuantity, Smaller, RemainingQuantity
    <3>2. SaturatingSub(request[o].quantity, resting[o].filled)
            = request[o].quantity - resting[o].filled
      BY <2>3 DEF SaturatingSub
    <3>3. incoming.filled < Own(t).quantity
      BY <1>1, <1>5 DEF IsFilled
    <3>4. SaturatingSub(Own(t).quantity, incoming.filled) = Own(t).quantity - incoming.filled
      BY <1>5, <3>3 DEF SaturatingSub
    <3> QED BY <1>5, <2>3, <3>1, <3>2, <3>4
  <2>5. IsFilled(Own(t), incoming')
    BY <1>5, <2>4 DEF IsFilled
  <2> QED BY <1>1, <1>2, <1>7, <2>2, <2>5 DEF StepsLeft
<1> QED BY <1>8, <1>9

(* The end of a level is one price less.                                   *)
LEMMA FinishShrinks ==
  ASSUME IInv, NEW t \in Tasks, FinishLevel(t)
  PROVE  StepsLeft' < StepsLeft
<1>1. /\ pc[t] = "match" /\ prices # {} /\ prices' = prices \ {BestPrice(Own(t))}
      /\ UNCHANGED <<request, writer, pc, work, incoming>>
  BY DEF FinishLevel
<1>2. writer = t /\ ~ Unlocked /\ ~ Unlocked' /\ TypeOK /\ Own(t)' = Own(t)
  BY <1>1, OneHolder, EngineAssumption DEF IInv, TypeInv, Unlocked, EngineAssumption, Own
<1>3. BestPrice(Own(t)) \in prices /\ prices \subseteq Prices
  BY <1>1, <1>2, OwnType, BestExists DEF TypeOK
<1>4. /\ IsFiniteSet(prices) /\ Cardinality(prices) \in Nat
      /\ IsFiniteSet(Ahead) /\ Cardinality(Ahead) \in Nat
  BY <1>1, <1>2, MeasureType
<1>5. Ahead' \subseteq Ahead
  <2>1. Lines' = Lines
    BY FinishLines
  <2>2. Own(t).symbol \in Symbols /\ Opposite(Own(t).side) \in Sides
    BY <1>1, <1>2, AheadLines
  <2>3. /\ Ahead = UNION {ToSet(Lines[Own(t).symbol][Opposite(Own(t).side)][q]) : q \in prices}
        /\ Ahead' = UNION {ToSet(Lines'[Own(t).symbol][Opposite(Own(t).side)][q]) : q \in prices'}
    BY <1>1, <1>2, <1>3, <2>2 DEF Ahead, Lines, Line, Against
  <2> QED BY <1>1, <2>1, <2>3
<1>6. Cardinality(Ahead') \in Nat /\ Cardinality(Ahead') <= Cardinality(Ahead)
  BY <1>4, <1>5, FS_Subset, FS_CardinalityType
<1>7. Cardinality(prices') = Cardinality(prices) - 1
  BY <1>1, <1>3, <1>4, FS_RemoveElement
<1> QED BY <1>1, <1>2, <1>4, <1>6, <1>7 DEF StepsLeft

(* The steps of the other tasks leave the sweep alone.                     *)
LEMMA OthersApart ==
  ASSUME IInv, NEW t \in Tasks, ~ Unlocked, t # writer,
         Refuse(t) \/ SubmitOrder(t) \/ CancelCheck(t) \/ Acquire(t) \/ Proceed(t)
  PROVE  OthersStep
<1>1. /\ pc[t] \notin {"match", "store"} /\ writer # NoTask /\ writer \in Tasks
      /\ pc \in [Tasks -> Places]
  BY DEF IInv, TypeInv, LockDiscipline, TypeOK, Unlocked
<1>2. Refuse(t) \/ SubmitOrder(t) \/ CancelCheck(t) \/ CancelMark(t)
  BY <1>1 DEF Acquire, StartMatching, RejectMarket, PanicInSum, CancelRemove, CancelMissed,
    Proceed, Trade, FinishLevel, CountTrades, StoreFilled, StoreResting, PanicInAdd
<1>3. UNCHANGED <<writer, books, locals>>
  BY <1>2 DEF Refuse, SubmitOrder, CancelCheck, CancelMark, vars
<1>4. pc' = pc \/ \E place : pc' = [pc EXCEPT ![t] = place]
  BY <1>2 DEF Refuse, SubmitOrder, CancelCheck, CancelMark, Return, Goto, vars
<1>5. pc'[writer] = pc[writer]
  BY <1>1, <1>4
<1> QED BY <1>3, <1>5 DEF OthersStep

(* Whatever the number of threads, prices and orders, each step of a       *)
(* submission that holds order_books leaves less to do, and no step of     *)
(* another thread changes that (engine.rs:105, 159, 236, 262, 298).        *)
THEOREM SweepsShrink == Spec => SweepsEnd
<1>1. ASSUME IInv, [Next]_vars, ~ Unlocked
      PROVE  OthersStep \/ StepsLeft' < StepsLeft
  <2>1. CASE UNCHANGED vars
    BY <2>1 DEF vars, OthersStep
  <2>2. ASSUME NEW t \in Tasks,
               Refuse(t) \/ SubmitOrder(t) \/ CancelCheck(t) \/ Acquire(t) \/ Proceed(t)
        PROVE  OthersStep \/ StepsLeft' < StepsLeft
    <3>1. CASE t # writer
      BY <1>1, <2>2, <3>1, OthersApart
    <3>2. ASSUME t = writer
          PROVE  StepsLeft' < StepsLeft
      <4>1. pc[t] \in {"match", "store"} /\ writer # NoTask /\ pc \in [Tasks -> Places]
        BY <1>1, <3>2 DEF IInv, TypeInv, LockDiscipline, TypeOK, Unlocked
      <4>2. \/ Trade(t) \/ FinishLevel(t) \/ CountTrades(t)
            \/ StoreFilled(t) \/ StoreResting(t) \/ PanicInAdd(t)
        BY <2>2, <4>1 DEF Refuse, SubmitOrder, CancelCheck, CancelMark, Acquire, StartMatching,
          RejectMarket, PanicInSum, CancelRemove, CancelMissed, Proceed
      <4>3. CASE Trade(t) \/ FinishLevel(t)
        BY <1>1, <4>3, TradeShrinks, FinishShrinks
      <4>4. CASE CountTrades(t)
        <5>1. pc[t] = "match" /\ UNCHANGED writer /\ pc'[t] = "store"
          BY <4>1, <4>4 DEF CountTrades, Goto
        <5>2. Cardinality(prices) \in Nat /\ Cardinality(Ahead) \in Nat
          BY <1>1, <3>2, <5>1, MeasureType
        <5>3. StepsLeft' = 1
          BY <1>1, <3>2, <5>1 DEF StepsLeft, Unlocked
        <5> QED BY <1>1, <3>2, <5>1, <5>2, <5>3 DEF StepsLeft
      <4>5. CASE StoreFilled(t) \/ StoreResting(t) \/ PanicInAdd(t)
        <5>1. pc[t] = "store" /\ writer' = NoTask
          BY <4>5 DEF StoreFilled, StoreResting, PanicInAdd, Release
        <5> QED BY <1>1, <3>2, <5>1 DEF StepsLeft, Unlocked
      <4> QED BY <4>2, <4>3, <4>4, <4>5
    <3> QED BY <3>1, <3>2
  <2> QED BY <1>1, <2>1, <2>2 DEF Next
<1>2. IInv /\ [Next]_vars => [~ Unlocked => OthersStep \/ StepsLeft' < StepsLeft]_vars
  BY <1>1
<1> QED BY <1>2, Invariance, PTL DEF Spec, SweepsEnd

-----------------------------------------------------------------------------
(* What buyers bought and sellers sold.                                    *)

(* What an order has traded is a natural, and nothing before it is made.   *)
LEMMA FilledType ==
  IInv /\ RestingInv =>
    \A o \in Ids : FilledSoFar[o] \in Nat /\ (o \notin Created => FilledSoFar[o] = 0)
<1> SUFFICES ASSUME IInv, RestingInv, NEW o \in Ids
             PROVE  FilledSoFar[o] \in Nat /\ (o \notin Created => FilledSoFar[o] = 0)
  OBVIOUS
<1>1. /\ TypeOK /\ orders[o].filled \in Nat /\ resting[o].filled \in Nat
      /\ filled_qty[o] \in Nat /\ incoming.filled \in Nat
  BY CopyType DEF IInv, TypeInv
<1>2. FilledSoFar[o] \in Nat
  BY <1>1 DEF FilledSoFar
<1>3. ASSUME o \notin Created  PROVE FilledSoFar[o] = 0
  <2>1. orders[o] = Absent /\ resting[o] = Absent /\ filled_qty[o] = 0
    BY <1>1, <1>3 DEF IInv, StoredInv, PendingInv, RestingInv, WaitingOrders
  <2>2. o # Taker
    <3>1. writer # NoTask => pc[writer] # "idle" /\ writer \in Tasks
      BY <1>1 DEF IInv, TypeInv, LockDiscipline, TypeOK
    <3>2. writer # NoTask => work[writer] \in Created
      BY <1>1, <3>1, OwnType
    <3> QED BY <1>3, <3>2, EngineAssumption DEF Taker, Unlocked, NoOrder, Ids
  <2> QED BY <2>1, <2>2 DEF FilledSoFar, Absent
<1> QED BY <1>2, <1>3

(* The orders of a side.                                                   *)
LEMMA SideOrders ==
  ASSUME IInv, NEW s, NEW d
  PROVE  OrdersOf(s, d) \subseteq Created /\ OrdersOf(s, d) \subseteq Ids
         /\ IsFiniteSet(OrdersOf(s, d))
BY LeftType, CreatedType DEF OrdersOf, IInv, TypeInv

(* A new order has not traded.                                             *)
LEMMA AskTraded ==
  ASSUME IInv, RestingInv, IInv', TradedInv, Market!Ask
  PROVE  TradedInv'
<1>1. PICK r \in Request : request' = Append(request, r)
  BY SameRequests DEF Market!Ask
<1>2. FilledSoFar' = FilledSoFar /\ Ids' = Ids
  BY DEF Market!Ask, Ids
<1>3. TypeOK /\ request \in Seq(Request) /\ Len(request) \in Nat /\ Created = 1 .. Len(request)
  BY CreatedType DEF IInv, TypeInv, TypeOK, Created
<1>4. PICK m : m = Len(request) + 1
  OBVIOUS
<1>5. /\ Created' = Created \cup {m} /\ m \notin Created
      /\ \A o \in Created : request'[o] = request[o]
  BY <1>1, <1>3, <1>4 DEF Created
<1>6. m \in Ids
  <2>1. Created' \subseteq Ids'
    <3>1. TypeOK' => Created' \subseteq Ids'
      <4>1. Len(request') \in Nat
        BY <1>1, <1>3
      <4> QED BY <4>1, EngineAssumption DEF TypeOK, Created, Ids, EngineAssumption
    <3> QED BY <3>1 DEF IInv, TypeInv
  <2> QED BY <1>2, <1>5, <2>1
<1>7. \A o \in Ids : FilledSoFar[o] \in Nat /\ (o \notin Created => FilledSoFar[o] = 0)
  BY FilledType
<1>8. ASSUME NEW s \in Symbols, NEW d \in Sides
      PROVE  SumFunctionOnSet(FilledSoFar, OrdersOf(s, d)')
               = SumFunctionOnSet(FilledSoFar, OrdersOf(s, d))
  <2>1. \/ OrdersOf(s, d)' = OrdersOf(s, d)
        \/ OrdersOf(s, d)' = OrdersOf(s, d) \cup {m} /\ m \notin OrdersOf(s, d)
    BY <1>5 DEF OrdersOf
  <2>2. IsFiniteSet(OrdersOf(s, d)) /\ OrdersOf(s, d) \subseteq Ids
    BY SideOrders
  <2>3. FilledSoFar[m] = 0 /\ \A o \in OrdersOf(s, d) \cup {m} : FilledSoFar[o] \in Nat
    BY <1>5, <1>6, <1>7, <2>2
  <2>4. m \notin OrdersOf(s, d) => SumFunctionOnSet(FilledSoFar, OrdersOf(s, d) \cup {m})
          = FilledSoFar[m] + SumFunctionOnSet(FilledSoFar, OrdersOf(s, d))
    BY <2>2, <2>3, SumAdd
  <2>5. SumFunctionOnSet(FilledSoFar, OrdersOf(s, d)) \in Nat
    BY <2>2, <2>3, SumType
  <2>6. CASE OrdersOf(s, d)' = OrdersOf(s, d)
    BY <2>6
  <2>7. CASE OrdersOf(s, d)' = OrdersOf(s, d) \cup {m} /\ m \notin OrdersOf(s, d)
    BY <2>3, <2>4, <2>5, <2>7
  <2> QED BY <2>1, <2>6, <2>7
<1>9. "Buy" \in Sides /\ "Sell" \in Sides
  BY DEF Sides
<1> QED BY <1>2, <1>8, <1>9 DEF TradedInv

(* A trade fills an order of each side by the same amount.                 *)
LEMMA TradeTraded ==
  ASSUME IInv, RestingInv, IInv', RestingInv', TradedInv, Market!Trade
  PROVE  TradedInv'
<1>1. /\ TypeOK /\ LinesInv /\ Taker \in Created /\ request[Taker] \in Request
      /\ request' = request
  <2>1. Taker # NoOrder
    BY DEF Market!Trade, Market!Nobody, NoOrder
  <2>2. TypeOK /\ writer \in Tasks /\ pc[writer] \in {"match", "store"}
    BY <2>1 DEF Taker, Unlocked, IInv, TypeInv, TypeOK, LockDiscipline
  <2> QED BY <2>2, TakerIs DEF Market!Trade, IInv
<1>2. PICK s0 \in Symbols, d0 \in Sides, r \in Request :
        r = request[Taker] /\ s0 = r.symbol /\ d0 = Opposite(r.side) /\ r.side \in Sides
  BY <1>1, RequestType
<1> DEFINE maker(p) == Head(Lines[s0][d0][p])
           amount(p) == IF Market!Left(Taker) < Market!Left(maker(p)) THEN Market!Left(Taker)
                        ELSE Market!Left(maker(p))
<1>20. PICK p \in Prices :
        /\ p \in Market!Offers(r)
        /\ FilledSoFar' = [FilledSoFar EXCEPT ![Taker] = @ + amount(p),
                                              ![maker(p)] = @ + amount(p)]
  <2>1. Market!Opposite(r.side) = d0
    BY <1>2 DEF Market!Opposite, Opposite
  <2> QED BY <1>2, <2>1 DEF Market!Trade, Market!Best
<1>3. PICK m, n :
        /\ m = Head(Lines[s0][d0][p])
        /\ n = IF Market!Left(Taker) < Market!Left(m) THEN Market!Left(Taker) ELSE Market!Left(m)
        /\ Lines[s0][d0][p] # << >>
        /\ FilledSoFar' = [FilledSoFar EXCEPT ![Taker] = @ + n, ![m] = @ + n]
  <2>1. Lines[s0][d0][p] # << >>
    BY <1>20, <1>2 DEF Market!Offers, Market!Opposite, Opposite
  <2> QED BY <1>20, <2>1
<1>4. m \in Created /\ request[m].symbol = s0 /\ request[m].side = d0
  <2>1. Lines[s0][d0][p] = Line(s0, d0, p) /\ Line(s0, d0, p) \in Seq(Nat)
    BY <1>1, LevelType DEF Lines, Line, TypeOK, LevelsOK
  <2>2. IsInjective(Line(s0, d0, p))
    BY <1>1 DEF LinesInv
  <2>3. m \in ToSet(Line(s0, d0, p))
    BY <1>3, <2>1, <2>2, TailSet
  <2> QED BY <1>1, <2>3, InLine DEF LinesInv
<1>5. /\ d0 # r.side /\ m # Taker
      /\ {r.side, d0} = Sides
  BY <1>2, <1>4 DEF Opposite, Sides
<1>6. Created \subseteq Ids /\ Created' = Created /\ Ids' = Ids
  BY <1>1, CreatedType DEF Created, Ids
<1>7. \A o \in Ids : FilledSoFar[o] \in Nat
  BY FilledType
<1>8. \A o \in Ids : FilledSoFar'[o] \in Nat
  <2>1. IInv' /\ RestingInv' =>
          (\A o \in Ids : FilledSoFar[o] \in Nat /\ (o \notin Created => FilledSoFar[o] = 0))'
    BY FilledType, PTL
  <2> QED BY <1>6, <2>1
<1>9. n \in Int
  <2>1. request[Taker].quantity \in Nat /\ request[m].quantity \in Nat
    BY <1>1, <1>4, CreatedType, RequestType
  <2>2. FilledSoFar[Taker] \in Nat /\ FilledSoFar[m] \in Nat
    BY <1>1, <1>4, <1>6, <1>7
  <2> QED BY <1>3, <2>1, <2>2 DEF Market!Left
<1>10. /\ FilledSoFar'[Taker] = FilledSoFar[Taker] + n
       /\ FilledSoFar'[m] = FilledSoFar[m] + n
       /\ \A o \in Ids : o \notin {Taker, m} => FilledSoFar'[o] = FilledSoFar[o]
  <2>1. FilledSoFar = [o \in Ids |-> FilledSoFar[o]]
    BY DEF FilledSoFar
  <2> QED BY <1>1, <1>3, <1>4, <1>5, <1>6, <2>1
<1>11. \A s, d : /\ OrdersOf(s, d)' = OrdersOf(s, d) /\ OrdersOf(s, d) \subseteq Ids
                 /\ IsFiniteSet(OrdersOf(s, d))
  <2>1. \A s, d : OrdersOf(s, d)' = OrdersOf(s, d)
    BY <1>1, <1>6 DEF OrdersOf
  <2> QED BY <2>1, SideOrders
<1>12. Taker \in OrdersOf(s0, r.side) /\ m \in OrdersOf(s0, d0)
  BY <1>1, <1>2, <1>4 DEF OrdersOf
<1>13. \A s, d : /\ Taker \in OrdersOf(s, d) => s = s0 /\ d = r.side
                 /\ m \in OrdersOf(s, d) => s = s0 /\ d = d0
  BY <1>2, <1>4 DEF OrdersOf
<1>14. ASSUME NEW a \in {Taker, m}, NEW s, NEW d, a \in OrdersOf(s, d)
       PROVE  /\ SumFunctionOnSet(FilledSoFar, OrdersOf(s, d)) \in Nat
              /\ SumFunctionOnSet(FilledSoFar', OrdersOf(s, d)) \in Nat
              /\ SumFunctionOnSet(FilledSoFar', OrdersOf(s, d))
                   = SumFunctionOnSet(FilledSoFar, OrdersOf(s, d)) + n
  <2> DEFINE S == OrdersOf(s, d)
  <2>1. IsFiniteSet(S) /\ S \subseteq Ids
    BY <1>11
  <2>2. \A x \in S : FilledSoFar[x] \in Nat /\ FilledSoFar'[x] \in Nat
    BY <1>7, <1>8, <2>1
  <2>3. \A x \in S \ {a} : FilledSoFar[x] = FilledSoFar'[x]
    BY <1>5, <1>10, <1>13, <1>14, <2>1
  <2>4. FilledSoFar[a] \in Nat /\ FilledSoFar'[a] = FilledSoFar[a] + n
    BY <1>10, <1>14, <2>2
  <2> HIDE DEF S
  <2>5. a \in S
    BY <1>14 DEF S
  <2>6. SumFunctionOnSet(FilledSoFar, S) + FilledSoFar'[a]
          = SumFunctionOnSet(FilledSoFar', S) + FilledSoFar[a]
    BY <2>1, <2>2, <2>3, <2>5, SumChange
  <2>7. SumFunctionOnSet(FilledSoFar, S) \in Nat /\ SumFunctionOnSet(FilledSoFar', S) \in Nat
    BY <2>1, <2>2, SumType
  <2>8. SumFunctionOnSet(FilledSoFar', S) = SumFunctionOnSet(FilledSoFar, S) + n
    BY <1>9, <2>4, <2>6, <2>7
  <2> QED BY <2>7, <2>8 DEF S
<1>15. ASSUME NEW s \in Symbols, s # s0, NEW d
       PROVE  SumFunctionOnSet(FilledSoFar', OrdersOf(s, d))
                = SumFunctionOnSet(FilledSoFar, OrdersOf(s, d))
  <2> DEFINE S == OrdersOf(s, d)
  <2>1. IsFiniteSet(S)
    BY <1>11
  <2>2. \A x \in S : FilledSoFar[x] \in Nat /\ FilledSoFar[x] = FilledSoFar'[x]
    BY <1>7, <1>10, <1>11, <1>13, <1>15
  <2> HIDE DEF S
  <2>3. SumFunctionOnSet(FilledSoFar, S) = SumFunctionOnSet(FilledSoFar', S)
    BY <2>1, <2>2, SumSame
  <2> QED BY <2>3 DEF S
<1> DEFINE Old(s, d) == SumFunctionOnSet(FilledSoFar, OrdersOf(s, d))
           New(s, d) == SumFunctionOnSet(FilledSoFar', OrdersOf(s, d))
<1>16. \A s \in Symbols : Old(s, "Buy") = Old(s, "Sell")
  BY DEF TradedInv
<1>17. New(s0, r.side) = Old(s0, r.side) + n /\ New(s0, d0) = Old(s0, d0) + n
  BY <1>12, <1>14
<1>18. \A s \in Symbols \ {s0} : \A d : New(s, d) = Old(s, d)
  BY <1>15
<1>19. \A s \in Symbols : New(s, "Buy") = New(s, "Sell")
  <2> HIDE DEF Old, New
  <2>1. "Buy" \in {r.side, d0} /\ "Sell" \in {r.side, d0}
    BY <1>5 DEF Sides
  <2>2. New(s0, "Buy") = Old(s0, "Buy") + n /\ New(s0, "Sell") = Old(s0, "Sell") + n
    BY <1>17, <2>1
  <2> QED BY <1>16, <1>18, <2>2
<1> QED BY <1>11, <1>19 DEF TradedInv

LEMMA NextTraded ==
  ASSUME IInv, RestingInv, IInv', RestingInv', TradedInv, [Market!BookNext]_(Market!bookVars)
  PROVE  TradedInv'
<1>1. ASSUME UNCHANGED <<request, FilledSoFar>>  PROVE TradedInv'
  BY <1>1 DEF TradedInv, OrdersOf, Created
<1>2. CASE Market!Ask
  BY <1>2, AskTraded
<1>3. CASE Market!Trade
  BY <1>3, TradeTraded
<1>4. CASE UNCHANGED Market!bookVars
  BY <1>1, <1>4 DEF Market!bookVars
<1>5. CASE Market!Done \/ Market!Rest \/ Market!TurnAway
           \/ \E o \in Market!Orders : Market!Arrive(o) \/ Market!Withdraw(o)
  <2>1. UNCHANGED <<request, FilledSoFar>>
    BY <1>5 DEF Market!Done, Market!Rest, Market!TurnAway, Market!Arrive, Market!Withdraw
  <2> QED BY <1>1, <2>1
<1> QED BY <1>2, <1>3, <1>4, <1>5 DEF Market!BookNext, Market!Handle

(* In each symbol buyers have bought what sellers have sold, also in the   *)
(* middle of a sweep, for any number of orders (engine.rs:273-379).        *)
THEOREM Traded == Spec => []TradedInv
<1>1. Init => TradedInv
  <2> SUFFICES ASSUME Init  PROVE TradedInv
    OBVIOUS
  <2>1. \A s, d : OrdersOf(s, d) = {}
    BY DEF Init, OrdersOf, Created
  <2> QED BY <2>1 DEF TradedInv
<1>2. /\ IInv /\ CrossingInv /\ RestingInv /\ TotalsInv /\ IInv' /\ RestingInv'
      /\ TradedInv /\ [Next]_vars
      => TradedInv'
  BY NextMarket, NextTraded
<1> QED BY <1>1, <1>2, Invariance, Crossing, ClonesWait, Totals, PTL DEF Spec

(* Between submissions the status map tells what orders have traded.       *)
LEMMA StoredFilled ==
  ASSUME IInv, RestingInv, writer = NoTask
  PROVE  \A o \in Ids : FilledSoFar[o] = orders[o].filled
<1> SUFFICES ASSUME NEW o \in Ids  PROVE FilledSoFar[o] = orders[o].filled
  OBVIOUS
<1>1. filled_qty[o] = 0 /\ o # Taker /\ orders[o].filled \in Nat
  BY NoHolder, NoTaker, CopyType DEF IInv, TypeInv
<1>2. resting[o] # Absent => resting[o].filled = orders[o].filled + filled_qty[o]
  BY DEF RestingInv, IInv, WaitingInv
<1> QED BY <1>1, <1>2 DEF FilledSoFar

(* The sum of what the status map tells of the orders of a set.            *)
LEMMA FilledIsSum ==
  ASSUME NEW S, NEW f, \A o \in S : f[o] = orders[o].filled
  PROVE  MapThenSumSet(LAMBDA o : orders[o].filled, S) = SumFunctionOnSet(f, S)
<1> DEFINE Is(h) == h = [s \in SUBSET S |->
                           IF s = {} THEN 0 ELSE orders[Some(s)].filled + h[Without(s)]]
<1>1. MapThenSumSet(LAMBDA o : orders[o].filled, S) = (CHOOSE h : Is(h))[S]
  BY DEF MapThenSumSet, MapThenFoldSet, Some, Without
<1>2. ASSUME NEW h, NEW s \in SUBSET S
      PROVE  (IF s = {} THEN 0 ELSE orders[Some(s)].filled + h[Without(s)])
              = (IF s = {} THEN 0 ELSE f[Some(s)] + h[Without(s)])
  BY SomeIn
<1>3. \A h : IsSum(h, f, S) <=> Is(h)
  BY <1>2 DEF IsSum
<1>4. (CHOOSE h : IsSum(h, f, S)) = (CHOOSE h : Is(h))
  BY <1>3
<1>5. SumFunctionOnSet(f, S) = (CHOOSE h : IsSum(h, f, S))[S]
  BY SumIs
<1> QED BY <1>1, <1>4, <1>5

(* And between submissions that is what the status map tells, of the       *)
(* orders that still wait, are filled or were cancelled (order.rs:96).     *)
THEOREM Conserved == Spec => []Conservation
<1>1. ASSUME IInv, RestingInv, TradedInv  PROVE Conservation
  <2> SUFFICES ASSUME Unlocked, NEW s \in Symbols
               PROVE  MapThenSumSet(LAMBDA o : orders[o].filled, OrdersOf(s, "Buy"))
                        = MapThenSumSet(LAMBDA o : orders[o].filled, OrdersOf(s, "Sell"))
    BY DEF Conservation, OrdersOf
  <2>1. \A o \in Ids : FilledSoFar[o] = orders[o].filled
    BY <1>1, StoredFilled DEF Unlocked
  <2>2. ASSUME NEW d
        PROVE  MapThenSumSet(LAMBDA o : orders[o].filled, OrdersOf(s, d))
                 = SumFunctionOnSet(FilledSoFar, OrdersOf(s, d))
    <3>1. \A o \in OrdersOf(s, d) : FilledSoFar[o] = orders[o].filled
      BY <1>1, <2>1, SideOrders
    <3> QED BY <3>1, FilledIsSum
  <2> QED BY <1>1, <2>2 DEF TradedInv
<1> QED BY <1>1, Invariance, ClonesWait, Traded, PTL
=============================================================================
