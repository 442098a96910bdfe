----------------------------- MODULE BookProofs -----------------------------
(***************************************************************************)
(* Proofs about the books, for every value of the constants: the sides of  *)
(* a book never cross, a panic in add_order loses no trade, and every step *)
(* keeps order_locations, which cancellations search, with the queues.     *)
(***************************************************************************)
EXTENDS EngineProofs

-----------------------------------------------------------------------------
(* Level maps: which prices have a level after an operation.               *)

(* The levels once a swept level is put back or dropped.                   *)
LEMMA FinishedLevels ==
  ASSUME NEW f, IsLevelMap(f), NEW p, NEW n \in Nat
  PROVE  LET g == DropIfEmpty(ReduceTotalQuantity(f, p, n), p)
         IN  /\ DOMAIN g \subseteq DOMAIN f
             /\ QueueAt(f, p) = << >> => p \notin DOMAIN g
<1> DEFINE h == ReduceTotalQuantity(f, p, n)
<1>1. DOMAIN h = DOMAIN f
  BY DEF ReduceTotalQuantity
<1>2. QueueAt(h, p) = QueueAt(f, p)
  BY ReduceQueues
<1>3. /\ DOMAIN DropIfEmpty(h, p) \subseteq DOMAIN h
      /\ QueueAt(h, p) = << >> => p \notin DOMAIN DropIfEmpty(h, p)
  <2> HIDE DEF h
  <2> QED BY DEF DropIfEmpty, Drop, QueueAt, LevelAt
<1> QED BY <1>1, <1>2, <1>3

(* The levels once an order is withdrawn.                                  *)
LEMMA RemovedLevels ==
  ASSUME NEW f, IsLevelMap(f), NEW p, NEW o, NEW n
  PROVE  DOMAIN RemoveOrder(f, p, o, n) \subseteq DOMAIN f
<1>1. o \in ToSet(QueueAt(f, p)) => p \in DOMAIN f
  BY LevelType, EmptySet
<1> QED BY <1>1 DEF RemoveOrder, DropIfEmpty, Drop, Put

-----------------------------------------------------------------------------
(* A side that loses levels.                                               *)
LEMMA FewerLevels ==
  ASSUME TypeOK, SidesApart, NEW s0 \in Symbols, NEW d0 \in Sides, NEW g,
         levels' = [levels EXCEPT ![s0][d0] = g],
         DOMAIN g \subseteq DOMAIN levels[s0][d0]
  PROVE  /\ SidesApart'
         /\ levels'[s0][d0] = g
         /\ \A s \in Symbols, d \in Sides : DOMAIN levels'[s][d] \subseteq DOMAIN levels[s][d]
<1>1. DOMAIN levels = Symbols /\ \A s \in Symbols : DOMAIN levels[s] = Sides
  BY DEF TypeOK, LevelsOK
<1>2. /\ levels'[s0][d0] = g
      /\ \A s \in Symbols, d \in Sides : s # s0 \/ d # d0 => levels'[s][d] = levels[s][d]
  BY <1>1
<1>3. \A s \in Symbols, d \in Sides : DOMAIN levels'[s][d] \subseteq DOMAIN levels[s][d]
  BY <1>2
<1>4. SidesApart'
  BY <1>3 DEF SidesApart, Sides
<1> QED BY <1>2, <1>3, <1>4

(* The prices of a book are numbers.                                       *)
LEMMA LevelPrices ==
  ASSUME TypeOK, NEW s \in Symbols, NEW d \in Sides, NEW p \in DOMAIN levels[s][d]
  PROVE  p \in Prices /\ p \in Nat
<1>1. p \in Prices
  BY DEF TypeOK, LevelsOK, IsLevelMap
<1> QED BY <1>1, DomainAssumption DEF DomainAssumption

(* A limit order with a level at its own price meets none it crosses.      *)
LEMMA OwnLevelApart ==
  ASSUME TypeOK, SidesApart, NEW r \in Request, r.order_type = "Limit",
         r.price \in DOMAIN levels[r.symbol][r.side]
  PROVE  CrossingPrices(r) = {}
<1> SUFFICES ASSUME NEW p \in DOMAIN Against(r), Crosses(r, p)
             PROVE  FALSE
  BY DEF CrossingPrices
<1>1. r.symbol \in Symbols /\ r.side \in Sides /\ Opposite(r.side) \in Sides
  BY RequestType
<1>2. p \in Nat /\ r.price \in Nat
  BY <1>1, LevelPrices DEF Against
<1>3. CASE r.side = "Buy"
  <2>1. r.price < p
    BY <1>1, <1>3 DEF SidesApart, Against, Opposite
  <2> QED BY <1>2, <1>3, <2>1 DEF Crosses
<1>4. CASE r.side = "Sell"
  <2>1. p < r.price
    BY <1>1, <1>4 DEF SidesApart, Against, Opposite
  <2> QED BY <1>2, <1>4, <2>1 DEF Crosses
<1> QED BY <1>1, <1>3, <1>4 DEF Sides

(* An order that crosses nothing may have a level of its own.              *)
LEMMA RestingApart ==
  ASSUME TypeOK, SidesApart, NEW r \in Request, r.order_type = "Limit",
         CrossingPrices(r) = {}, NEW g,
         levels' = [levels EXCEPT ![r.symbol][r.side] = g],
         DOMAIN g = DOMAIN levels[r.symbol][r.side] \cup {r.price}
  PROVE  SidesApart'
<1>1. DOMAIN levels = Symbols /\ \A s \in Symbols : DOMAIN levels[s] = Sides
  BY DEF TypeOK, LevelsOK
<1>2. r.symbol \in Symbols /\ r.side \in Sides /\ Opposite(r.side) \in Sides
  BY RequestType
<1>3. /\ levels'[r.symbol][r.side] = g
      /\ \A s \in Symbols, d \in Sides :
           s # r.symbol \/ d # r.side => levels'[s][d] = levels[s][d]
  BY <1>1, <1>2
<1>4. r.price \in Nat
  BY RequestType, DomainAssumption DEF DomainAssumption
<1>5. \A p \in DOMAIN Against(r) : p \in Nat /\ ~ Crosses(r, p)
  BY <1>2, LevelPrices DEF CrossingPrices, Against
<1> SUFFICES ASSUME NEW s \in Symbols,
                    NEW bid \in DOMAIN levels'[s]["Buy"], NEW ask \in DOMAIN levels'[s]["Sell"]
             PROVE  bid < ask
  BY DEF SidesApart
<1>6. bid \in DOMAIN levels[s]["Buy"] /\ ask \in DOMAIN levels[s]["Sell"] => bid < ask
  BY DEF SidesApart
<1>7. CASE bid \notin DOMAIN levels[s]["Buy"]
  <2>1. s = r.symbol /\ r.side = "Buy" /\ bid = r.price
    BY <1>3, <1>7 DEF Sides
  <2>2. ask \in DOMAIN Against(r)
    BY <1>3, <2>1 DEF Against, Opposite, Sides
  <2> QED BY <1>4, <1>5, <2>1, <2>2 DEF Crosses
<1>8. CASE ask \notin DOMAIN levels[s]["Sell"]
  <2>1. s = r.symbol /\ r.side = "Sell" /\ ask = r.price
    BY <1>3, <1>8 DEF Sides
  <2>2. bid \in DOMAIN Against(r)
    BY <1>3, <2>1 DEF Against, Opposite, Sides
  <2> QED BY <1>4, <1>5, <2>1, <2>2 DEF Crosses
<1> QED BY <1>6, <1>7, <1>8

-----------------------------------------------------------------------------
(* The crossing invariant is kept by every step.                           *)

(* Empty books do not cross.                                               *)
LEMMA InitCrossing ==
  ASSUME Init
  PROVE  CrossingInv
BY DEF Init, CrossingInv, SidesApart, SweepInv, OwnLevelInv, NoLevels, Sides

(* Once nobody matches or stores, only the books matter.                   *)
LEMMA QuietCrossing ==
  ASSUME SidesApart', \A u \in Tasks : pc'[u] \notin {"match", "store"}
  PROVE  CrossingInv'
BY DEF CrossingInv, SweepInv, OwnLevelInv

(* A step that leaves alone whatever the invariant is about, for the tasks *)
(* that match or store after it.                                           *)
LEMMA SameCrossing ==
  ASSUME CrossingInv, UNCHANGED <<levels, incoming, prices>>,
         \A u \in Tasks : pc'[u] \in {"match", "store"} => pc'[u] = pc[u] /\ Own(u)' = Own(u)
  PROVE  CrossingInv'
BY DEF CrossingInv, SidesApart, SweepInv, OwnLevelInv, Own, CrossingPrices, Against, Crosses

(* A submission plans to visit all that it crosses.                        *)
LEMMA StartCrossing ==
  ASSUME IInv, CrossingInv, NEW t \in Tasks, StartMatching(t)
  PROVE  CrossingInv'
<1>1. /\ UNCHANGED <<request, levels, work>>
      /\ pc[t] = "submit" /\ writer = NoTask /\ pc' = [pc EXCEPT ![t] = "match"]
      /\ incoming' = NewOrder /\ prices' = CrossingPrices(Own(t))
  BY DEF StartMatching, Goto, books
<1>2. /\ TypeOK /\ Own(t) \in Request
      /\ \A u \in Tasks \ {t} : pc'[u] \notin {"match", "store"}
      /\ pc'[t] = "match"
  BY <1>1, OwnType, NoHolder DEF IInv, TypeInv, TypeOK
<1>3. Own(t)' = Own(t) /\ CrossingPrices(Own(t))' = CrossingPrices(Own(t))
  BY <1>1 DEF Own, CrossingPrices, Against, Crosses
<1>4. SidesApart'
  BY <1>1 DEF CrossingInv, SidesApart
<1>5. SweepInv'
  <2>1. \A p \in prices' : Crosses(Own(t)', p)
    BY <1>1, <1>3 DEF CrossingPrices
  <2> QED BY <1>1, <1>2, <1>3, <2>1 DEF SweepInv, Crosses
<1>6. OwnLevelInv'
  <2>1. /\ Own(t).order_type = "Limit"
        /\ Own(t).price \in DOMAIN levels[Own(t).symbol][Own(t).side]
        => prices' = {}
    BY <1>1, <1>2, OwnLevelApart DEF CrossingInv
  <2> QED BY <1>1, <1>2, <1>3, <2>1 DEF OwnLevelInv, NewOrder
<1> QED BY <1>4, <1>5, <1>6 DEF CrossingInv

(* A trade opens no level.                                                 *)
LEMMA TradeCrossing ==
  ASSUME IInv, CrossingInv, NEW t \in Tasks, Trade(t)
  PROVE  CrossingInv'
<1>1. /\ UNCHANGED <<request, pc, work, prices>>
      /\ pc[t] = "match" /\ prices # {} /\ ~ IsFilled(Own(t), incoming)
  BY DEF Trade
<1>2. /\ TypeOK /\ Own(t) \in Request
      /\ \A u \in Tasks \ {t} : pc'[u] \notin {"match", "store"}
  BY <1>1, OwnType, OneHolder DEF IInv, TypeInv
<1>3. PICK s0 \in Symbols, d0 \in Sides : s0 = Own(t).symbol /\ d0 = Opposite(Own(t).side)
  BY <1>2, RequestType
<1>4. \/ levels' = levels
      \/ \E p : levels' = [levels EXCEPT ![s0][d0] = PopFront(levels[s0][d0], p)]
  BY <1>3 DEF Trade
<1>5. /\ SidesApart'
      /\ \A s \in Symbols, d \in Sides : DOMAIN levels'[s][d] \subseteq DOMAIN levels[s][d]
  <2>1. CASE levels' = levels
    BY <2>1 DEF CrossingInv, SidesApart
  <2>2. ASSUME NEW p, levels' = [levels EXCEPT ![s0][d0] = PopFront(levels[s0][d0], p)]
        PROVE  /\ SidesApart'
               /\ \A s \in Symbols, d \in Sides :
                    DOMAIN levels'[s][d] \subseteq DOMAIN levels[s][d]
    <3>1. PICK g : g = PopFront(levels[s0][d0], p)
      OBVIOUS
    <3>2. levels' = [levels EXCEPT ![s0][d0] = g]
      BY <2>2, <3>1
    <3>3. DOMAIN g = DOMAIN levels[s0][d0]
      BY <3>1 DEF PopFront
    <3> QED BY <1>2, <3>2, <3>3, FewerLevels DEF CrossingInv
  <2> QED BY <1>4, <2>1, <2>2
<1>6. /\ Own(t)' = Own(t) /\ Own(t).symbol \in Symbols /\ Own(t).side \in Sides
      /\ Opposite(Own(t).side) \in Sides
  BY <1>1, <1>2, RequestType DEF Own
<1>7. CrossingPrices(Own(t))' \subseteq CrossingPrices(Own(t))
  BY <1>5, <1>6 DEF CrossingPrices, Against, Crosses
<1>8. SweepInv'
  BY <1>1, <1>2, <1>6, <1>7 DEF CrossingInv, SweepInv
<1>9. OwnLevelInv'
  BY <1>1, <1>2, <1>5, <1>6 DEF CrossingInv, OwnLevelInv
<1> QED BY <1>5, <1>8, <1>9 DEF CrossingInv

(* The level that is finished is gone, unless the order is filled.         *)
LEMMA FinishCrossing ==
  ASSUME IInv, CrossingInv, NEW t \in Tasks, FinishLevel(t)
  PROVE  CrossingInv'
<1>1. /\ UNCHANGED <<request, pc, work, incoming>>
      /\ pc[t] = "match" /\ prices # {}
  BY DEF FinishLevel
<1>2. /\ TypeOK /\ Own(t) \in Request /\ quantity_to_reduce \in Nat
      /\ \A u \in Tasks \ {t} : pc'[u] \notin {"match", "store"}
  BY <1>1, OwnType, OneHolder DEF IInv, TypeInv, TypeOK
<1>3. /\ Own(t)' = Own(t) /\ Own(t).symbol \in Symbols /\ Own(t).side \in Sides
      /\ Opposite(Own(t).side) \in Sides
  BY <1>1, <1>2, RequestType DEF Own
<1>4. PICK s0 \in Symbols, d0 \in Sides : s0 = Own(t).symbol /\ d0 = Opposite(Own(t).side)
  BY <1>3
<1>5. PICK p : p = BestPrice(Own(t))
  OBVIOUS
<1>6. PICK g :
        g = DropIfEmpty(ReduceTotalQuantity(levels[s0][d0], p, quantity_to_reduce), p)
  OBVIOUS
<1>7. levels' = [levels EXCEPT ![s0][d0] = g] /\ prices' = prices \ {p}
  BY <1>4, <1>5, <1>6 DEF FinishLevel
<1>8. IsLevelMap(levels[s0][d0])
  BY <1>2 DEF TypeOK, LevelsOK
<1>9. /\ DOMAIN g \subseteq DOMAIN levels[s0][d0]
      /\ QueueAt(levels[s0][d0], p) = << >> => p \notin DOMAIN g
  BY <1>2, <1>6, <1>8, FinishedLevels
<1>10. /\ SidesApart' /\ levels'[s0][d0] = g
       /\ \A s \in Symbols, d \in Sides : DOMAIN levels'[s][d] \subseteq DOMAIN levels[s][d]
  BY <1>2, <1>7, <1>9, FewerLevels DEF CrossingInv
<1>11. \/ IsFilled(Own(t), incoming)
       \/ QueueAt(levels[s0][d0], p) = << >>
  BY <1>4, <1>5 DEF FinishLevel, LevelDone, Against
<1>12. /\ CrossingPrices(Own(t))' \subseteq CrossingPrices(Own(t))
       /\ p \notin DOMAIN g => p \notin CrossingPrices(Own(t))'
  BY <1>3, <1>4, <1>10 DEF CrossingPrices, Against, Crosses
<1>13. SweepInv'
  BY <1>1, <1>2, <1>3, <1>7, <1>9, <1>11, <1>12 DEF CrossingInv, SweepInv
<1>14. OwnLevelInv'
  BY <1>1, <1>2, <1>3, <1>10 DEF CrossingInv, OwnLevelInv
<1> QED BY <1>10, <1>13, <1>14 DEF CrossingInv

(* A limit order that ran out of levels crosses nothing.                   *)
LEMMA CountCrossing ==
  ASSUME IInv, CrossingInv, NEW t \in Tasks, CountTrades(t)
  PROVE  CrossingInv'
<1>1. /\ UNCHANGED <<request, levels, work, incoming>>
      /\ pc[t] = "match" /\ pc' = [pc EXCEPT ![t] = "store"] /\ prices' = {}
      /\ prices = {} \/ IsFilled(Own(t), incoming)
  BY DEF CountTrades, Goto, books, MatchingDone
<1>2. /\ \A u \in Tasks \ {t} : pc'[u] \notin {"match", "store"}
      /\ pc'[t] = "store"
  BY <1>1, OneHolder DEF IInv, TypeInv, TypeOK
<1>3. Own(t)' = Own(t) /\ CrossingPrices(Own(t))' = CrossingPrices(Own(t))
  BY <1>1 DEF Own, CrossingPrices, Against, Crosses
<1>4. SidesApart'
  BY <1>1 DEF CrossingInv, SidesApart
<1>5. SweepInv'
  BY <1>1, <1>2, <1>3 DEF CrossingInv, SweepInv
<1>6. OwnLevelInv'
  BY <1>1, <1>2, <1>3 DEF CrossingInv, OwnLevelInv
<1> QED BY <1>4, <1>5, <1>6 DEF CrossingInv

(* What joins the book does not cross it.                                  *)
LEMMA StoreRestingCrossing ==
  ASSUME IInv, CrossingInv, NEW t \in Tasks, StoreResting(t)
  PROVE  CrossingInv'
<1>1. /\ pc[t] = "store" /\ ~ IsFilled(Own(t), incoming) /\ Release(t)
      /\ UNCHANGED request
  BY DEF StoreResting
<1>2. TypeOK /\ Own(t) \in Request /\ \A u \in Tasks : pc'[u] \notin {"match", "store"}
  BY <1>1, OwnType, Released, OneHolder DEF IInv, TypeInv
<1>3. Own(t).order_type = "Limit"
  BY <1>1, <1>2, RequestType DEF IInv, TypeInv, OnlyLimitsRest, OrderTypes
<1>4. CrossingPrices(Own(t)) = {}
  BY <1>1 DEF CrossingInv, SweepInv
<1>5. PICK r \in Request : r = Own(t)
  BY <1>2
<1>6. PICK g : g = AddOrder(levels[r.symbol][r.side], r.price, work[t],
                            RemainingQuantity(r, incoming))
  OBVIOUS
<1>7. levels' = [levels EXCEPT ![r.symbol][r.side] = g]
  BY <1>5, <1>6 DEF StoreResting
<1>8. DOMAIN g = DOMAIN levels[r.symbol][r.side] \cup {r.price}
  BY <1>6 DEF AddOrder, Put
<1>9. SidesApart'
  BY <1>2, <1>3, <1>4, <1>5, <1>7, <1>8, RestingApart DEF CrossingInv
<1> QED BY <1>2, <1>9, QuietCrossing

(* A withdrawal leaves fewer orders.                                       *)
LEMMA RemoveCrossing ==
  ASSUME IInv, CrossingInv, NEW t \in Tasks, CancelRemove(t)
  PROVE  CrossingInv'
<1>1. /\ pc[t] = "remove" /\ writer = NoTask /\ pc' = [pc EXCEPT ![t] = "mark"]
  BY DEF CancelRemove, Goto
<1>2. TypeOK /\ Own(t) \in Request /\ \A u \in Tasks : pc'[u] \notin {"match", "store"}
  BY <1>1, OwnType, NoHolder DEF IInv, TypeInv, TypeOK
<1>3. PICK s0 \in Symbols, d0 \in Sides : s0 = Own(t).symbol /\ d0 = Own(t).side
  BY <1>2, RequestType
<1>4. PICK g : g = RemoveOrder(levels[s0][d0], Own(t).price, work[t],
                               RemainingQuantity(Own(t), resting[work[t]]))
  OBVIOUS
<1>5. levels' = [levels EXCEPT ![s0][d0] = g]
  BY <1>3, <1>4 DEF CancelRemove
<1>6. DOMAIN g \subseteq DOMAIN levels[s0][d0]
  BY <1>2, <1>4, RemovedLevels DEF TypeOK, LevelsOK
<1>7. SidesApart'
  BY <1>2, <1>5, <1>6, FewerLevels DEF CrossingInv
<1> QED BY <1>2, <1>7, QuietCrossing

(* The crossing invariant is inductive beside the engine's.                *)
LEMMA NextCrossing ==
  ASSUME IInv, CrossingInv, [Next]_vars
  PROVE  CrossingInv'
<1>1. CASE UNCHANGED vars
  BY <1>1, SameCrossing DEF vars, books, locals, Own
<1>2. ASSUME NEW t \in Tasks,
             Refuse(t) \/ SubmitOrder(t) \/ CancelCheck(t) \/ Acquire(t) \/ Proceed(t)
      PROVE  CrossingInv'
  <2>1. CASE Refuse(t)
    BY <1>1, <2>1 DEF Refuse
  <2>2. CASE SubmitOrder(t) \/ CancelCheck(t)
    <3>1. /\ UNCHANGED <<levels, incoming, prices>>
          /\ pc[t] = "idle"
          /\ \E place \in {"submit", "remove"} : pc' = [pc EXCEPT ![t] = place]
          /\ \E o : work' = [work EXCEPT ![t] = o]
          /\ request' = request \/ \E r \in Request : request' = Append(request, r)
      BY <2>2 DEF SubmitOrder, CancelCheck, Goto, books, locals
    <3>2. TypeOK /\ Len(request) \in Nat /\ Created = 1 .. Len(request)
      BY CreatedType DEF IInv, TypeInv, Created
    <3>3. ASSUME NEW u \in Tasks, pc'[u] \in {"match", "store"}
          PROVE  pc'[u] = pc[u] /\ Own(u)' = Own(u)
      <4>1. u # t /\ pc'[u] = pc[u]
        BY <3>1, <3>2, <3>3 DEF TypeOK
      <4>2. work'[u] = work[u] /\ work[u] \in Created
        BY <3>1, <3>2, <3>3, <4>1, OwnType DEF TypeOK
      <4>3. request'[work[u]] = request[work[u]]
        BY <3>1, <3>2, <4>2 DEF TypeOK
      <4> QED BY <4>1, <4>2, <4>3 DEF Own
    <3> QED BY <3>1, <3>3, SameCrossing
  <2>3. CASE RejectMarket(t) \/ PanicInSum(t) \/ CancelMissed(t) \/ CancelMark(t)
    <3>1. /\ UNCHANGED <<request, levels, incoming, prices>>
          /\ pc[t] \in {"submit", "remove", "mark"}
          /\ \E place \in {"idle", "mark"} : pc' = [pc EXCEPT ![t] = place]
          /\ work' = work \/ work' = [work EXCEPT ![t] = NoOrder]
      BY <2>3 DEF RejectMarket, PanicInSum, CancelMissed, CancelMark, Return, Goto, books,
        locals
    <3>2. TypeOK
      BY DEF IInv, TypeInv
    <3>3. ASSUME NEW u \in Tasks, pc'[u] \in {"match", "store"}
          PROVE  pc'[u] = pc[u] /\ Own(u)' = Own(u)
      BY <3>1, <3>2, <3>3 DEF TypeOK, Own
    <3> QED BY <3>1, <3>3, SameCrossing
  <2>4. CASE StoreFilled(t) \/ PanicInAdd(t)
    <3>1. pc[t] = "store" /\ Release(t) /\ UNCHANGED <<request, levels>>
      BY <2>4 DEF StoreFilled, PanicInAdd, books
    <3>2. \A u \in Tasks : pc'[u] \notin {"match", "store"}
      BY <3>1, Released, OneHolder
    <3>3. SidesApart'
      BY <3>1 DEF CrossingInv, SidesApart
    <3> QED BY <3>2, <3>3, QuietCrossing
  <2> QED BY <1>2, <2>1, <2>2, <2>3, <2>4, StartCrossing, TradeCrossing, FinishCrossing,
    CountCrossing, StoreRestingCrossing, RemoveCrossing DEF Acquire, Proceed
<1> QED BY <1>1, <1>2 DEF Next

(* Between the sides of a book there is always a gap, and a submission     *)
(* visits every level it crosses, for any number of threads and any prices *)
(* (engine.rs:169-263).                                                    *)
THEOREM Crossing == Spec => []CrossingInv
<1>1. Init => CrossingInv
  BY InitCrossing
<1>2. IInv /\ CrossingInv /\ [Next]_vars => CrossingInv'
  BY NextCrossing
<1> QED BY <1>1, <1>2, Invariance, PTL DEF Spec

(* A book that a reader sees is not crossed (engine.rs:185-188).           *)
THEOREM BooksUncrossed == Spec => []Uncrossed
<1>1. CrossingInv => Uncrossed
  BY DEF CrossingInv, SidesApart, Uncrossed
<1> QED BY <1>1, Crossing, PTL

(* The level that is too full is at the order's own price, so the order    *)
(* met nothing it crosses.                                                 *)
LEMMA AddPanicsUntraded ==
  ASSUME IInv, CrossingInv, NEW t \in Tasks, PanicInAdd(t)
  PROVE  incoming.filled = 0
<1>1. pc[t] = "store" /\ ~ IsFilled(Own(t), incoming) /\ AddPanics(Own(t))
  BY DEF PanicInAdd
<1>2. Own(t) \in Request /\ Own(t).quantity \in 1 .. U64Max /\ incoming.filled \in Nat
  BY <1>1, OwnType, RequestType DEF IInv, TypeInv, TypeOK, Copy
<1>3. Own(t).order_type = "Limit"
  BY <1>1, <1>2, RequestType DEF IInv, TypeInv, OnlyLimitsRest, OrderTypes
<1>4. RemainingQuantity(Own(t), incoming) <= U64Max
  BY <1>2, DomainAssumption DEF RemainingQuantity, SaturatingSub, DomainAssumption
<1>5. RemainingQuantity(Own(t), incoming) \in Nat
  BY <1>2 DEF RemainingQuantity, SaturatingSub
<1>6. Own(t).price \in DOMAIN levels[Own(t).symbol][Own(t).side]
  BY <1>1, <1>4, <1>5, DomainAssumption
  DEF AddPanics, AddOverflows, LevelAt, EmptyLevel, DomainAssumption
<1> QED BY <1>1, <1>3, <1>6 DEF CrossingInv, OwnLevelInv

(* An addition that panics loses no trade: the order it drops has none     *)
(* (price_level.rs:28, engine.rs:185).                                     *)
THEOREM PanicsLoseNoTrade == Spec => PanicLosesNoTrade
<1>1. IInv /\ CrossingInv /\ [Next]_vars
      => [\A t \in Tasks : PanicInAdd(t) => incoming.filled = 0]_vars
  BY AddPanicsUntraded
<1> QED BY <1>1, Invariance, Crossing, PTL DEF Spec, PanicLosesNoTrade

-----------------------------------------------------------------------------
(* The locations.                                                          *)

(* Locations that stay, of orders that stay where they were.               *)
LEMMA SameLocations ==
  ASSUME LocationsInv,
         \A s \in Symbols : order_locations'[s] \subseteq order_locations[s],
         \A s \in Symbols : \A o \in order_locations'[s] :
           /\ request'[o] = request[o]
           /\ o \in WaitingOrders => o \in WaitingOrders' \cup orders_to_remove'
           /\ o \in orders_to_remove => o \in orders_to_remove'
           /\ Unwound(o) => Unwound(o)'
  PROVE  LocationsInv'
BY DEF LocationsInv

(* A step that moves no order to another task's hands: t goes from one     *)
(* place of a submission to the next, ends its call, or was idle.          *)
LEMMA HandsStay ==
  ASSUME TypeOK, NEW t \in Tasks, NEW o \in Created, Unwound(o),
         NEW place, pc' = [pc EXCEPT ![t] = place],
         \/ place \notin Submitting
         \/ work' = work /\ pc[t] \in Submitting
         \/ work' = [work EXCEPT ![t] = Len(request) + 1],
         \/ work' = work
         \/ \E m : work' = [work EXCEPT ![t] = m]
  PROVE  \A u \in Tasks : pc'[u] \in Submitting => work'[u] # o
<1>1. o \in 1 .. Len(request) /\ Len(request) \in Nat
  BY DEF Created, TypeOK
<1>2. \A u \in Tasks : u # t => pc'[u] = pc[u] /\ work'[u] = work[u]
  BY DEF TypeOK
<1>3. pc'[t] = place
  BY DEF TypeOK
<1>4. place \in Submitting => work'[t] # o
  BY <1>1 DEF TypeOK, Unwound
<1> QED BY <1>2, <1>3, <1>4 DEF Unwound

(* Nobody finds an order again that a panic lost.                          *)
LEMMA UnwoundStays ==
  ASSUME IInv, [Next]_vars, NEW o \in Created, Unwound(o)
  PROVE  Unwound(o)'
<1>1. /\ TypeOK /\ o \in Ids /\ Absent.status = "Absent"
      /\ orders \in [Ids -> Copy]
  BY CreatedType DEF IInv, TypeInv, TypeOK, Absent
<1>2. ASSUME NEW t \in Tasks,
             \/ Refuse(t) \/ CancelCheck(t) \/ StartMatching(t) \/ RejectMarket(t)
             \/ PanicInSum(t) \/ CancelRemove(t) \/ CancelMissed(t) \/ CountTrades(t)
             \/ PanicInAdd(t) \/ SubmitOrder(t) \/ Trade(t)
      PROVE  UNCHANGED orders
  BY <1>2 DEF Refuse, CancelCheck, StartMatching, RejectMarket, PanicInSum, CancelRemove,
    CancelMissed, CountTrades, PanicInAdd, SubmitOrder, Trade, vars
<1>3. ASSUME NEW t \in Tasks, StoreFilled(t) \/ StoreResting(t)
      PROVE  orders'[o] = Absent
  <2>1. pc[t] \in Submitting /\ orders' = [orders EXCEPT ![work[t]] = incoming]
    BY <1>3 DEF StoreFilled, StoreResting, StoreOrder, Submitting
  <2> QED BY <1>1, <2>1 DEF Unwound
<1>4. ASSUME NEW t \in Tasks, FinishLevel(t)
      PROVE  orders'[o] = Absent
  BY <1>1, <1>4 DEF FinishLevel, StoreFills, Unwound
<1>5. ASSUME NEW t \in Tasks, CancelMark(t)
      PROVE  orders'[o] = Absent
  <2>1. pc[t] = "mark" /\ orders' = [orders EXCEPT ![work[t]] = Cancel(orders[work[t]])]
    BY <1>5 DEF CancelMark
  <2>2. work[t] # o
    BY <1>1, <2>1 DEF IInv, TasksInv, Unwound
  <2> QED BY <1>1, <2>1, <2>2 DEF Unwound
<1>6. CASE UNCHANGED vars
  BY <1>6 DEF vars, books, locals, Unwound
<1>7. ASSUME NEW t \in Tasks, Refuse(t)
      PROVE  UNCHANGED vars
  BY <1>7 DEF Refuse
<1>8. ASSUME NEW t \in Tasks,
             SubmitOrder(t) \/ CancelCheck(t) \/ Acquire(t) \/ Proceed(t)
      PROVE  \A u \in Tasks : pc'[u] \in Submitting => work'[u] # o
  <2>1. CASE SubmitOrder(t)
    <3>1. /\ pc' = [pc EXCEPT ![t] = "submit"]
          /\ work' = [work EXCEPT ![t] = Len(request) + 1]
      BY <2>1 DEF SubmitOrder, Goto
    <3> QED BY <1>1, <3>1, HandsStay
  <2>2. CASE CancelCheck(t) \/ CancelRemove(t) \/ CancelMissed(t)
    <3>1. PICK place \in {"remove", "mark"} : pc' = [pc EXCEPT ![t] = place]
      BY <2>2 DEF CancelCheck, CancelRemove, CancelMissed, Goto
    <3>2. work' = work \/ \E m : work' = [work EXCEPT ![t] = m]
      BY <2>2 DEF CancelCheck, CancelRemove, CancelMissed
    <3>3. place \notin Submitting
      BY DEF Submitting
    <3> QED BY <1>1, <3>1, <3>2, <3>3, HandsStay
  <2>3. CASE RejectMarket(t) \/ PanicInSum(t) \/ StoreFilled(t) \/ StoreResting(t)
             \/ PanicInAdd(t) \/ CancelMark(t)
    <3>1. pc' = [pc EXCEPT ![t] = "idle"] /\ work' = [work EXCEPT ![t] = NoOrder]
      BY <2>3 DEF RejectMarket, PanicInSum, StoreFilled, StoreResting, PanicInAdd, CancelMark,
        Release, Return, Goto
    <3> QED BY <1>1, <3>1, HandsStay DEF Submitting
  <2>4. CASE StartMatching(t) \/ CountTrades(t)
    <3>1. /\ pc[t] \in Submitting /\ work' = work
          /\ \E place \in {"match", "store"} : pc' = [pc EXCEPT ![t] = place]
      BY <2>4 DEF StartMatching, CountTrades, Goto, Submitting
    <3> QED BY <1>1, <3>1, HandsStay
  <2>5. CASE Trade(t) \/ FinishLevel(t)
    <3>1. UNCHANGED <<pc, work>>
      BY <2>5 DEF Trade, FinishLevel
    <3> QED BY <3>1 DEF Unwound
  <2> QED BY <1>8, <2>1, <2>2, <2>3, <2>4, <2>5 DEF Acquire, Proceed
<1>9. ASSUME NEW t \in Tasks,
             SubmitOrder(t) \/ CancelCheck(t) \/ Acquire(t) \/ Proceed(t)
      PROVE  orders'[o] = Absent
  BY <1>2, <1>3, <1>4, <1>5, <1>9 DEF Acquire, Proceed, Unwound
<1> QED BY <1>6, <1>7, <1>8, <1>9 DEF Next, Unwound

-----------------------------------------------------------------------------
(* A step that begins no sweep and removes no order of one.                *)
LEMMA SameSweep ==
  ASSUME TypeOK, SweptInv,
         \A o \in Created : request'[o] = request[o],
         orders_to_remove' \subseteq orders_to_remove,
         \A u \in Tasks : pc'[u] = "match" => pc[u] = "match" /\ work'[u] = work[u]
  PROVE  SweptInv'
<1>1. ASSUME NEW u \in Tasks, pc'[u] = "match", NEW o \in orders_to_remove'
      PROVE  request'[o].symbol = Own(u)'.symbol
  <2>1. o \in Created /\ work[u] \in Created /\ pc[u] = "match" /\ work'[u] = work[u]
    BY <1>1, OwnType DEF TypeOK
  <2> QED BY <1>1, <2>1 DEF SweptInv, Own
<1> QED BY <1>1 DEF SweptInv

(* Every step keeps a sweep within its symbol.                             *)
LEMMA NextSwept ==
  ASSUME IInv, SweptInv, [Next]_vars
  PROVE  SweptInv'
<1>1. TypeOK /\ Len(request) \in Nat
  BY DEF IInv, TypeInv, TypeOK
<1>2. CASE UNCHANGED vars
  BY <1>1, <1>2, SameSweep DEF vars, locals
<1>3. ASSUME NEW t \in Tasks, SubmitOrder(t) \/ CancelCheck(t)
      PROVE  SweptInv'
  <2>1. /\ UNCHANGED orders_to_remove
        /\ request' = request \/ \E r \in Request : request' = Append(request, r)
        /\ \E place \in {"submit", "remove"} : pc' = [pc EXCEPT ![t] = place]
        /\ \E m : work' = [work EXCEPT ![t] = m]
    BY <1>3 DEF SubmitOrder, CancelCheck, Goto, locals
  <2>2. \A o \in Created : request'[o] = request[o]
    BY <1>1, <2>1 DEF Created, TypeOK
  <2>3. \A u \in Tasks : pc'[u] = "match" => pc[u] = "match" /\ work'[u] = work[u]
    BY <1>1, <2>1 DEF TypeOK
  <2> QED BY <1>1, <2>1, <2>2, <2>3, SameSweep
<1>4. ASSUME NEW t \in Tasks, StartMatching(t)
      PROVE  SweptInv'
  <2>1. orders_to_remove' = {}
    BY <1>4, NoHolder DEF StartMatching
  <2> QED BY <2>1 DEF SweptInv
<1>5. ASSUME NEW t \in Tasks, Trade(t)
      PROVE  SweptInv'
  <2>1. PICK s0 \in Symbols, d0 \in Sides, p \in Prices, o \in WaitingOrders, n \in Nat,
             popped \in BOOLEAN : TradeFills(t, s0, d0, p, o, n, popped)
    BY <1>5, TradeEffect
  <2>2. /\ s0 = Own(t).symbol /\ Line(s0, d0, p) # << >> /\ o = Head(Line(s0, d0, p))
        /\ orders_to_remove' \subseteq orders_to_remove \cup {o}
    BY <2>1 DEF TradeFills
  <2>3. request[o].symbol = s0
    <3>1. Line(s0, d0, p) \in Seq(Nat) /\ IsInjective(Line(s0, d0, p))
      BY <1>1, LevelType DEF IInv, LinesInv, TypeOK, LevelsOK, Line
    <3>2. o \in ToSet(Line(s0, d0, p))
      BY <2>2, <3>1, TailSet
    <3> QED BY <3>2 DEF IInv, LinesInv
  <2>4. UNCHANGED <<request, pc, work>> /\ pc[t] = "match"
    BY <1>5 DEF Trade
  <2>5. \A u \in Tasks : pc[u] = "match" => u = t
    BY <2>4, OneHolder
  <2> QED BY <2>2, <2>3, <2>4, <2>5 DEF SweptInv, Own
<1>6. ASSUME NEW t \in Tasks, FinishLevel(t)
      PROVE  SweptInv'
  BY <1>6 DEF FinishLevel, SweptInv
<1>7. ASSUME NEW t \in Tasks,
             \/ RejectMarket(t) \/ PanicInSum(t) \/ CancelRemove(t) \/ CancelMissed(t)
             \/ CountTrades(t) \/ StoreFilled(t) \/ StoreResting(t) \/ PanicInAdd(t)
             \/ CancelMark(t)
      PROVE  SweptInv'
  <2>1. /\ UNCHANGED <<request, orders_to_remove>>
        /\ \E place \in {"idle", "mark", "store"} : pc' = [pc EXCEPT ![t] = place]
        /\ work' = work \/ work' = [work EXCEPT ![t] = NoOrder]
    BY <1>7 DEF RejectMarket, PanicInSum, CancelRemove, CancelMissed, CountTrades, StoreFilled,
      StoreResting, PanicInAdd, CancelMark, Release, Return, Goto, locals
  <2>2. \A u \in Tasks : pc'[u] = "match" => pc[u] = "match" /\ work'[u] = work[u]
    BY <1>1, <2>1 DEF TypeOK
  <2> QED BY <1>1, <2>1, <2>2, SameSweep
<1>8. ASSUME NEW t \in Tasks, Refuse(t)
      PROVE  UNCHANGED vars
  BY <1>8 DEF Refuse
<1> QED BY <1>2, <1>3, <1>4, <1>5, <1>6, <1>7, <1>8 DEF Next, Acquire, Proceed

-----------------------------------------------------------------------------
(* At first there are no locations.                                        *)
LEMMA InitLocations ==
  ASSUME Init
  PROVE  SweptInv /\ LocationsInv
BY DEF Init, SweptInv, LocationsInv

(* Every step keeps the locations in step with the queues.                 *)
LEMMA NextLocations ==
  ASSUME IInv, SweptInv, LocationsInv, [Next]_vars,
         \A t \in Tasks : PanicInAdd(t) => ~ Fits
  PROVE  LocationsInv'
<1>1. /\ TypeOK /\ \A s \in Symbols : order_locations[s] \subseteq Created
  BY DEF IInv, TypeInv, TypeOK
<1>2. ASSUME UNCHANGED <<request, levels, order_locations>>,
             orders_to_remove \subseteq orders_to_remove'
      PROVE  LocationsInv'
  <2>1. WaitingOrders' = WaitingOrders
    BY <1>2, SameLines
  <2> QED BY <1>1, <1>2, <2>1, UnwoundStays, SameLocations
<1>3. ASSUME NEW t \in Tasks, SubmitOrder(t)
      PROVE  LocationsInv'
  <2>1. /\ UNCHANGED <<levels, order_locations, orders_to_remove>>
        /\ \E r \in Request : request' = Append(request, r)
    BY <1>3 DEF SubmitOrder, books, locals
  <2>2. request \in Seq(Request) /\ Len(request) \in Nat
    BY <1>1 DEF TypeOK
  <2>3. /\ Created \subseteq Created'
        /\ \A o \in Created : request'[o] = request[o]
    BY <2>1, <2>2 DEF Created
  <2>4. WaitingOrders \subseteq WaitingOrders'
    BY <2>1, <2>3 DEF WaitingOrders, Waiting, OwnLine, Line
  <2> QED BY <1>1, <2>1, <2>3, <2>4, UnwoundStays, SameLocations
<1>4. ASSUME NEW t \in Tasks, Trade(t)
      PROVE  LocationsInv'
  <2>1. PICK s0 \in Symbols, d0 \in Sides, p \in Prices, o \in WaitingOrders, n \in Nat,
             popped \in BOOLEAN : TradeFills(t, s0, d0, p, o, n, popped)
    BY <1>4, TradeEffect
  <2>2. /\ WaitingOrders' = IF popped THEN WaitingOrders \ {o} ELSE WaitingOrders
        /\ orders_to_remove' = IF popped THEN orders_to_remove \cup {o} ELSE orders_to_remove
    BY <2>1 DEF TradeFills
  <2>3. UNCHANGED <<request, order_locations>>
    BY <1>4 DEF Trade
  <2> QED BY <1>1, <2>2, <2>3, UnwoundStays, SameLocations
<1>5. ASSUME NEW t \in Tasks, FinishLevel(t)
      PROVE  LocationsInv'
  <2>1. /\ UNCHANGED request /\ orders_to_remove' = {}
        /\ order_locations' = [order_locations EXCEPT ![Own(t).symbol] = @ \ orders_to_remove]
    BY <1>5 DEF FinishLevel, RemoveLocations
  <2>2. WaitingOrders' = WaitingOrders
    BY <1>5, FinishLines
  <2>3. pc[t] = "match" /\ \A o \in orders_to_remove : request[o].symbol = Own(t).symbol
    BY <1>5 DEF FinishLevel, SweptInv
  <2>4. \A s \in Symbols : order_locations'[s] \subseteq order_locations[s]
    BY <1>1, <2>1 DEF TypeOK
  <2>5. \A s \in Symbols : \A o \in order_locations'[s] : o \notin orders_to_remove
    <3>1. order_locations'[Own(t).symbol] = order_locations[Own(t).symbol] \ orders_to_remove
          \/ Own(t).symbol \notin Symbols
      BY <1>1, <2>1 DEF TypeOK
    <3> QED BY <2>3, <2>4, <3>1 DEF LocationsInv
  <2> QED BY <1>1, <2>1, <2>2, <2>4, <2>5, UnwoundStays, SameLocations
<1>6. ASSUME NEW t \in Tasks, StoreResting(t)
      PROVE  LocationsInv'
  <2>1. PICK s0 \in Symbols, d0 \in Sides, p0 \in Prices, m \in Ids, n \in Nat :
          OrderRests(t, s0, d0, p0, m, n)
    BY <1>6, StoreRestingEffect
  <2>2. /\ WaitingOrders' = WaitingOrders \cup {m} /\ s0 = request[m].symbol
        /\ order_locations' = [order_locations EXCEPT ![s0] = order_locations[s0] \cup {m}]
    BY <2>1 DEF OrderRests
  <2>3. UNCHANGED <<request, orders_to_remove>>
    BY <1>6 DEF StoreResting
  <2>4. ASSUME NEW s \in Symbols, NEW o \in order_locations'[s]
        PROVE  /\ request'[o].symbol = s
               /\ o \in WaitingOrders' \cup orders_to_remove' \/ Unwound(o)'
    <3>1. o \in order_locations[s] \/ (o = m /\ s = s0)
      BY <1>1, <2>2 DEF TypeOK
    <3> QED BY <1>1, <2>2, <2>3, <3>1, UnwoundStays DEF LocationsInv
  <2> QED BY <2>4 DEF LocationsInv
<1>7. ASSUME NEW t \in Tasks, PanicInAdd(t)
      PROVE  LocationsInv'
  <2>1. /\ pc[t] = "store" /\ OverflowChecks /\ ~ Fits /\ Release(t)
        /\ UNCHANGED <<request, orders, levels, orders_to_remove>>
        /\ order_locations' = [order_locations EXCEPT ![Own(t).symbol] = @ \cup {work[t]}]
    BY <1>7 DEF PanicInAdd, AddPanics
  <2>2. PICK m \in Created : m = work[t]
    BY <2>1, Storing
  <2>3. Unwound(m)'
    <3>1. /\ orders[m] = Absent
          /\ \A u \in Tasks \ {t} : work[u] # m
      BY <2>1, <2>2, Storing
    <3>2. /\ pc'[t] = "idle"
          /\ \A u \in Tasks \ {t} : work'[u] = work[u]
      BY <2>1, Released
    <3>3. \A u \in Tasks : pc'[u] \in Submitting => work'[u] # m
      BY <3>1, <3>2 DEF Submitting
    <3> QED BY <2>1, <3>1, <3>3 DEF Unwound
  <2>4. WaitingOrders' = WaitingOrders
    BY <2>1, SameLines
  <2>5. ASSUME NEW s \in Symbols, NEW o \in order_locations'[s]
        PROVE  /\ request'[o].symbol = s
               /\ o \in WaitingOrders' \cup orders_to_remove' \/ Unwound(o)'
    <3>1. o \in order_locations[s] \/ (o = m /\ s = request[m].symbol)
      BY <1>1, <2>1, <2>2 DEF TypeOK, Own
    <3> QED BY <1>1, <2>1, <2>3, <2>4, <3>1, UnwoundStays DEF LocationsInv
  <2> QED BY <2>5 DEF LocationsInv
<1>8. ASSUME NEW t \in Tasks, CancelRemove(t)
      PROVE  LocationsInv'
  <2>1. PICK s0 \in Symbols, d0 \in Sides, m \in Ids, n \in Nat :
          OrderLeaves(t, s0, d0, m, n)
    BY <1>8, RemoveEffect
  <2>2. /\ WaitingOrders' = WaitingOrders \ {m} /\ s0 = request[m].symbol
        /\ order_locations' = [order_locations EXCEPT ![s0] = order_locations[s0] \ {m}]
    BY <2>1 DEF OrderLeaves
  <2>3. UNCHANGED <<request, orders_to_remove>>
    BY <1>8 DEF CancelRemove, locals
  <2>4. \A s \in Symbols : \A o \in order_locations'[s] : o \in order_locations[s] /\ o # m
    BY <1>1, <2>2 DEF LocationsInv, TypeOK
  <2> QED BY <1>1, <2>2, <2>3, <2>4, UnwoundStays, SameLocations
<1>9. ASSUME NEW t \in Tasks,
             \/ Refuse(t) \/ CancelCheck(t) \/ StartMatching(t) \/ RejectMarket(t)
             \/ PanicInSum(t) \/ CancelMissed(t) \/ CountTrades(t) \/ StoreFilled(t)
             \/ CancelMark(t)
      PROVE  UNCHANGED <<request, levels, order_locations, orders_to_remove>>
  BY <1>9 DEF Refuse, CancelCheck, StartMatching, RejectMarket, PanicInSum, CancelMissed,
    CountTrades, StoreFilled, CancelMark, vars, books, locals
<1>10. CASE UNCHANGED vars
  BY <1>2, <1>10 DEF vars, books, locals
<1> QED BY <1>2, <1>3, <1>4, <1>5, <1>6, <1>7, <1>8, <1>9, <1>10 DEF Next, Acquire, Proceed

-----------------------------------------------------------------------------
(* The orders in the book of a symbol are those that wait in its lines.    *)
LEMMA BookOrders ==
  ASSUME IInv, NEW s \in Symbols
  PROVE  BookIds(s) = {o \in WaitingOrders : request[o].symbol = s}
<1>1. /\ TypeOK /\ LevelsOK /\ LinesInv
      /\ \A d \in Sides : IsLevelMap(levels[s][d])
  BY DEF IInv, TypeInv, TypeOK, LevelsOK
<1>2. ASSUME NEW d \in Sides, NEW p \in DOMAIN levels[s][d]
      PROVE  p \in Prices /\ levels[s][d][p].orders = Line(s, d, p)
  BY <1>1, <1>2 DEF IsLevelMap, Line, QueueAt, LevelAt
<1>3. ASSUME NEW o \in BookIds(s)
      PROVE  o \in WaitingOrders /\ request[o].symbol = s
  <2>1. PICK d \in Sides : \E p \in DOMAIN levels[s][d] : o \in ToSet(levels[s][d][p].orders)
    BY DEF BookIds, Queued
  <2> QED BY <1>1, <1>2, <2>1, InLine DEF LinesInv
<1>4. ASSUME NEW o \in WaitingOrders, request[o].symbol = s
      PROVE  o \in BookIds(s)
  <2>1. /\ o \in Created /\ request[o].side \in Sides
        /\ o \in ToSet(Line(s, request[o].side, request[o].price))
    BY <1>1, <1>4, CreatedType, RequestType DEF WaitingOrders, Waiting, OwnLine
  <2>2. request[o].price \in DOMAIN levels[s][request[o].side]
    BY <2>1, EmptySet DEF Line, QueueAt, LevelAt, EmptyLevel
  <2> QED BY <1>2, <2>1, <2>2 DEF BookIds, Queued
<1> QED BY <1>3, <1>4
=============================================================================
