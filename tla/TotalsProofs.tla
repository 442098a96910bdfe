---------------------------- MODULE TotalsProofs ----------------------------
(***************************************************************************)
(* Proofs about quantities: what the levels of a book cache is what their  *)
(* orders have left, when they cannot overflow and what a panic leaves if  *)
(* they do, what that means for market orders, and that trades fill orders *)
(* for good.                                                               *)
(***************************************************************************)
EXTENDS BookProofs, SumLemmas

-----------------------------------------------------------------------------
(* The sums of the model are sums over sets.                               *)

(* SideQuantity sums up the cached quantities.                             *)
LEMMA SideIsSum ==
  ASSUME NEW f
  PROVE  SideQuantity(f) = SumFunctionOnSet([p \in DOMAIN f |-> f[p].total_quantity], DOMAIN f)
<1> DEFINE S == DOMAIN f
           g == [p \in S |-> f[p].total_quantity]
           Is(h) == h = [s \in SUBSET S |->
                           IF s = {} THEN 0 ELSE f[Some(s)].total_quantity + h[Without(s)]]
<1>1. SideQuantity(f) = (CHOOSE h : Is(h))[S]
  BY DEF SideQuantity, MapThenSumSet, MapThenFoldSet, Some, Without
<1>2. ASSUME NEW h, NEW s \in SUBSET S
      PROVE  (IF s = {} THEN 0 ELSE f[Some(s)].total_quantity + h[Without(s)])
              = (IF s = {} THEN 0 ELSE g[Some(s)] + h[Without(s)])
  BY SomeIn
<1>3. \A h : IsSum(h, g, S) <=> Is(h)
  BY <1>2 DEF IsSum
<1>4. (CHOOSE h : IsSum(h, g, S)) = (CHOOSE h : Is(h))
  BY <1>3
<1>5. SumFunctionOnSet(g, S) = (CHOOSE h : IsSum(h, g, S))[S]
  BY SumIs
<1> QED BY <1>1, <1>4, <1>5

(* So does the sum of what is left.                                        *)
LEMMA LeftIsSum ==
  ASSUME TypeOK, NEW S \in SUBSET Created
  PROVE  MapThenSumSet(Remaining, S) = LeftOf(S)
<1> DEFINE g == RemainingOf
           Is(h) == h = [s \in SUBSET S |->
                           IF s = {} THEN 0 ELSE Remaining(Some(s)) + h[Without(s)]]
<1>1. MapThenSumSet(Remaining, S) = (CHOOSE h : Is(h))[S]
  BY DEF MapThenSumSet, MapThenFoldSet, Some, Without
<1>2. ASSUME NEW h, NEW s \in SUBSET S
      PROVE  (IF s = {} THEN 0 ELSE Remaining(Some(s)) + h[Without(s)])
              = (IF s = {} THEN 0 ELSE g[Some(s)] + h[Without(s)])
  BY SomeIn, CreatedType DEF RemainingOf
<1>3. \A h : IsSum(h, g, S) <=> Is(h)
  BY <1>2 DEF IsSum
<1>4. (CHOOSE h : IsSum(h, g, S)) = (CHOOSE h : Is(h))
  BY <1>3
<1>5. SumFunctionOnSet(g, S) = (CHOOSE h : IsSum(h, g, S))[S]
  BY SumIs
<1> QED BY <1>1, <1>4, <1>5 DEF LeftOf

-----------------------------------------------------------------------------
(* What is left.                                                           *)

(* Created orders have naturals left, waiting ones something.              *)
LEMMA RemainingType ==
  ASSUME IInv
  PROVE  /\ \A o \in Created : RemainingOf[o] \in Nat /\ RemainingOf[o] = Remaining(o)
         /\ \A o \in WaitingOrders :
              /\ o \in Created /\ o \in Ids
              /\ request[o].quantity \in Nat /\ resting[o].filled \in Nat
              /\ RemainingOf[o] = request[o].quantity - resting[o].filled
              /\ RemainingOf[o] > 0
         /\ IsFiniteSet(Created)
<1>1. TypeOK /\ Created \subseteq Ids /\ WaitingOrders \subseteq Created
  BY CreatedType DEF IInv, TypeInv, WaitingOrders
<1>2. \A o \in Created : /\ request[o].quantity \in Nat /\ resting[o].filled \in Nat
                         /\ RemainingOf[o] = Remaining(o)
  BY <1>1, CreatedType, CopyType, RequestType DEF RemainingOf
<1>3. \A o \in Created : RemainingOf[o] \in Nat
  BY <1>2, SaturatingSubType DEF Remaining, RemainingQuantity
<1>4. \A o \in WaitingOrders : resting[o].filled < request[o].quantity
  BY DEF IInv, WaitingInv
<1>5. IsFiniteSet(Created)
  BY <1>1, FS_Interval DEF Created, TypeOK
<1> QED BY <1>1, <1>2, <1>3, <1>4, <1>5 DEF Remaining, RemainingQuantity, SaturatingSub

(* Sums of what is left are naturals.                                      *)
LEMMA LeftType ==
  ASSUME IInv, NEW S \in SUBSET Created
  PROVE  LeftOf(S) \in Nat /\ IsFiniteSet(S)
<1>1. IsFiniteSet(S) /\ \A o \in S : RemainingOf[o] \in Nat
  BY RemainingType, FS_Subset
<1> QED BY <1>1, SumType DEF LeftOf

(* Where the orders fit, amounts up to what they ask for do.               *)
LEMMA AllFit ==
  ASSUME TypeOK, Fits, NEW S \in SUBSET Created,
         NEW f, \A o \in S : f[o] \in Nat /\ f[o] <= request[o].quantity
  PROVE  SumFunctionOnSet(f, S) <= U64Max
<1> DEFINE A == {request[o].quantity : o \in S}
<1>1. U64Max \in Nat /\ MaxOrders \in Nat
  BY DomainAssumption, EngineAssumption DEF DomainAssumption, EngineAssumption
<1>2. A \subseteq Quantities /\ A \subseteq 0 .. U64Max
  <2> SUFFICES ASSUME NEW o \in S
               PROVE  request[o].quantity \in Quantities /\ request[o].quantity \in 0 .. U64Max
    OBVIOUS
  <2>1. request[o] \in Request /\ request[o].quantity \in 1 .. U64Max
    BY CreatedType, RequestType
  <2>2. request[o].quantity \in Quantities
    BY <2>1 DEF Request, CreateOrderRequest, Validate
  <2> QED BY <1>1, <2>1, <2>2
<1>3. /\ IsFiniteSet(S) /\ Cardinality(S) \in Nat /\ Cardinality(S) <= MaxOrders
  <2>1. S \subseteq 1 .. MaxOrders
    BY CreatedType DEF Ids
  <2>2. IsFiniteSet(1 .. MaxOrders) /\ Cardinality(1 .. MaxOrders) = MaxOrders
    BY <1>1, FS_Interval
  <2> QED BY <2>1, <2>2, FS_Subset, FS_CardinalityType
<1>4. CASE S = {}
  BY <1>1, <1>4, SumEmpty
<1>5. CASE S # {}
  <2>1. PICK b \in A : \A q \in A : q <= b
    <3>1. A # {}
      BY <1>5
    <3> HIDE DEF A
    <3> QED BY <1>1, <1>2, <3>1, Greatest
  <2>2. b \in Nat /\ MaxOrders * b <= U64Max
    BY <1>1, <1>2, <2>1 DEF Fits
  <2>3. \A o \in S : f[o] \in Nat /\ f[o] <= b
    <3> SUFFICES ASSUME NEW o \in S  PROVE f[o] \in Nat /\ f[o] <= b
      OBVIOUS
    <3>1. request[o].quantity \in A
      OBVIOUS
    <3>2. request[o].quantity \in Nat /\ request[o].quantity <= b
      BY <1>2, <2>1, <3>1
    <3> QED BY <2>2, <3>2
  <2>4. SumFunctionOnSet(f, S) \in Nat /\ SumFunctionOnSet(f, S) <= Cardinality(S) * b
    BY <1>3, <2>2, <2>3, SumType, SumBounded
  <2>5. Cardinality(S) * b <= MaxOrders * b
    <3>1. \A i, j, k \in Nat : i <= j => i * k <= j * k
      OBVIOUS
    <3> QED BY <1>1, <1>3, <2>2, <3>1
  <2>6. Cardinality(S) * b \in Nat /\ MaxOrders * b \in Nat
    BY <1>1, <1>3, <2>2
  <2> QED BY <1>1, <2>2, <2>4, <2>5, <2>6
<1> QED BY <1>4, <1>5

(* So does what orders have left.                                          *)
LEMMA LeftFits ==
  ASSUME IInv, Fits, NEW S \in SUBSET Created
  PROVE  LeftOf(S) <= U64Max
<1>1. \A o \in S : RemainingOf[o] \in Nat /\ RemainingOf[o] <= request[o].quantity
  <2> SUFFICES ASSUME NEW o \in S
               PROVE  RemainingOf[o] \in Nat /\ RemainingOf[o] <= request[o].quantity
    OBVIOUS
  <2>1. RemainingOf[o] \in Nat /\ RemainingOf[o] = Remaining(o)
    BY RemainingType
  <2>2. request[o].quantity \in Nat /\ resting[o].filled \in Nat
    BY CreatedType, CopyType, RequestType DEF IInv, TypeInv
  <2> QED BY <2>1, <2>2, SaturatingSubType DEF Remaining, RemainingQuantity
<1> QED BY <1>1, AllFit DEF LeftOf, IInv, TypeInv

(* The orders of a level are those of its line, and wait.                  *)
LEMMA LevelOrders ==
  ASSUME IInv, NEW s \in Symbols, NEW d \in Sides, NEW p \in DOMAIN levels[s][d]
  PROVE  /\ p \in Prices /\ levels[s][d][p] \in PriceLevel
         /\ levels[s][d][p].orders = Line(s, d, p)
         /\ ToSet(Line(s, d, p)) \subseteq WaitingOrders
         /\ ToSet(Line(s, d, p)) \subseteq Created
         /\ levels[s][d][p].total_quantity \in Nat
<1>1. TypeOK /\ LinesInv /\ IsLevelMap(levels[s][d])
  BY DEF IInv, TypeInv, TypeOK, LevelsOK
<1>2. p \in Prices /\ levels[s][d][p] \in PriceLevel
  BY <1>1 DEF IsLevelMap
<1>3. levels[s][d][p].orders = Line(s, d, p)
  BY DEF Line, QueueAt, LevelAt
<1>4. levels[s][d][p].total_quantity \in Nat
  BY <1>2, DomainAssumption DEF PriceLevel, DomainAssumption
<1> QED BY <1>1, <1>2, <1>3, <1>4, InLine

(* Orders that a step leaves alone have as much left after it.             *)
LEMMA LeftSame ==
  ASSUME IInv, NEW S \in SUBSET Created,
         \A o \in S : request'[o] = request[o] /\ resting'[o] = resting[o]
  PROVE  SumFunctionOnSet(RemainingOf', S) = LeftOf(S)
<1>1. \A o \in S : RemainingOf[o] \in Nat /\ RemainingOf[o] = RemainingOf'[o]
  <2>1. \A o \in S : o \in Ids /\ Remaining(o)' = Remaining(o)
    BY CreatedType DEF Remaining, IInv, TypeInv
  <2>2. Ids' = Ids
    BY DEF Ids
  <2> QED BY <2>1, <2>2, RemainingType DEF RemainingOf
<1>2. SumFunctionOnSet(RemainingOf, S) = SumFunctionOnSet(RemainingOf', S)
  BY <1>1, LeftType, SumSame
<1> QED BY <1>2 DEF LeftOf

-----------------------------------------------------------------------------
(* The levels that a step leaves alone stay accounted for.                 *)

(* One of them.                                                            *)
LEMMA SameAccount ==
  ASSUME IInv, TotalsInv, NEW s \in Symbols, NEW d \in Sides, NEW p \in DOMAIN levels[s][d],
         NEW level, level = levels[s][d][p],
         \A o \in Created : request'[o] = request[o],
         \A o \in ToSet(Line(s, d, p)) : resting'[o] = resting[o],
         NEW owed, owed = Owed(s, d, p)
  PROVE  Accounted(level, SumFunctionOnSet(RemainingOf', ToSet(level.orders)), owed)
<1> DEFINE S == ToSet(level.orders)
<1>1. S \subseteq Created /\ S = ToSet(Line(s, d, p))
  BY LevelOrders
<1>4. SumFunctionOnSet(RemainingOf', S) = LeftOf(S)
  <2>1. \A o \in S : request'[o] = request[o] /\ resting'[o] = resting[o]
    BY <1>1
  <2> QED BY <1>1, <2>1, LeftSame
<1>5. Accounted(level, LeftOf(S), owed)
  BY DEF TotalsInv
<1> QED BY <1>4, <1>5

(* All of them.                                                            *)
LEMMA QuietTotals ==
  ASSUME IInv, TotalsInv, UNCHANGED <<levels, resting, quantity_to_reduce>>,
         \A o \in Created : request'[o] = request[o],
         quantity_to_reduce > 0 =>
           prices' = prices /\ writer' = writer /\ Own(writer)' = Own(writer)
  PROVE  TotalsInv'
<1>1. \A s, d, p : Owed(s, d, p)' = Owed(s, d, p)
  <2>1. quantity_to_reduce > 0 => SweptLevel' = SweptLevel
    BY DEF SweptLevel, BestPrice
  <2> QED BY <2>1 DEF Owed
<1>2. ASSUME NEW s \in Symbols, NEW d \in Sides, NEW p \in DOMAIN levels[s][d]
      PROVE  Accounted(levels'[s][d][p], LeftOf(ToSet(levels[s][d][p].orders))', Owed(s, d, p)')
  BY <1>1, SameAccount DEF LeftOf
<1> QED BY <1>2 DEF TotalsInv

(* A step that changes one level.                                          *)
LEMMA OneLevel ==
  ASSUME IInv, TotalsInv, request' = request,
         NEW s0 \in Symbols, NEW d0 \in Sides, NEW p0, NEW g,
         \A s \in Symbols, d \in Sides :
           levels'[s][d] = IF s = s0 /\ d = d0 THEN g ELSE levels[s][d],
         \A q : q # p0 => /\ q \in DOMAIN g => q \in DOMAIN levels[s0][d0]
                          /\ q \in DOMAIN g => g[q] = levels[s0][d0][q],
         \A o \in WaitingOrders :
           o \notin ToSet(Line(s0, d0, p0)) => resting'[o] = resting[o],
         \A s, d, p : <<s, d, p>> # <<s0, d0, p0>> => Owed(s, d, p) = 0 /\ Owed(s, d, p)' = 0,
         p0 \in DOMAIN g =>
           Accounted(g[p0], SumFunctionOnSet(RemainingOf', ToSet(g[p0].orders)),
                     Owed(s0, d0, p0)'),
         quantity_to_reduce' > 0 => prices' # {}
  PROVE  TotalsInv'
<1>1. TypeOK /\ LinesInv
  BY DEF IInv, TypeInv
<1>2. /\ levels'[s0][d0] = g
      /\ \A s \in Symbols, d \in Sides : s # s0 \/ d # d0 => levels'[s][d] = levels[s][d]
  OBVIOUS
<1>3. ASSUME NEW s \in Symbols, NEW d \in Sides, NEW p \in DOMAIN levels'[s][d]
      PROVE  Accounted(levels'[s][d][p], LeftOf(ToSet(levels[s][d][p].orders))', Owed(s, d, p)')
  <2>1. CASE s = s0 /\ d = d0 /\ p = p0
    BY <1>2, <2>1 DEF LeftOf
  <2>2. CASE ~ (s = s0 /\ d = d0 /\ p = p0)
    <3>1. p \in DOMAIN levels[s][d] /\ levels'[s][d][p] = levels[s][d][p]
      BY <1>2, <1>3, <2>2
    <3>2. Owed(s, d, p) = 0 /\ Owed(s, d, p)' = 0
      BY <2>2
    <3>3. \A o \in ToSet(Line(s, d, p)) : resting'[o] = resting[o]
      <4> SUFFICES ASSUME NEW o \in ToSet(Line(s, d, p))
                   PROVE  o \in WaitingOrders /\ o \notin ToSet(Line(s0, d0, p0))
        OBVIOUS
      <4>1. p \in Prices /\ o \in WaitingOrders
        BY <3>1, LevelOrders
      <4>2. request[o].symbol = s /\ request[o].side = d /\ request[o].price = p
        BY <1>1, <4>1 DEF LinesInv
      <4>3. ASSUME o \in ToSet(Line(s0, d0, p0))  PROVE FALSE
        <5>1. Line(s0, d0, p0) # << >>
          BY <4>3, EmptySet
        <5>2. p0 \in Prices
          BY <1>1, <5>1, LevelType DEF Line, TypeOK, LevelsOK
        <5> QED BY <1>1, <2>2, <4>2, <4>3, <5>2 DEF LinesInv
      <4> QED BY <4>1, <4>3
    <3>4. Accounted(levels[s][d][p],
                    SumFunctionOnSet(RemainingOf', ToSet(levels[s][d][p].orders)), 0)
      BY <3>1, <3>2, <3>3, SameAccount
    <3> QED BY <3>1, <3>2, <3>4 DEF LeftOf
  <2> QED BY <2>1, <2>2
<1> QED BY <1>3 DEF TotalsInv

-----------------------------------------------------------------------------
(* The steps that change a level.                                          *)

(* A trade takes what it fills from what is left.                          *)
LEMMA TradeLeft ==
  ASSUME IInv, NEW t \in Tasks, UNCHANGED request,
         NEW s0 \in Symbols, NEW d0 \in Sides, NEW p \in Prices, NEW o \in WaitingOrders,
         NEW n \in Nat, NEW popped \in BOOLEAN, TradeFills(t, s0, d0, p, o, n, popped),
         NEW S \in SUBSET WaitingOrders, o \in S,
         NEW T, T = IF popped THEN S \ {o} ELSE S
  PROVE  /\ SumFunctionOnSet(RemainingOf', T) \in Nat
         /\ LeftOf(S) = SumFunctionOnSet(RemainingOf', T) + n
<1>1. /\ TypeOK /\ o \in Ids /\ request[o] \in Request /\ request[o].quantity \in Nat
      /\ resting[o] \in Copy /\ resting[o].filled \in Nat /\ resting \in [Ids -> Copy]
      /\ RemainingOf[o] = request[o].quantity - resting[o].filled
  BY RemainingType, CreatedType, CopyType DEF IInv, TypeInv, TypeOK
<1>2. /\ n > 0 /\ resting[o].filled + n <= request[o].quantity
      /\ popped <=> resting[o].filled + n = request[o].quantity
      /\ resting' = [resting EXCEPT ![o] = IF popped THEN Absent
                                           ELSE Fill(request[o], resting[o], n)]
  BY DEF TradeFills
<1>3. \A m \in S : m \in Created /\ m \in Ids /\ RemainingOf[m] \in Nat
  BY RemainingType
<1>4. \A m \in S \ {o} : RemainingOf'[m] = RemainingOf[m]
  BY <1>1, <1>2, <1>3 DEF RemainingOf, Remaining, Ids
<1>5. IsFiniteSet(S) /\ IsFiniteSet(S \ {o})
  BY <1>3, RemainingType, FS_Subset
<1>6. LeftOf(S) = RemainingOf[o] + SumFunctionOnSet(RemainingOf, S \ {o})
  BY <1>3, <1>5, SumSplit DEF LeftOf
<1>7. SumFunctionOnSet(RemainingOf, S \ {o}) = SumFunctionOnSet(RemainingOf', S \ {o})
  BY <1>3, <1>4, <1>5, SumSame
<1>8. SumFunctionOnSet(RemainingOf, S \ {o}) \in Nat
  BY <1>3, <1>5, SumType
<1>9. CASE popped
  BY <1>1, <1>2, <1>6, <1>7, <1>8, <1>9
<1>10. CASE ~ popped
  <2>1. Fill(request[o], resting[o], n).filled = resting[o].filled + n
    BY <1>1, <1>2, FillEffect
  <2>2. resting'[o].filled = resting[o].filled + n
    BY <1>1, <1>2, <1>10, <2>1
  <2>3. RemainingOf'[o] = Remaining(o)'
    BY <1>1 DEF RemainingOf, Ids
  <2>4. RemainingOf'[o] = RemainingOf[o] - n /\ RemainingOf'[o] \in Nat
    BY <1>1, <1>2, <2>2, <2>3 DEF Remaining, RemainingQuantity, SaturatingSub
  <2>5. \A m \in S : RemainingOf'[m] \in Nat
    BY <1>3, <1>4, <2>4
  <2>6. SumFunctionOnSet(RemainingOf', S)
          = RemainingOf'[o] + SumFunctionOnSet(RemainingOf', S \ {o})
    BY <1>5, <2>5, SumSplit
  <2>7. RemainingOf[o] \in Nat /\ T = S
    BY <1>3, <1>10
  <2> QED BY <1>6, <1>7, <1>8, <2>4, <2>6, <2>7
<1> QED BY <1>9, <1>10

(* What is owed to the level that is swept.                                *)
LEMMA OwedWhere ==
  ASSUME NEW t, writer = t, NEW s0, NEW d0, NEW p0,
         s0 = Own(t).symbol, d0 = Opposite(Own(t).side), p0 = BestPrice(Own(t)),
         quantity_to_reduce \in Nat
  PROVE  /\ Owed(s0, d0, p0) = quantity_to_reduce
         /\ \A s, d, p : <<s, d, p>> # <<s0, d0, p0>> => Owed(s, d, p) = 0
BY DEF Owed, SweptLevel

(* Nothing is owed while nothing is filled.                                *)
LEMMA NothingOwed ==
  ASSUME quantity_to_reduce = 0
  PROVE  \A s, d, p : Owed(s, d, p) = 0
BY DEF Owed

(* A trade: the cached quantity waits for the end of the level.            *)
LEMMA TradeTotals ==
  ASSUME IInv, TotalsInv, NEW t \in Tasks, Trade(t)
  PROVE  TotalsInv'
<1>1. /\ pc[t] = "match" /\ prices # {} /\ UNCHANGED <<request, writer, pc, work, prices>>
  BY DEF Trade
<1>2. PICK s0 \in Symbols, d0 \in Sides, p \in Prices, o \in WaitingOrders, n \in Nat,
           popped \in BOOLEAN : TradeFills(t, s0, d0, p, o, n, popped)
  BY TradeEffect
<1>3. PICK f : f = levels[s0][d0]
  OBVIOUS
<1>4. PICK g : g = IF popped THEN PopFront(f, p) ELSE f
  OBVIOUS
<1>5. /\ TypeOK /\ writer = t /\ quantity_to_reduce \in Nat
      /\ DOMAIN levels = Symbols /\ \A s \in Symbols : DOMAIN levels[s] = Sides
      /\ IsLevelMap(f)
  BY <1>1, <1>3, OneHolder DEF IInv, TypeInv, TypeOK, LevelsOK
<1>6. \A s \in Symbols, d \in Sides :
        levels'[s][d] = IF s = s0 /\ d = d0 THEN g ELSE levels[s][d]
  <2>1. CASE popped
    BY <1>2, <1>3, <1>4, <1>5, <2>1 DEF TradeFills
  <2>2. CASE ~ popped
    BY <1>2, <1>3, <1>4, <2>2 DEF TradeFills
  <2> QED BY <2>1, <2>2
<1>7. /\ p \in DOMAIN f /\ f[p].orders = Line(s0, d0, p) /\ f[p].orders # << >>
      /\ o = Head(f[p].orders) /\ f[p] \in PriceLevel
      /\ f[p].total_quantity \in Nat
      /\ ToSet(f[p].orders) \subseteq WaitingOrders
      /\ f[p].orders \in Seq(Nat) /\ IsInjective(f[p].orders)
  <2>1. Line(s0, d0, p) # << >> /\ o = Head(Line(s0, d0, p))
    BY <1>2 DEF TradeFills
  <2>2. p \in DOMAIN f
    BY <1>3, <1>5, <2>1, LevelType DEF Line
  <2>3. IsInjective(Line(s0, d0, p))
    BY DEF IInv, LinesInv
  <2>4. /\ f[p] \in PriceLevel /\ f[p].orders = Line(s0, d0, p)
        /\ f[p].total_quantity \in Nat /\ ToSet(Line(s0, d0, p)) \subseteq WaitingOrders
    BY <1>3, <2>2, LevelOrders
  <2>5. f[p].orders \in Seq(Nat)
    BY <2>4 DEF PriceLevel
  <2> QED BY <2>1, <2>2, <2>3, <2>4, <2>5
<1>8. o \in ToSet(f[p].orders) /\ ToSet(Tail(f[p].orders)) = ToSet(f[p].orders) \ {o}
  BY <1>7, TailSet
<1>9. /\ DOMAIN g = DOMAIN f /\ \A q \in DOMAIN f : q # p => g[q] = f[q]
      /\ g[p].total_quantity = f[p].total_quantity
      /\ g[p].orders = IF popped THEN Tail(f[p].orders) ELSE f[p].orders
  BY <1>4, <1>7 DEF PopFront, PriceLevel
<1>10. ToSet(g[p].orders) = IF popped THEN ToSet(f[p].orders) \ {o} ELSE ToSet(f[p].orders)
  BY <1>8, <1>9
<1>11. /\ SumFunctionOnSet(RemainingOf', ToSet(g[p].orders)) \in Nat
       /\ LeftOf(ToSet(f[p].orders)) = SumFunctionOnSet(RemainingOf', ToSet(g[p].orders)) + n
  BY <1>1, <1>2, <1>7, <1>8, <1>10, TradeLeft
<1>12. /\ s0 = Own(t).symbol /\ d0 = Opposite(Own(t).side) /\ p = BestPrice(Own(t))
       /\ n > 0 /\ quantity_to_reduce' = quantity_to_reduce + n
       /\ resting' = [resting EXCEPT ![o] = IF popped THEN Absent
                                            ELSE Fill(request[o], resting[o], n)]
  BY <1>2 DEF TradeFills
<1>13. /\ Owed(s0, d0, p) = quantity_to_reduce
       /\ \A s, d, q : <<s, d, q>> # <<s0, d0, p>> => Owed(s, d, q) = 0
  BY <1>5, <1>12, OwedWhere
<1>14. /\ Owed(s0, d0, p)' = quantity_to_reduce + n
       /\ \A s, d, q : <<s, d, q>> # <<s0, d0, p>> => Owed(s, d, q)' = 0
  <2>1. SweptLevel' = <<s0, d0, p>>
    BY <1>1, <1>5, <1>12 DEF SweptLevel, Own, BestPrice
  <2> QED BY <1>5, <1>12, <2>1 DEF Owed
<1>15. Accounted(f[p], LeftOf(ToSet(f[p].orders)), quantity_to_reduce)
  BY <1>3, <1>7, <1>13 DEF TotalsInv
<1>16. Accounted(g[p], SumFunctionOnSet(RemainingOf', ToSet(g[p].orders)), quantity_to_reduce + n)
  <2> DEFINE a == SumFunctionOnSet(RemainingOf', ToSet(g[p].orders))
  <2>1. a \in Nat /\ LeftOf(ToSet(f[p].orders)) = a + n
    BY <1>11
  <2> HIDE DEF a
  <2>2. Accounted(g[p], a, quantity_to_reduce + n)
    BY <1>5, <1>7, <1>9, <1>12, <1>15, <2>1 DEF Accounted
  <2> QED BY <2>2 DEF a
<1>17. \A m \in WaitingOrders : m \notin ToSet(Line(s0, d0, p)) => resting'[m] = resting[m]
  BY <1>7, <1>8, <1>12, RemainingType DEF IInv, TypeInv, TypeOK
<1>18. \A s, d, q : <<s, d, q>> # <<s0, d0, p>> => Owed(s, d, q) = 0 /\ Owed(s, d, q)' = 0
  BY <1>13, <1>14
<1>19. \A q : q # p => /\ q \in DOMAIN g => q \in DOMAIN levels[s0][d0]
                       /\ q \in DOMAIN g => g[q] = levels[s0][d0][q]
  BY <1>3, <1>9
<1>20. Accounted(g[p], SumFunctionOnSet(RemainingOf', ToSet(g[p].orders)), Owed(s0, d0, p)')
  BY <1>14, <1>16
<1>21. request' = request /\ (quantity_to_reduce' > 0 => prices' # {})
  BY <1>1
<1> QED BY <1>6, <1>17, <1>18, <1>19, <1>20, <1>21, OneLevel

(* The end of a level: what it is owed is taken off, or it is gone.        *)
LEMMA FinishTotals ==
  ASSUME IInv, TotalsInv, NEW t \in Tasks, FinishLevel(t)
  PROVE  TotalsInv'
<1>1. /\ pc[t] = "match" /\ prices # {} /\ UNCHANGED <<request, resting, writer, work>>
      /\ quantity_to_reduce' = 0
  BY DEF FinishLevel
<1>2. /\ TypeOK /\ writer = t /\ quantity_to_reduce \in Nat /\ Own(t) \in Request
      /\ DOMAIN levels = Symbols /\ \A s \in Symbols : DOMAIN levels[s] = Sides
  BY <1>1, OneHolder, OwnType DEF IInv, TypeInv, TypeOK, LevelsOK
<1>3. PICK s0 \in Symbols, d0 \in Sides, p \in {BestPrice(Own(t))} :
        s0 = Own(t).symbol /\ d0 = Opposite(Own(t).side) /\ p = BestPrice(Own(t))
  BY <1>2, RequestType
<1>4. PICK f : f = levels[s0][d0] /\ IsLevelMap(f)
  BY <1>2 DEF TypeOK, LevelsOK
<1>5. PICK h : h = ReduceTotalQuantity(f, p, quantity_to_reduce)
  OBVIOUS
<1>6. PICK g : g = DropIfEmpty(h, p)
  OBVIOUS
<1>7. \A s \in Symbols, d \in Sides :
        levels'[s][d] = IF s = s0 /\ d = d0 THEN g ELSE levels[s][d]
  <2>1. levels' = [levels EXCEPT ![s0][d0] = g]
    BY <1>3, <1>4, <1>5, <1>6 DEF FinishLevel
  <2> QED BY <1>2, <2>1
<1>8. /\ Owed(s0, d0, p) = quantity_to_reduce
      /\ \A s, d, q : <<s, d, q>> # <<s0, d0, p>> => Owed(s, d, q) = 0
  BY <1>2, <1>3, OwedWhere
<1>9. \A s, d, q : Owed(s, d, q)' = 0
  BY <1>1 DEF Owed
<1>10. /\ DOMAIN h = DOMAIN f /\ \A q \in DOMAIN f : q # p => h[q] = f[q]
       /\ p \in DOMAIN f =>
            /\ h[p].orders = f[p].orders
            /\ h[p].total_quantity = SaturatingSub(f[p].total_quantity, quantity_to_reduce)
  BY <1>4, <1>5 DEF ReduceTotalQuantity, IsLevelMap, PriceLevel
<1>11. /\ DOMAIN g \subseteq DOMAIN f /\ \A q \in DOMAIN g : g[q] = h[q]
       /\ p \in DOMAIN g => g[p].orders # << >>
  BY <1>6, <1>10 DEF DropIfEmpty, Drop
<1>12. ASSUME p \in DOMAIN g
       PROVE  Accounted(g[p], SumFunctionOnSet(RemainingOf', ToSet(g[p].orders)), 0)
  <2>1. /\ p \in DOMAIN f /\ g[p].orders = f[p].orders /\ g[p].orders # << >>
        /\ g[p].total_quantity = SaturatingSub(f[p].total_quantity, quantity_to_reduce)
    BY <1>10, <1>11, <1>12
  <2>2. /\ f[p].total_quantity \in Nat /\ ToSet(f[p].orders) \subseteq Created
    BY <1>4, <2>1, LevelOrders
  <2> DEFINE a == SumFunctionOnSet(RemainingOf', ToSet(f[p].orders))
  <2>3. Accounted(f[p], a, quantity_to_reduce)
    BY <1>1, <1>4, <1>8, <2>1, SameAccount
  <2>4. a \in Nat
    <3>1. RemainingOf' = RemainingOf
      BY <1>1 DEF RemainingOf, Remaining, Ids
    <3> QED BY <2>2, <3>1, LeftType DEF LeftOf
  <2> HIDE DEF a
  <2>5. Accounted(g[p], a, 0)
    BY <1>2, <2>1, <2>2, <2>3, <2>4 DEF Accounted, SaturatingSub
  <2> QED BY <2>1, <2>5 DEF a
<1>13. \A q : q # p => (q \in DOMAIN g => q \in DOMAIN f /\ g[q] = f[q])
  BY <1>10, <1>11
<1>14. \A s, d, q : <<s, d, q>> # <<s0, d0, p>> => Owed(s, d, q) = 0 /\ Owed(s, d, q)' = 0
  BY <1>8, <1>9
<1>15. \A q : q # p => /\ q \in DOMAIN g => q \in DOMAIN levels[s0][d0]
                       /\ q \in DOMAIN g => g[q] = levels[s0][d0][q]
  BY <1>4, <1>13
<1>16. p \in DOMAIN g =>
         Accounted(g[p], SumFunctionOnSet(RemainingOf', ToSet(g[p].orders)), Owed(s0, d0, p)')
  BY <1>9, <1>12
<1>17. request' = request /\ (quantity_to_reduce' > 0 => prices' # {})
  BY <1>1
<1>18. \A o \in WaitingOrders : o \notin ToSet(Line(s0, d0, p)) => resting'[o] = resting[o]
  BY <1>1
<1> QED BY <1>7, <1>14, <1>15, <1>16, <1>17, <1>18, OneLevel

(* A wrapped sum is not above the sum, and is the sum if that fits.        *)
LEMMA WrapSmall ==
  ASSUME NEW n \in Nat
  PROVE  /\ Wrap(n) \in 0 .. U64Max /\ Wrap(n) <= n
         /\ n <= U64Max => Wrap(n) = n
<1>1. U64Max \in Nat /\ Wrap(n) \in 0 .. U64Max
  BY WrapType, DomainAssumption DEF DomainAssumption
<1>2. \A m \in Nat : m > 0 /\ n < m => n % m = n
  OBVIOUS
<1>3. n <= U64Max => Wrap(n) = n
  BY <1>1, <1>2 DEF Wrap
<1> QED BY <1>1, <1>3

(* Where the orders fit, one that comes to rest fits into its level.       *)
LEMMA JoinFits ==
  ASSUME IInv, TotalsInv, Fits, NEW t \in Tasks, pc[t] = "store",
         NEW s \in Symbols, NEW d \in Sides, NEW p
  PROVE  ~ AddOverflows(levels[s][d], p, RemainingQuantity(Own(t), incoming))
<1> DEFINE f == levels[s][d]
           n == RemainingQuantity(Own(t), incoming)
           m == work[t]
           total == LevelAt(f, p).total_quantity
<1>1. /\ TypeOK /\ IsLevelMap(f) /\ U64Max \in Nat
      /\ m \in Created /\ m \notin WaitingOrders /\ quantity_to_reduce = 0
      /\ Own(t) = request[m]
  BY Storing, DomainAssumption DEF IInv, TypeInv, TypeOK, LevelsOK, DomainAssumption, Own
<1>2. n \in Nat /\ n <= request[m].quantity /\ request[m].quantity \in Nat
  <2>1. request[m].quantity \in Nat /\ incoming.filled \in Nat
    BY <1>1, CreatedType, CopyType, RequestType
  <2> QED BY <1>1, <2>1, SaturatingSubType DEF RemainingQuantity
<1>3. total \in Nat
  BY <1>1, LevelType DEF PriceLevel
<1> DEFINE S == IF p \in DOMAIN f THEN ToSet(f[p].orders) ELSE {}
           g == [o \in Ids |-> IF o = m THEN n ELSE RemainingOf[o]]
<1>4. S \subseteq WaitingOrders /\ S \subseteq Created /\ m \notin S
  BY <1>1, LevelOrders
<1>5. total <= LeftOf(S)
  <2>1. CASE p \in DOMAIN f
    <3>1. Accounted(f[p], LeftOf(S), 0)
      BY <1>1, <2>1, NothingOwed DEF TotalsInv
    <3>2. total = f[p].total_quantity /\ LeftOf(S) \in Nat
      BY <1>4, <2>1, LeftType DEF LevelAt
    <3> HIDE DEF total, S, f
    <3> QED BY <3>1, <3>2 DEF Accounted
  <2>2. CASE p \notin DOMAIN f
    <3>1. S = {} /\ total = 0
      BY <2>2 DEF LevelAt, EmptyLevel
    <3> QED BY <3>1, SumEmpty DEF LeftOf
  <2> QED BY <2>1, <2>2
<1>6. \A o \in S \cup {m} : g[o] \in Nat /\ g[o] <= request[o].quantity
  <2>1. g[m] = n
    BY <1>1, CreatedType
  <2>2. ASSUME NEW o \in S  PROVE g[o] \in Nat /\ g[o] <= request[o].quantity
    <3>1. o \in Ids /\ o # m /\ RemainingOf[o] \in Nat
      BY <1>4, RemainingType
    <3>2. RemainingOf[o] = request[o].quantity - resting[o].filled
          /\ request[o].quantity \in Nat /\ resting[o].filled \in Nat
      BY <1>4, RemainingType
    <3>3. g[o] = RemainingOf[o]
      BY <3>1
    <3> HIDE DEF g
    <3> QED BY <3>1, <3>2, <3>3
  <2> HIDE DEF g, n, m
  <2> QED BY <1>2, <2>1, <2>2
<1>7. SumFunctionOnSet(g, S) = LeftOf(S) /\ IsFiniteSet(S) /\ LeftOf(S) \in Nat
  <2>1. \A o \in S : RemainingOf[o] \in Nat /\ RemainingOf[o] = g[o]
    BY <1>4, RemainingType
  <2>2. IsFiniteSet(S) /\ LeftOf(S) \in Nat
    BY <1>4, LeftType
  <2> HIDE DEF g, S
  <2>3. SumFunctionOnSet(RemainingOf, S) = SumFunctionOnSet(g, S)
    BY <2>1, <2>2, SumSame
  <2> QED BY <2>2, <2>3 DEF LeftOf
<1>8. g[m] = n
  BY <1>1, CreatedType
<1>9. S \cup {m} \in SUBSET Created
  BY <1>1, <1>4
<1> HIDE DEF S, g, n, m
<1>10. SumFunctionOnSet(g, S \cup {m}) = n + LeftOf(S)
  BY <1>4, <1>6, <1>7, <1>8, SumAdd
<1>11. SumFunctionOnSet(g, S \cup {m}) <= U64Max
  BY <1>1, <1>6, <1>9, AllFit
<1>12. total + n <= U64Max
  <2> HIDE DEF total
  <2> QED BY <1>1, <1>2, <1>3, <1>5, <1>7, <1>10, <1>11
<1>13. ~ (total + n > U64Max)
  <2> HIDE DEF total
  <2> QED BY <1>1, <1>2, <1>3, <1>12
<1> QED BY <1>13 DEF AddOverflows, n

(* An order joins a level, at its end; the debug build only adds what fits.*)
LEMMA StoreRestingTotals ==
  ASSUME IInv, TotalsInv, NEW t \in Tasks, StoreResting(t)
  PROVE  TotalsInv'
<1>1. /\ pc[t] = "store" /\ ~ IsFilled(Own(t), incoming) /\ ~ AddPanics(Own(t))
      /\ UNCHANGED <<request, quantity_to_reduce>>
  BY DEF StoreResting
<1>2. /\ TypeOK /\ work[t] \in Created /\ work[t] \in Ids /\ work[t] \notin WaitingOrders
      /\ Own(t) \in Request /\ Own(t) = request[work[t]] /\ Own(t).quantity \in Nat
      /\ incoming.filled \in Nat /\ quantity_to_reduce = 0
      /\ DOMAIN levels = Symbols /\ \A s \in Symbols : DOMAIN levels[s] = Sides
  BY <1>1, Storing, CopyType, RequestType DEF IInv, TypeInv, TypeOK, LevelsOK, Own
<1>3. PICK s0 \in Symbols, d0 \in Sides, p0 \in Prices, m \in Ids, n \in Nat :
        OrderRests(t, s0, d0, p0, m, n)
  BY StoreRestingEffect
<1>4. /\ m = work[t] /\ s0 = request[m].symbol /\ d0 = request[m].side /\ p0 = request[m].price
      /\ n = RemainingQuantity(Own(t), incoming)
      /\ levels' = [levels EXCEPT ![s0][d0] = AddOrder(levels[s0][d0], p0, m, n)]
      /\ resting' = [resting EXCEPT ![m] = incoming]
  BY <1>3 DEF OrderRests
<1>5. PICK f : f = levels[s0][d0] /\ IsLevelMap(f)
  BY <1>2 DEF TypeOK, LevelsOK
<1>6. PICK g : g = AddOrder(f, p0, m, n)
  OBVIOUS
<1>7. \A s \in Symbols, d \in Sides :
        levels'[s][d] = IF s = s0 /\ d = d0 THEN g ELSE levels[s][d]
  BY <1>2, <1>4, <1>5, <1>6
<1> DEFINE q == QueueAt(f, p0)
           S == ToSet(q)
           total == LevelAt(f, p0).total_quantity
<1>8. /\ q = Line(s0, d0, p0) /\ q \in Seq(Nat) /\ total \in 0 .. U64Max
      /\ S \subseteq WaitingOrders /\ S \subseteq Created
  <2>1. q = Line(s0, d0, p0)
    BY <1>5 DEF Line
  <2>2. LevelAt(f, p0) \in PriceLevel /\ q \in Seq(Nat)
    BY <1>5, LevelType
  <2>3. S \subseteq WaitingOrders /\ S \subseteq Created
    BY <2>1, InLine DEF IInv, TypeInv
  <2> QED BY <2>1, <2>2, <2>3 DEF PriceLevel
<1>9. /\ ToSet(Append(q, m)) = S \cup {m} /\ m \notin S /\ Append(q, m) # << >>
  <2>1. m \in Nat
    BY <1>2, <1>4, CreatedType
  <2> QED BY <1>2, <1>4, <1>8, <2>1, AppendSet
<1>10. /\ \A o \in Ids : o # m => resting'[o] = resting[o]
       /\ resting'[m] = incoming
  BY <1>4 DEF IInv, TypeInv, TypeOK
<1>11. RemainingOf'[m] = n
  BY <1>1, <1>2, <1>4, <1>10 DEF RemainingOf, Remaining, Ids
<1>12. \A o \in S : /\ RemainingOf'[o] = RemainingOf[o] /\ RemainingOf[o] \in Nat
  <2>1. \A o \in S : o \in Ids /\ o # m /\ RemainingOf[o] \in Nat
    BY <1>8, <1>9, RemainingType
  <2> QED BY <1>1, <1>10, <2>1 DEF RemainingOf, Remaining, Ids
<1>13. IsFiniteSet(S) /\ LeftOf(S) \in Nat
  BY <1>8, LeftType
<1>14. SumFunctionOnSet(RemainingOf', S \cup {m}) = n + SumFunctionOnSet(RemainingOf', S)
  BY <1>9, <1>11, <1>12, <1>13, SumAdd
<1>15. SumFunctionOnSet(RemainingOf', S) = LeftOf(S)
  <2>1. SumFunctionOnSet(RemainingOf, S) = SumFunctionOnSet(RemainingOf', S)
    BY <1>12, <1>13, SumSame
  <2> QED BY <2>1 DEF LeftOf
<1>16. /\ total <= LeftOf(S)
       /\ OverflowChecks \/ Fits => total = LeftOf(S)
  <2>1. CASE p0 \in DOMAIN f
    <3>1. Owed(s0, d0, p0) = 0
      BY <1>2, NothingOwed
    <3>2. Accounted(f[p0], LeftOf(ToSet(f[p0].orders)), Owed(s0, d0, p0))
      BY <1>5, <2>1 DEF TotalsInv
    <3>3. f[p0].orders = q /\ total = f[p0].total_quantity
      BY <2>1 DEF QueueAt, LevelAt
    <3> HIDE DEF q, total
    <3> QED BY <1>8, <1>13, <3>1, <3>2, <3>3 DEF Accounted
  <2>2. CASE p0 \notin DOMAIN f
    <3>1. S = {} /\ total = 0
      BY <2>2, EmptySet DEF QueueAt, LevelAt, EmptyLevel
    <3> QED BY <3>1, SumEmpty DEF LeftOf
  <2> QED BY <2>1, <2>2
<1>17. /\ Wrap(total + n) \in 0 .. U64Max
       /\ Wrap(total + n) <= total + n
       /\ total + n <= U64Max => Wrap(total + n) = total + n
  BY <1>8, WrapSmall
<1>18. OverflowChecks \/ Fits => total + n <= U64Max
  <2> SUFFICES ASSUME OverflowChecks \/ Fits  PROVE total + n <= U64Max
    OBVIOUS
  <2>1. Own(t).symbol = s0 /\ Own(t).side = d0 /\ Own(t).price = p0
    BY <1>2, <1>4
  <2>2. ~ AddOverflows(f, p0, n)
    BY <1>1, <1>4, <1>5, <2>1, JoinFits DEF AddPanics
  <2>3. ~ (total + n > U64Max)
    BY <2>2 DEF AddOverflows
  <2>4. total \in Nat /\ U64Max \in Nat
    BY <1>8, DomainAssumption DEF DomainAssumption
  <2> HIDE DEF q, total
  <2> QED BY <2>3, <2>4
<1>19. /\ g[p0].orders = Append(q, m) /\ g[p0].total_quantity = Wrap(total + n)
       /\ \A r : r # p0 => /\ r \in DOMAIN g => r \in DOMAIN f
                           /\ r \in DOMAIN g => g[r] = f[r]
  BY <1>6 DEF AddOrder, Put
<1>20. Accounted(g[p0], SumFunctionOnSet(RemainingOf', ToSet(g[p0].orders)), Owed(s0, d0, p0)')
  <2>1. SumFunctionOnSet(RemainingOf', ToSet(g[p0].orders)) = n + LeftOf(S)
    BY <1>9, <1>14, <1>15, <1>19
  <2>2. Owed(s0, d0, p0)' = 0
    BY <1>1, <1>2 DEF Owed
  <2> HIDE DEF q, total, S
  <2>3. Accounted(g[p0], n + LeftOf(S), 0)
    BY <1>8, <1>9, <1>13, <1>16, <1>17, <1>18, <1>19 DEF Accounted
  <2> QED BY <2>1, <2>2, <2>3
<1>21. \A s, d, r : <<s, d, r>> # <<s0, d0, p0>> => Owed(s, d, r) = 0 /\ Owed(s, d, r)' = 0
  BY <1>1, <1>2 DEF Owed
<1>22. request' = request /\ (quantity_to_reduce' > 0 => prices' # {})
  BY <1>1, <1>2
<1>23. \A o \in WaitingOrders : o \notin ToSet(Line(s0, d0, p0)) => resting'[o] = resting[o]
  BY <1>2, <1>4, <1>10, RemainingType
<1>24. \A r : r # p0 => /\ r \in DOMAIN g => r \in DOMAIN levels[s0][d0]
                        /\ r \in DOMAIN g => g[r] = levels[s0][d0][r]
  BY <1>5, <1>19
<1> QED BY <1>7, <1>20, <1>21, <1>22, <1>23, <1>24, OneLevel

(* A withdrawal takes the order and what it had left.                      *)
LEMMA RemoveTotals ==
  ASSUME IInv, TotalsInv, NEW t \in Tasks, CancelRemove(t)
  PROVE  TotalsInv'
<1>1. /\ pc[t] = "remove" /\ writer = NoTask
      /\ UNCHANGED <<request, quantity_to_reduce, prices>>
  BY DEF CancelRemove, locals
<1>2. /\ TypeOK /\ quantity_to_reduce = 0 /\ resting \in [Ids -> Copy]
      /\ DOMAIN levels = Symbols /\ \A s \in Symbols : DOMAIN levels[s] = Sides
  BY <1>1, NoHolder DEF IInv, TypeInv, TypeOK, LevelsOK
<1>3. PICK s0 \in Symbols, d0 \in Sides, m \in Ids, n \in Nat :
        OrderLeaves(t, s0, d0, m, n)
  BY RemoveEffect
<1>4. PICK p0 : p0 = request[m].price
  OBVIOUS
<1>5. /\ n = RemainingQuantity(request[m], resting[m])
      /\ levels' = [levels EXCEPT ![s0][d0] = RemoveOrder(levels[s0][d0], p0, m, n)]
      /\ resting' = [resting EXCEPT ![m] = Absent]
      /\ s0 = request[m].symbol /\ d0 = request[m].side
  BY <1>3, <1>4 DEF OrderLeaves
<1>6. PICK f : f = levels[s0][d0] /\ IsLevelMap(f)
  BY <1>2 DEF TypeOK, LevelsOK
<1>7. PICK g : g = RemoveOrder(f, p0, m, n)
  OBVIOUS
<1>8. \A s \in Symbols, d \in Sides :
        levels'[s][d] = IF s = s0 /\ d = d0 THEN g ELSE levels[s][d]
  BY <1>2, <1>5, <1>6, <1>7
<1>9. \A s, d, p : <<s, d, p>> # <<s0, d0, p0>> => Owed(s, d, p) = 0 /\ Owed(s, d, p)' = 0
  BY <1>1, <1>2 DEF Owed
<1>10. /\ \A o \in Ids : o # m => resting'[o] = resting[o]
  BY <1>5 DEF IInv, TypeInv, TypeOK
<1>11. request' = request /\ (quantity_to_reduce' > 0 => prices' # {})
  BY <1>1, <1>2
<1>12. CASE m \notin WaitingOrders
  <2>1. m \notin ToSet(QueueAt(f, p0))
    <3>1. ASSUME m \in ToSet(QueueAt(f, p0))  PROVE FALSE
      <4>1. p0 \in Prices
        BY <1>6, <3>1, LevelType, EmptySet
      <4> QED BY <1>2, <1>6, <1>12, <3>1, <4>1, InLine DEF Line, IInv
    <3> QED BY <3>1
  <2>2. g = f
    BY <1>7, <2>1 DEF RemoveOrder
  <2>3. \A o \in WaitingOrders : resting'[o] = resting[o]
    BY <1>10, <1>12, RemainingType
  <2>4. p0 \in DOMAIN g =>
          Accounted(g[p0], SumFunctionOnSet(RemainingOf', ToSet(g[p0].orders)), Owed(s0, d0, p0)')
    <3> SUFFICES ASSUME p0 \in DOMAIN f
                 PROVE  Accounted(f[p0], SumFunctionOnSet(RemainingOf', ToSet(f[p0].orders)),
                                  Owed(s0, d0, p0)')
      BY <2>2
    <3>1. Owed(s0, d0, p0)' = Owed(s0, d0, p0)
      BY <1>1, <1>2 DEF Owed
    <3>2. \A o \in ToSet(Line(s0, d0, p0)) : resting'[o] = resting[o]
      BY <1>6, <2>3, LevelOrders
    <3>3. \A o \in Created : request'[o] = request[o]
      BY <1>1
    <3> QED BY <1>6, <3>1, <3>2, <3>3, SameAccount
  <2>5. \A q : q # p0 => /\ q \in DOMAIN g => q \in DOMAIN levels[s0][d0]
                         /\ q \in DOMAIN g => g[q] = levels[s0][d0][q]
    BY <1>6, <2>2
  <2>6. \A o \in WaitingOrders : o \notin ToSet(Line(s0, d0, p0)) => resting'[o] = resting[o]
    BY <2>3
  <2> QED BY <1>8, <1>9, <1>11, <2>4, <2>5, <2>6, OneLevel
<1>13. CASE m \in WaitingOrders
  <2>1. m \in ToSet(QueueAt(f, p0)) /\ p0 \in DOMAIN f /\ p0 \in Prices
    <3>1. m \in ToSet(QueueAt(f, p0))
      BY <1>4, <1>5, <1>6, <1>13 DEF WaitingOrders, Waiting, OwnLine, Line
    <3> QED BY <1>6, <3>1, LevelType, EmptySet
  <2> DEFINE h == Put(f, p0, RemoveFromLevel(f[p0], m, n))
             S == ToSet(f[p0].orders)
             T == ToSet(RemoveFirst(f[p0].orders, m))
  <2>2. g = DropIfEmpty(h, p0)
    BY <1>7, <2>1 DEF RemoveOrder
  <2>3. /\ h[p0].orders = RemoveFirst(f[p0].orders, m)
        /\ h[p0].total_quantity = SaturatingSub(f[p0].total_quantity, n)
        /\ DOMAIN h = DOMAIN f /\ \A q \in DOMAIN f : q # p0 => h[q] = f[q]
    BY <2>1 DEF Put, RemoveFromLevel
  <2>4. /\ f[p0].orders = Line(s0, d0, p0) /\ f[p0].orders \in Seq(Nat)
        /\ f[p0].total_quantity \in Nat /\ S \subseteq WaitingOrders /\ S \subseteq Created
        /\ IsInjective(f[p0].orders) /\ m \in S
    <3>1. /\ f[p0].orders = Line(s0, d0, p0) /\ f[p0] \in PriceLevel
          /\ f[p0].total_quantity \in Nat
          /\ ToSet(Line(s0, d0, p0)) \subseteq WaitingOrders
          /\ ToSet(Line(s0, d0, p0)) \subseteq Created
      BY <1>6, <2>1, LevelOrders
    <3>2. f[p0].orders \in Seq(Nat)
      BY <3>1 DEF PriceLevel
    <3>3. m \in S
      BY <2>1 DEF QueueAt, LevelAt
    <3> QED BY <2>1, <3>1, <3>2, <3>3 DEF IInv, LinesInv
  <2>5. T = S \ {m}
    BY <2>4, RemoveSet
  <2>6. \A o \in S \ {m} : RemainingOf'[o] = RemainingOf[o]
    <3>1. \A o \in S : o \in Ids
      BY <2>4, RemainingType
    <3> QED BY <1>1, <1>10, <3>1 DEF RemainingOf, Remaining, Ids
  <2>7. /\ IsFiniteSet(S) /\ IsFiniteSet(T) /\ LeftOf(T) \in Nat
        /\ \A o \in S : RemainingOf[o] \in Nat
        /\ RemainingOf[m] = n
    <3>1. IsFiniteSet(S) /\ IsFiniteSet(T) /\ LeftOf(T) \in Nat
      BY <2>4, <2>5, LeftType
    <3>2. m \in Created
      BY <2>4
    <3> QED BY <1>5, <2>4, <3>1, <3>2, RemainingType DEF Remaining
  <2>8. LeftOf(S) = n + LeftOf(T)
    BY <2>4, <2>5, <2>7, SumSplit DEF LeftOf
  <2>9. SumFunctionOnSet(RemainingOf', T) = LeftOf(T)
    <3>1. \A o \in T : RemainingOf[o] \in Nat /\ RemainingOf[o] = RemainingOf'[o]
      BY <2>5, <2>6, <2>7
    <3>2. SumFunctionOnSet(RemainingOf, T) = SumFunctionOnSet(RemainingOf', T)
      BY <2>7, <3>1, SumSame
    <3> QED BY <3>2 DEF LeftOf
  <2>10. Accounted(f[p0], LeftOf(S), 0)
    <3>1. Owed(s0, d0, p0) = 0
      BY <1>2, NothingOwed
    <3> QED BY <1>6, <2>1, <3>1 DEF TotalsInv
  <2>11. ASSUME p0 \in DOMAIN g
         PROVE  Accounted(g[p0], SumFunctionOnSet(RemainingOf', ToSet(g[p0].orders)),
                          Owed(s0, d0, p0)')
    <3>1. g[p0] = h[p0] /\ h[p0].orders # << >>
      <4> HIDE DEF h
      <4> QED BY <2>2, <2>11 DEF DropIfEmpty, Drop
    <3>2. ToSet(g[p0].orders) = T
      BY <2>3, <3>1
    <3>3. Owed(s0, d0, p0)' = 0
      BY <1>1, <1>2 DEF Owed
    <3>4. n \in Nat
      OBVIOUS
    <3> HIDE DEF h, S, T
    <3>5. Accounted(g[p0], LeftOf(T), 0)
      BY <2>3, <2>4, <2>7, <2>8, <2>10, <3>1, <3>4 DEF Accounted, SaturatingSub
    <3> QED BY <2>9, <3>2, <3>3, <3>5
  <2>12. \A q : q # p0 => /\ q \in DOMAIN g => q \in DOMAIN levels[s0][d0]
                          /\ q \in DOMAIN g => g[q] = levels[s0][d0][q]
    <3> HIDE DEF h
    <3> QED BY <1>6, <2>2, <2>3 DEF DropIfEmpty, Drop
  <2>13. \A o \in WaitingOrders : o \notin ToSet(Line(s0, d0, p0)) => resting'[o] = resting[o]
    BY <1>10, <2>4, RemainingType
  <2> QED BY <1>8, <1>9, <1>11, <2>11, <2>12, <2>13, OneLevel
<1> QED BY <1>12, <1>13

-----------------------------------------------------------------------------
(* The steps that change no level.                                         *)

(* Requests once made stay, and what a thread that is not matching does    *)
(* leaves the sweep of another where it is.                                *)
LEMMA SweepKept ==
  ASSUME IInv, NEW t \in Tasks, pc[t] # "match", UNCHANGED <<prices, writer>>,
         \A o \in Created : request'[o] = request[o],
         \A u \in Tasks \ {t} : work'[u] = work[u],
         quantity_to_reduce > 0
  PROVE  prices' = prices /\ writer' = writer /\ Own(writer)' = Own(writer)
<1>1. PICK u \in Tasks : pc[u] = "match"
  BY DEF IInv, PendingInv
<1>2. writer = u /\ u # t /\ work[u] \in Created
  BY <1>1, OneHolder, OwnType DEF IInv, TypeInv
<1>3. work'[u] = work[u] /\ request'[work[u]] = request[work[u]]
  BY <1>2
<1> QED BY <1>2, <1>3 DEF Own

(* Steps that only append requests or change what a task works for.        *)
LEMMA OtherTotals ==
  ASSUME IInv, TotalsInv, NEW t \in Tasks, pc[t] # "match",
         UNCHANGED <<levels, resting, quantity_to_reduce, prices, writer>>,
         request' = request \/ \E r \in Request : request' = Append(request, r),
         work' = work \/ \E o : work' = [work EXCEPT ![t] = o]
  PROVE  TotalsInv'
<1>1. TypeOK /\ Len(request) \in Nat /\ Created = 1 .. Len(request)
  BY CreatedType DEF IInv, TypeInv, Created
<1>2. ASSUME NEW o \in Created  PROVE request'[o] = request[o]
  <2>1. CASE request' = request
    BY <2>1
  <2>2. CASE \E r \in Request : request' = Append(request, r)
    <3>1. o \in 1 .. Len(request) /\ request \in Seq(Request)
      BY <1>1 DEF TypeOK
    <3> QED BY <2>2, <3>1
  <2> QED BY <2>1, <2>2
<1>3. \A u \in Tasks \ {t} : work'[u] = work[u]
  BY <1>1 DEF TypeOK
<1>4. quantity_to_reduce > 0 =>
        prices' = prices /\ writer' = writer /\ Own(writer)' = Own(writer)
  BY <1>2, <1>3, SweepKept
<1> QED BY <1>2, <1>4, QuietTotals

(* While nothing is filled the locals do not matter.                       *)
LEMMA IdleTotals ==
  ASSUME IInv, TotalsInv, quantity_to_reduce = 0,
         UNCHANGED <<request, levels, resting, quantity_to_reduce>>
  PROVE  TotalsInv'
<1>1. \A o \in Created : request'[o] = request[o]
  OBVIOUS
<1>2. quantity_to_reduce > 0 =>
        prices' = prices /\ writer' = writer /\ Own(writer)' = Own(writer)
  OBVIOUS
<1> QED BY <1>1, <1>2, QuietTotals

LEMMA InitTotals == Init => TotalsInv
<1> SUFFICES ASSUME Init  PROVE TotalsInv
  OBVIOUS
<1>1. quantity_to_reduce = 0
  BY DEF Init
<1>2. \A s \in Symbols, d \in Sides : DOMAIN levels[s][d] = {}
  BY DEF Init, NoLevels
<1> QED BY <1>1, <1>2 DEF TotalsInv

LEMMA NextTotals ==
  ASSUME IInv, TotalsInv, [Next]_vars
  PROVE  TotalsInv'
<1>1. ASSUME UNCHANGED vars  PROVE TotalsInv'
  <2>1. UNCHANGED <<request, levels, resting, quantity_to_reduce, prices, writer, work>>
    BY <1>1 DEF vars, books, locals
  <2>2. \A o \in Created : request'[o] = request[o]
    BY <2>1
  <2>3. quantity_to_reduce > 0 =>
          prices' = prices /\ writer' = writer /\ Own(writer)' = Own(writer)
    BY <2>1 DEF Own
  <2> QED BY <2>1, <2>2, <2>3, QuietTotals
<1>2. ASSUME NEW t \in Tasks,
             Refuse(t) \/ SubmitOrder(t) \/ CancelCheck(t) \/ Acquire(t) \/ Proceed(t)
      PROVE  TotalsInv'
  <2>1. CASE Refuse(t)
    BY <1>1, <2>1 DEF Refuse
  <2>2. CASE SubmitOrder(t) \/ CancelCheck(t) \/ CancelMark(t)
    <3>1. /\ pc[t] # "match"
          /\ UNCHANGED <<levels, resting, quantity_to_reduce, prices, writer>>
          /\ request' = request \/ \E r \in Request : request' = Append(request, r)
          /\ \E o : work' = [work EXCEPT ![t] = o]
      BY <2>2 DEF SubmitOrder, CancelCheck, CancelMark, Return, books, locals
    <3> QED BY <3>1, OtherTotals
  <2>3. CASE RejectMarket(t) \/ PanicInSum(t) \/ CancelMissed(t)
    <3>1. /\ pc[t] # "match"
          /\ UNCHANGED <<levels, resting, quantity_to_reduce, prices, writer, request>>
          /\ work' = work \/ \E o : work' = [work EXCEPT ![t] = o]
      BY <2>3 DEF RejectMarket, PanicInSum, CancelMissed, Return, books, locals
    <3> QED BY <3>1, OtherTotals
  <2>4. CASE StartMatching(t)
    <3>1. writer = NoTask /\ UNCHANGED <<request, levels, resting, quantity_to_reduce>>
      BY <2>4 DEF StartMatching, books
    <3> QED BY <3>1, NoHolder, IdleTotals
  <2>5. CASE CountTrades(t)
    <3>1. quantity_to_reduce = 0 /\ UNCHANGED <<request, levels, resting, quantity_to_reduce>>
      BY <2>5 DEF CountTrades, MatchingDone, books
    <3> QED BY <3>1, IdleTotals
  <2>6. CASE StoreFilled(t) \/ PanicInAdd(t)
    <3>1. pc[t] = "store" /\ UNCHANGED <<request, levels, resting, quantity_to_reduce>>
      BY <2>6 DEF StoreFilled, PanicInAdd, books
    <3>2. quantity_to_reduce = 0
      BY <3>1, Storing
    <3> QED BY <3>1, <3>2, IdleTotals
  <2> QED BY <1>2, <2>1, <2>2, <2>3, <2>4, <2>5, <2>6, TradeTotals, FinishTotals,
    StoreRestingTotals, RemoveTotals DEF Acquire, Proceed
<1> QED BY <1>1, <1>2 DEF Next

(* A level caches what its orders have left, but for what the sweep that   *)
(* is going on has filled of it, for any number of threads, prices and     *)
(* quantities (engine.rs:273-379, price_level.rs:25-60).                   *)
THEOREM Totals == Spec => []TotalsInv
<1>1. Init => TotalsInv
  BY InitTotals
<1>2. IInv /\ TotalsInv /\ [Next]_vars => TotalsInv'
  BY NextTotals
<1> QED BY <1>1, <1>2, Invariance, PTL DEF Spec

-----------------------------------------------------------------------------
(* Panics, and what they do to the locations.                              *)

(* Where the orders fit, an order that comes to rest does not panic.       *)
LEMMA NoPanicInAdd ==
  ASSUME IInv, TotalsInv, NEW t \in Tasks, PanicInAdd(t)
  PROVE  ~ Fits
<1>1. pc[t] = "store" /\ AddPanics(Own(t))
  BY DEF PanicInAdd
<1>2. Own(t).symbol \in Symbols /\ Own(t).side \in Sides
  BY <1>1, Storing, RequestType
<1> QED BY <1>1, <1>2, JoinFits DEF AddPanics

(* What order_locations has is queued, or was lost in a panic, for any     *)
(* number of threads and either build (book.rs:61, 77, 148).               *)
THEOREM Located == Spec => [](SweptInv /\ LocationsInv)
<1>1. Init => SweptInv /\ LocationsInv
  BY InitLocations
<1>2. IInv /\ TotalsInv /\ SweptInv /\ LocationsInv /\ [Next]_vars
        => SweptInv' /\ LocationsInv'
  BY NextSwept, NextLocations, NoPanicInAdd
<1> QED BY <1>1, <1>2, Invariance, Totals, PTL DEF Spec

(* In the release build order_locations is exactly the queued orders       *)
(* whenever a reader can look, and in a debug build as well if nothing can *)
(* overflow; otherwise it may also have those that an overflow dropped,    *)
(* which no query knows (book.rs:61, 77, 148, 182).                        *)
THEOREM LocationsMatch ==
  ASSUME ~ OverflowChecks \/ Fits
  PROVE  Spec => []LocationsMatchQueues
<1>1. ASSUME IInv, LocationsInv  PROVE LocationsMatchQueues
  <2> SUFFICES ASSUME Unlocked, NEW s \in Symbols
               PROVE  order_locations[s] = BookIds(s)
    BY DEF LocationsMatchQueues
  <2>1. orders_to_remove = {}
    BY <1>1, NoHolder DEF Unlocked
  <2>2. order_locations[s] \subseteq {o \in WaitingOrders : request[o].symbol = s}
    BY <1>1, <2>1 DEF LocationsInv, Unwound
  <2>3. {o \in WaitingOrders : request[o].symbol = s} \subseteq order_locations[s]
    BY <1>1 DEF IInv, WaitingInv
  <2> QED BY <1>1, <2>2, <2>3, BookOrders
<1> QED BY <1>1, Invariance, Located, PTL

-----------------------------------------------------------------------------
(* The liquidity of a side.                                                *)

(* The orders queued on a side are those that wait on it.                  *)
WaitingAt(s, d) == {o \in WaitingOrders : request[o].symbol = s /\ request[o].side = d}
QueuedAreWaiting == \A s \in Symbols, d \in Sides : Queued(levels[s][d]) = WaitingAt(s, d)

LEMMA QueuedSide == IInv => QueuedAreWaiting
<1> SUFFICES ASSUME IInv, NEW s \in Symbols, NEW d \in Sides
             PROVE  Queued(levels[s][d]) = WaitingAt(s, d)
  BY DEF QueuedAreWaiting
<1>1. TypeOK /\ LinesInv /\ IsLevelMap(levels[s][d])
  BY DEF IInv, TypeInv, TypeOK, LevelsOK
<1>2. ASSUME NEW o \in Queued(levels[s][d])
      PROVE  o \in WaitingOrders /\ request[o].symbol = s /\ request[o].side = d
  <2>1. PICK p \in DOMAIN levels[s][d] : o \in ToSet(levels[s][d][p].orders)
    BY DEF Queued
  <2>2. p \in Prices /\ o \in ToSet(Line(s, d, p)) /\ o \in WaitingOrders
    BY <2>1, LevelOrders
  <2> QED BY <1>1, <2>2 DEF LinesInv
<1>3. ASSUME NEW o \in WaitingOrders, request[o].symbol = s, request[o].side = d
      PROVE  o \in Queued(levels[s][d])
  <2>1. o \in ToSet(QueueAt(levels[s][d], request[o].price))
    BY <1>3 DEF WaitingOrders, Waiting, OwnLine, Line
  <2>2. request[o].price \in DOMAIN levels[s][d]
    BY <1>1, <2>1, LevelType, EmptySet
  <2> QED BY <2>1, <2>2 DEF Queued, QueueAt, LevelAt
<1> QED BY <1>2, <1>3 DEF WaitingAt

(* The cached quantities of a side, between two submissions: at most what  *)
(* its orders have left, and exactly that where no addition wraps.         *)
LEMMA SideTotal ==
  ASSUME IInv, TotalsInv, Unlocked, NEW s \in Symbols, NEW d \in Sides
  PROVE  /\ SideQuantity(levels[s][d]) \in Nat
         /\ Queued(levels[s][d]) \subseteq Created
         /\ LeftOf(Queued(levels[s][d])) \in Nat
         /\ SideQuantity(levels[s][d]) <= LeftOf(Queued(levels[s][d]))
         /\ OverflowChecks \/ Fits => SideQuantity(levels[s][d]) = LeftOf(Queued(levels[s][d]))
<1> DEFINE f == levels[s][d]
           A == [p \in DOMAIN f |-> ToSet(f[p].orders)]
           left == [p \in DOMAIN f |-> LeftOf(A[p])]
           cached == [p \in DOMAIN f |-> f[p].total_quantity]
<1>1. TypeOK /\ LinesInv /\ quantity_to_reduce = 0 /\ IsLevelMap(f)
  BY NoHolder DEF Unlocked, IInv, TypeInv, TypeOK, LevelsOK
<1>2. IsFiniteSet(DOMAIN f)
  <2>1. DOMAIN f \subseteq 1 .. U64Max
    BY <1>1, DomainAssumption DEF DomainAssumption, IsLevelMap
  <2>2. IsFiniteSet(1 .. U64Max)
    BY DomainAssumption, FS_Interval DEF DomainAssumption
  <2> QED BY <2>1, <2>2, FS_Subset
<1>3. \A p \in DOMAIN f : /\ p \in Prices /\ f[p].orders = Line(s, d, p)
                          /\ A[p] \subseteq Created /\ A[p] = ToSet(Line(s, d, p))
                          /\ cached[p] \in Nat
  BY LevelOrders
<1>4. \A p \in DOMAIN f : IsFiniteSet(A[p]) /\ left[p] \in Nat
  BY <1>3, LeftType
<1>5. \A p, q \in DOMAIN f : p # q => A[p] \cap A[q] = {}
  <2> SUFFICES ASSUME NEW p \in DOMAIN f, NEW q \in DOMAIN f, NEW o,
                      o \in A[p], o \in A[q]
               PROVE  p = q
    OBVIOUS
  <2>1. o \in ToSet(Line(s, d, p)) /\ o \in ToSet(Line(s, d, q)) /\ p \in Prices /\ q \in Prices
    BY <1>3
  <2> QED BY <1>1, <2>1 DEF LinesInv
<1>6. Queued(f) = UNION {A[p] : p \in DOMAIN f} /\ Queued(f) \subseteq Created
  BY <1>3 DEF Queued
<1>7. LeftOf(Queued(f)) \in Nat
  BY <1>6, LeftType
<1>8. \A p \in DOMAIN f : \A o \in A[p] : RemainingOf[o] \in Nat
  BY <1>3, RemainingType
<1>9. \A p \in DOMAIN f : left[p] = SumFunctionOnSet(RemainingOf, A[p])
  BY DEF LeftOf
<1>10. \A p \in DOMAIN f : IsFiniteSet(A[p])
  BY <1>4
<1>11. SumFunctionOnSet(left, DOMAIN f) = LeftOf(Queued(f))
  <2>1. \A o : o \in Queued(f) <=> \E p \in DOMAIN f : o \in A[p]
    BY <1>6
  <2> HIDE DEF A, left, f
  <2> QED BY <1>2, <1>5, <1>8, <1>9, <1>10, <2>1, SumOfSums, Z3 DEF LeftOf
<1>12. \A p \in DOMAIN f : /\ cached[p] <= left[p]
                           /\ OverflowChecks \/ Fits => cached[p] = left[p]
  <2> SUFFICES ASSUME NEW p \in DOMAIN f
               PROVE  /\ cached[p] <= left[p]
                      /\ OverflowChecks \/ Fits => cached[p] = left[p]
    OBVIOUS
  <2>1. Accounted(f[p], LeftOf(A[p]), 0)
    BY <1>1, NothingOwed DEF TotalsInv
  <2>2. LeftOf(A[p]) = left[p] /\ left[p] \in Nat /\ cached[p] = f[p].total_quantity
    BY <1>4
  <2> HIDE DEF A, left, cached
  <2> QED BY <2>1, <2>2 DEF Accounted
<1>13. SideQuantity(f) = SumFunctionOnSet(cached, DOMAIN f)
  BY SideIsSum
<1>14. \A p \in DOMAIN f : cached[p] \in Nat /\ left[p] \in Nat /\ cached[p] <= left[p]
  BY <1>3, <1>4, <1>12
<1>15. \A p \in DOMAIN f : cached[p] \in Nat
  BY <1>14
<1> HIDE DEF left, cached
<1>16. SumFunctionOnSet(cached, DOMAIN f) \in Nat
  BY <1>2, <1>15, SumType
<1>17. SumFunctionOnSet(cached, DOMAIN f) <= SumFunctionOnSet(left, DOMAIN f)
  BY <1>2, <1>14, SumMonotonic
<1>18. ASSUME OverflowChecks \/ Fits
       PROVE  SumFunctionOnSet(cached, DOMAIN f) = SumFunctionOnSet(left, DOMAIN f)
  <2>1. \A p \in DOMAIN f : cached[p] \in Nat /\ cached[p] = left[p]
    BY <1>12, <1>14, <1>18
  <2> QED BY <1>2, <2>1, SumSame
<1> QED BY <1>6, <1>7, <1>11, <1>13, <1>16, <1>17, <1>18

(* The levels cache exactly what their orders have left, and no empty one  *)
(* is kept, where additions are checked or nothing can overflow            *)
(* (price_level.rs:13, 25-60).                                             *)
THEOREM LevelsAddUp ==
  ASSUME OverflowChecks \/ Fits
  PROVE  Spec => []LevelTotals
<1>1. ASSUME IInv, TotalsInv  PROVE LevelTotals
  <2> SUFFICES ASSUME Unlocked, NEW s \in Symbols, NEW d \in Sides, NEW p \in DOMAIN levels[s][d]
               PROVE  /\ levels[s][d][p].orders # << >>
                      /\ levels[s][d][p].total_quantity
                           = MapThenSumSet(Remaining, ToSet(levels[s][d][p].orders))
    BY DEF LevelTotals
  <2> DEFINE S == ToSet(levels[s][d][p].orders)
  <2>1. TypeOK /\ quantity_to_reduce = 0
    BY <1>1, NoHolder DEF Unlocked, IInv, TypeInv
  <2>2. S \subseteq Created
    BY <1>1, LevelOrders
  <2>3. LeftOf(S) \in Nat
    BY <1>1, <2>2, LeftType
  <2>4. Accounted(levels[s][d][p], LeftOf(S), 0)
    BY <1>1, <2>1, NothingOwed DEF TotalsInv
  <2>5. MapThenSumSet(Remaining, S) = LeftOf(S)
    BY <2>1, <2>2, LeftIsSum
  <2> HIDE DEF S
  <2>6. levels[s][d][p].orders # << >> /\ levels[s][d][p].total_quantity = LeftOf(S)
    BY <2>3, <2>4 DEF Accounted
  <2> QED BY <2>5, <2>6 DEF S
<1> QED BY <1>1, Invariance, Totals, PTL

(* In every build the liquidity that a market order is compared with is    *)
(* not more than the orders of the side have left (engine.rs:113-129).     *)
THEOREM LiquiditySafe == Spec => []LiquidityNotOverstated
<1>1. ASSUME IInv, TotalsInv  PROVE LiquidityNotOverstated
  <2> SUFFICES ASSUME Unlocked, NEW s \in Symbols, NEW d \in Sides
               PROVE  Wrap(SideQuantity(levels[s][d]))
                        <= MapThenSumSet(Remaining, Queued(levels[s][d]))
    BY DEF LiquidityNotOverstated
  <2> DEFINE a == SideQuantity(levels[s][d])
             b == LeftOf(Queued(levels[s][d]))
  <2>1. a \in Nat /\ b \in Nat /\ a <= b /\ Queued(levels[s][d]) \subseteq Created
    BY <1>1, SideTotal
  <2>2. MapThenSumSet(Remaining, Queued(levels[s][d])) = b
    BY <1>1, <2>1, LeftIsSum DEF IInv, TypeInv
  <2> HIDE DEF a, b
  <2>3. Wrap(a) \in 0 .. U64Max /\ Wrap(a) <= a
    BY <2>1, WrapSmall
  <2>4. U64Max \in Nat
    BY DomainAssumption DEF DomainAssumption
  <2>5. Wrap(a) <= b
    BY <2>1, <2>3, <2>4
  <2> QED BY <2>2, <2>5 DEF a, b
<1> QED BY <1>1, Invariance, Totals, PTL

(* No submission panics if all orders together fit in a u64                *)
(* (price_level.rs:28, book.rs:167-180, engine.rs:113-118).                *)
THEOREM NoOverflow ==
  ASSUME Fits
  PROVE  Spec => [][\A t \in Tasks : ~ PanicInAdd(t) /\ ~ PanicInSum(t)]_vars
<1>1. ASSUME IInv, TotalsInv, NEW t \in Tasks
      PROVE  ~ PanicInAdd(t) /\ ~ PanicInSum(t)
  <2>1. ~ PanicInAdd(t)
    BY <1>1, NoPanicInAdd
  <2>2. ASSUME PanicInSum(t)  PROVE FALSE
    <3>1. pc[t] = "submit" /\ Unlocked /\ SumPanics(Own(t))
      BY <2>2 DEF PanicInSum, Unlocked
    <3>2. Own(t) \in Request
      BY <1>1, <3>1, OwnType DEF IInv, TypeInv
    <3>3. PICK s \in Symbols, d \in Sides : s = Own(t).symbol /\ d = Opposite(Own(t).side)
      BY <3>2, RequestType
    <3>4. SideQuantity(levels[s][d]) > U64Max
      BY <3>1, <3>3 DEF SumPanics, Against
    <3> DEFINE a == SideQuantity(levels[s][d])
               b == LeftOf(Queued(levels[s][d]))
    <3>5. a \in Nat /\ b \in Nat /\ a <= b /\ b <= U64Max
      BY <1>1, <3>1, SideTotal, LeftFits
    <3>6. U64Max \in Nat
      BY DomainAssumption DEF DomainAssumption
    <3> HIDE DEF a, b
    <3>7. ~ (a > U64Max)
      BY <3>5, <3>6
    <3> QED BY <3>4, <3>7 DEF a
  <2> QED BY <2>1, <2>2
<1>2. IInv /\ TotalsInv /\ [Next]_vars
        => [\A t \in Tasks : ~ PanicInAdd(t) /\ ~ PanicInSum(t)]_vars
  BY <1>1
<1> QED BY <1>2, Invariance, Totals, PTL DEF Spec

(* A market order is only rejected when the other side has less left than  *)
(* it asks for, where additions are checked or nothing can overflow        *)
(* (error.rs:18, engine.rs:118).                                           *)
THEOREM RejectionsJust ==
  ASSUME OverflowChecks \/ Fits
  PROVE  Spec => RejectedOnlyWhenShort
<1>1. ASSUME IInv, TotalsInv, NEW t \in Tasks, RejectMarket(t)
      PROVE  MapThenSumSet(Remaining, Queued(Against(Own(t)))) < Own(t).quantity
  <2>1. /\ pc[t] = "submit" /\ Unlocked
        /\ ~ SumPanics(Own(t)) /\ ~ Enough(Own(t))
    BY <1>1 DEF RejectMarket, Unlocked
  <2>2. TypeOK /\ Own(t) \in Request
    BY <1>1, <2>1, OwnType DEF IInv, TypeInv
  <2>3. PICK s \in Symbols, d \in Sides : s = Own(t).symbol /\ d = Opposite(Own(t).side)
    BY <2>2, RequestType
  <2>4. Against(Own(t)) = levels[s][d]
    BY <2>3 DEF Against
  <2> DEFINE a == SideQuantity(levels[s][d])
             b == LeftOf(Queued(levels[s][d]))
  <2>5. a \in Nat /\ b \in Nat /\ a = b /\ Queued(levels[s][d]) \subseteq Created
    BY <1>1, <2>1, SideTotal
  <2>6. MapThenSumSet(Remaining, Queued(levels[s][d])) = b
    BY <2>2, <2>5, LeftIsSum
  <2>7. ~ (a > U64Max) /\ ~ (Wrap(a) >= Own(t).quantity)
    <3>1. ~ (OverflowChecks /\ a > U64Max)
      BY <2>1, <2>4 DEF SumPanics, Enough
    <3>2. b \in Nat /\ (Fits => b <= U64Max)
      BY <1>1, <2>5, LeftFits
    <3>3. ~ (Wrap(a) >= Own(t).quantity)
      BY <2>1, <2>4 DEF Enough, Available
    <3>4. U64Max \in Nat
      BY DomainAssumption DEF DomainAssumption
    <3> HIDE DEF a, b
    <3> QED BY <2>5, <3>1, <3>2, <3>3, <3>4
  <2>8. U64Max \in Nat /\ Own(t).quantity \in Nat
    BY <2>2, RequestType, DomainAssumption DEF DomainAssumption
  <2> HIDE DEF a, b
  <2>9. Wrap(a) = a
    BY <2>5, <2>7, <2>8, WrapSmall
  <2>10. b < Own(t).quantity
    BY <2>5, <2>7, <2>8, <2>9
  <2> QED BY <2>4, <2>6, <2>10 DEF b
<1>2. IInv /\ TotalsInv /\ [Next]_vars
      => [\A t \in Tasks : RejectMarket(t) =>
            MapThenSumSet(Remaining, Queued(Against(Own(t)))) < Own(t).quantity]_vars
  BY <1>1
<1> QED BY <1>2, Invariance, Totals, PTL DEF Spec, RejectedOnlyWhenShort

-----------------------------------------------------------------------------
(* The supply of a market order.                                           *)

(* A step that leaves alone what the invariant is about.                   *)
LEMMA SameSupply ==
  ASSUME IInv, SupplyInv, UNCHANGED <<levels, resting, incoming>>,
         \A o \in Created : request'[o] = request[o],
         \A u \in Tasks : pc'[u] = "match" => pc[u] = "match" /\ Own(u)' = Own(u)
  PROVE  SupplyInv'
<1> SUFFICES ASSUME NEW u \in Tasks, pc'[u] = "match", Own(u)'.order_type = "Market"
             PROVE  RemainingQuantity(Own(u), incoming)' <= LeftOf(Queued(Against(Own(u))))'
  BY DEF SupplyInv
<1>1. pc[u] = "match" /\ Own(u)' = Own(u)
  OBVIOUS
<1>2. TypeOK /\ Own(u) \in Request
  BY <1>1, OwnType DEF IInv, TypeInv
<1>3. PICK s \in Symbols, d \in Sides : Against(Own(u)) = levels[s][d]
  BY <1>2, RequestType DEF Against
<1>4. Against(Own(u))' = levels[s][d]
  BY <1>1, <1>3 DEF Against
<1>5. LeftOf(Queued(Against(Own(u))))' = SumFunctionOnSet(RemainingOf', Queued(levels[s][d]))
  BY <1>4 DEF Queued, LeftOf
<1>6. Queued(levels[s][d]) \subseteq Created
  BY <1>2, QueuedSide DEF QueuedAreWaiting, WaitingAt, WaitingOrders
<1>7. \A o \in Queued(levels[s][d]) : request'[o] = request[o] /\ resting'[o] = resting[o]
  BY <1>6
<1>8. SumFunctionOnSet(RemainingOf', Queued(levels[s][d])) = LeftOf(Queued(levels[s][d]))
  BY <1>6, <1>7, LeftSame
<1>9. RemainingQuantity(Own(u), incoming)' = RemainingQuantity(Own(u), incoming)
  BY <1>1 DEF RemainingQuantity
<1> QED BY <1>1, <1>3, <1>5, <1>8, <1>9 DEF SupplyInv

(* A market order is only matched when the book has what it asks for.      *)
LEMMA StartSupply ==
  ASSUME IInv, TotalsInv, NEW t \in Tasks, StartMatching(t)
  PROVE  SupplyInv'
<1>1. /\ UNCHANGED <<request, levels, resting, work>>
      /\ pc[t] = "submit" /\ Unlocked /\ pc' = [pc EXCEPT ![t] = "match"]
      /\ Enough(Own(t)) /\ incoming' = NewOrder
  BY DEF StartMatching, Goto, books, Unlocked
<1>2. /\ TypeOK /\ Own(t) \in Request /\ Own(t)' = Own(t)
      /\ \A u \in Tasks \ {t} : pc'[u] # "match"
  BY <1>1, OwnType, NoHolder DEF IInv, TypeInv, TypeOK, Own, Unlocked
<1> SUFFICES ASSUME Own(t).order_type = "Market"
             PROVE  RemainingQuantity(Own(t), incoming') <= LeftOf(Queued(Against(Own(t))))'
  BY <1>2 DEF SupplyInv
<1>3. PICK s \in Symbols, d \in Sides : Against(Own(t)) = levels[s][d]
  BY <1>2, RequestType DEF Against
<1> DEFINE a == SideQuantity(levels[s][d])
           b == LeftOf(Queued(levels[s][d]))
<1>4. a \in Nat /\ b \in Nat /\ a <= b
  BY <1>1, SideTotal
<1>5. Wrap(a) >= Own(t).quantity
  BY <1>1, <1>3 DEF Enough, Available
<1>6. LeftOf(Queued(Against(Own(t))))' = b
  BY <1>1, <1>2, <1>3 DEF LeftOf, RemainingOf, Remaining, Queued, Against, Ids
<1>7. RemainingQuantity(Own(t), incoming') = Own(t).quantity /\ Own(t).quantity \in Nat
  BY <1>1, <1>2, RequestType DEF RemainingQuantity, SaturatingSub, NewOrder
<1> HIDE DEF a, b
<1>8. Wrap(a) \in 0 .. U64Max /\ Wrap(a) <= a /\ U64Max \in Nat
  BY <1>4, WrapSmall, DomainAssumption DEF DomainAssumption
<1> QED BY <1>4, <1>5, <1>6, <1>7, <1>8

(* A trade takes as much of the supply as of the demand.                   *)
LEMMA TradeSupply ==
  ASSUME IInv, IInv', SupplyInv, NEW t \in Tasks, Trade(t)
  PROVE  SupplyInv'
<1>1. /\ pc[t] = "match" /\ UNCHANGED <<request, pc, work>>
  BY DEF Trade
<1>2. PICK s0 \in Symbols, d0 \in Sides, p \in Prices, o \in WaitingOrders, n \in Nat,
           popped \in BOOLEAN : TradeFills(t, s0, d0, p, o, n, popped)
  BY TradeEffect
<1>3. /\ s0 = Own(t).symbol /\ d0 = Opposite(Own(t).side)
      /\ Line(s0, d0, p) # << >> /\ o = Head(Line(s0, d0, p))
      /\ n > 0 /\ incoming.filled + n <= Own(t).quantity
      /\ incoming' = Fill(Own(t), incoming, n)
      /\ WaitingOrders' = IF popped THEN WaitingOrders \ {o} ELSE WaitingOrders
  BY <1>2 DEF TradeFills
<1>4. /\ TypeOK /\ LinesInv /\ Own(t) \in Request /\ Own(t)' = Own(t)
      /\ Own(t).quantity \in Nat /\ incoming \in Copy /\ incoming.filled \in Nat
      /\ \A u \in Tasks \ {t} : pc'[u] # "match"
  BY <1>1, OwnType, RequestType, OneHolder, CopyType DEF IInv, TypeInv, TypeOK, Own
<1> SUFFICES ASSUME Own(t).order_type = "Market"
             PROVE  RemainingQuantity(Own(t), incoming') <= LeftOf(Queued(Against(Own(t))))'
  BY <1>4 DEF SupplyInv
<1> DEFINE S == Queued(levels[s0][d0])
           T == Queued(levels'[s0][d0])
<1>5. S = {q \in WaitingOrders : request[q].symbol = s0 /\ request[q].side = d0}
  BY QueuedSide DEF QueuedAreWaiting, WaitingAt
<1>6. T = {q \in WaitingOrders' : request[q].symbol = s0 /\ request[q].side = d0}
  <2>1. IInv' => QueuedAreWaiting'
    BY QueuedSide, PTL
  <2> QED BY <1>1, <2>1 DEF Queued, QueuedAreWaiting, WaitingAt
<1>7. T = IF popped THEN S \ {o} ELSE S
  BY <1>3, <1>5, <1>6
<1>8. o \in S /\ S \subseteq WaitingOrders
  <2>1. o \in ToSet(Line(s0, d0, p))
    <3>1. Line(s0, d0, p) \in Seq(Nat)
      BY <1>4, LevelType DEF Line, TypeOK, LevelsOK
    <3>2. IsInjective(Line(s0, d0, p))
      BY <1>4 DEF LinesInv
    <3> QED BY <1>3, <3>1, <3>2, TailSet
  <2> QED BY <1>4, <1>5, <2>1 DEF LinesInv
<1>9. /\ SumFunctionOnSet(RemainingOf', T) \in Nat
      /\ LeftOf(S) = SumFunctionOnSet(RemainingOf', T) + n
  <2> HIDE DEF S, T
  <2> QED BY <1>1, <1>2, <1>7, <1>8, TradeLeft
<1>10. RemainingQuantity(Own(t), incoming) <= LeftOf(S)
  BY <1>1, <1>3 DEF SupplyInv, Against
<1>11. LeftOf(Queued(Against(Own(t))))' = SumFunctionOnSet(RemainingOf', T)
  BY <1>3, <1>4 DEF LeftOf, Queued, Against
<1>12. incoming'.filled = incoming.filled + n
  BY <1>3, <1>4, FillEffect
<1> DEFINE left == SumFunctionOnSet(RemainingOf', T)
<1>13. RemainingQuantity(Own(t), incoming') <= left
  <2>1. left \in Nat /\ RemainingQuantity(Own(t), incoming) <= left + n
    BY <1>9, <1>10
  <2> HIDE DEF left
  <2> QED BY <1>3, <1>4, <1>12, <2>1 DEF RemainingQuantity, SaturatingSub
<1> QED BY <1>11, <1>13

(* The end of a level takes no waiting order.                              *)
LEMMA FinishSupply ==
  ASSUME IInv, IInv', SupplyInv, NEW t \in Tasks, FinishLevel(t)
  PROVE  SupplyInv'
<1>1. pc[t] = "match" /\ UNCHANGED <<request, pc, work, resting, incoming>>
  BY DEF FinishLevel
<1>2. WaitingOrders' = WaitingOrders
  BY FinishLines
<1>3. /\ TypeOK /\ Own(t) \in Request /\ Own(t)' = Own(t)
      /\ \A u \in Tasks \ {t} : pc'[u] # "match"
  BY <1>1, OwnType, OneHolder DEF IInv, TypeInv, Own
<1>4. PICK s \in Symbols, d \in Sides : s = Own(t).symbol /\ d = Opposite(Own(t).side)
  BY <1>3, RequestType
<1>5. Queued(levels[s][d])' = Queued(levels[s][d])
  <2>1. IInv' => QueuedAreWaiting'
    BY QueuedSide, PTL
  <2> QED BY <1>1, <1>2, <2>1, QueuedSide DEF Queued, QueuedAreWaiting, WaitingAt
<1>6. Queued(Against(Own(t)))' = Queued(Against(Own(t)))
  BY <1>3, <1>4, <1>5 DEF Against
<1>7. LeftOf(Queued(Against(Own(t))))' = LeftOf(Queued(Against(Own(t))))
  BY <1>1, <1>6 DEF LeftOf, RemainingOf, Remaining, Ids
<1> QED BY <1>1, <1>3, <1>7 DEF SupplyInv

LEMMA NextSupply ==
  ASSUME IInv, IInv', TotalsInv, SupplyInv, [Next]_vars
  PROVE  SupplyInv'
<1>1. ASSUME UNCHANGED vars  PROVE SupplyInv'
  <2>1. UNCHANGED <<request, levels, resting, incoming, pc, work>>
    BY <1>1 DEF vars, books, locals
  <2>2. \A o \in Created : request'[o] = request[o]
    BY <2>1
  <2>3. \A u \in Tasks : pc'[u] = "match" => pc[u] = "match" /\ Own(u)' = Own(u)
    BY <2>1 DEF Own
  <2> QED BY <2>1, <2>2, <2>3, SameSupply
<1>2. ASSUME NEW t \in Tasks,
             Refuse(t) \/ SubmitOrder(t) \/ CancelCheck(t) \/ Acquire(t) \/ Proceed(t)
      PROVE  SupplyInv'
  <2>0. /\ TypeOK /\ Len(request) \in Nat /\ Created = 1 .. Len(request)
        /\ request \in Seq(Request) /\ pc \in [Tasks -> Places]
    BY CreatedType DEF IInv, TypeInv, TypeOK, Created
  <2>1. CASE Refuse(t)
    BY <1>1, <2>1 DEF Refuse
  <2>2. CASE SubmitOrder(t) \/ CancelCheck(t)
    <3>1. /\ pc[t] = "idle" /\ UNCHANGED <<levels, resting, incoming>>
          /\ request' = request \/ \E r \in Request : request' = Append(request, r)
          /\ \E place \in {"submit", "remove"} : pc' = [pc EXCEPT ![t] = place]
          /\ \E o : work' = [work EXCEPT ![t] = o]
      BY <2>2 DEF SubmitOrder, CancelCheck, Goto, books, locals
    <3>2. ASSUME NEW o \in Created  PROVE request'[o] = request[o]
      <4>1. CASE request' = request
        BY <4>1
      <4>2. CASE \E r \in Request : request' = Append(request, r)
        <5>1. o \in 1 .. Len(request) /\ request \in Seq(Request)
          BY <2>0
        <5> QED BY <4>2, <5>1
      <4> QED BY <3>1, <4>1, <4>2
    <3>3. ASSUME NEW u \in Tasks, pc'[u] = "match"
          PROVE  pc[u] = "match" /\ Own(u)' = Own(u)
      <4>1. u # t /\ pc[u] = "match"
        BY <2>0, <3>1, <3>3
      <4>2. work'[u] = work[u] /\ work[u] \in Created
        BY <2>0, <3>1, <4>1, OwnType DEF TypeOK
      <4> QED BY <3>2, <4>1, <4>2 DEF Own
    <3> QED BY <3>1, <3>2, <3>3, SameSupply
  <2>3. CASE RejectMarket(t) \/ PanicInSum(t) \/ CancelMissed(t) \/ CancelMark(t)
             \/ CountTrades(t)
    <3>1. /\ UNCHANGED <<request, levels, resting, incoming>>
          /\ \E place \in {"idle", "mark", "store"} : pc' = [pc EXCEPT ![t] = place]
          /\ work' = work \/ work' = [work EXCEPT ![t] = NoOrder]
      BY <2>3 DEF RejectMarket, PanicInSum, CancelMissed, CancelMark, CountTrades, Return,
        Goto, books, locals
    <3>2. \A u \in Tasks : pc'[u] = "match" => pc[u] = "match" /\ Own(u)' = Own(u)
      BY <2>0, <3>1 DEF TypeOK, Own
    <3>3. \A o \in Created : request'[o] = request[o]
      BY <3>1
    <3> QED BY <3>1, <3>2, <3>3, SameSupply
  <2>4. CASE StoreFilled(t) \/ StoreResting(t) \/ PanicInAdd(t)
    <3>1. pc[t] = "store" /\ Release(t) /\ UNCHANGED request
      BY <2>4 DEF StoreFilled, StoreResting, PanicInAdd
    <3>2. \A u \in Tasks : pc'[u] # "match"
      BY <3>1, Released, OneHolder
    <3> QED BY <3>2 DEF SupplyInv
  <2>5. CASE CancelRemove(t)
    <3>1. writer = NoTask /\ pc' = [pc EXCEPT ![t] = "mark"]
      BY <2>5 DEF CancelRemove, Goto
    <3>2. \A u \in Tasks : pc'[u] # "match"
      BY <2>0, <3>1, NoHolder
    <3> QED BY <3>2 DEF SupplyInv
  <2> QED BY <1>2, <2>1, <2>2, <2>3, <2>4, <2>5, StartSupply, TradeSupply, FinishSupply
    DEF Acquire, Proceed
<1> QED BY <1>1, <1>2 DEF Next

(* A market order that is matched always finds what it still lacks on the  *)
(* other side, although the lock is only checked once (engine.rs:113-129). *)
THEOREM Supply == Spec => []SupplyInv
<1>1. Init => SupplyInv
  BY DEF Init, SupplyInv
<1>2. IInv /\ IInv' /\ TotalsInv /\ SupplyInv /\ [Next]_vars => SupplyInv'
  BY NextSupply
<1> QED BY <1>1, <1>2, Invariance, Totals, PTL DEF Spec

(* The assert of process_market_order never fails, in any build and also   *)
(* where the sum of the liquidity wraps (engine.rs:129).                   *)
THEOREM MarketOrdersAreFilled == Spec => []MarketOrdersFill
<1>1. ASSUME IInv, CrossingInv, SupplyInv  PROVE MarketOrdersFill
  <2> SUFFICES ASSUME NEW t \in Tasks, pc[t] = "match", MatchingDone(Own(t)),
                      Own(t).order_type = "Market", ~ IsFilled(Own(t), incoming)
               PROVE  FALSE
    BY DEF MarketOrdersFill
  <2>1. prices = {} /\ CrossingPrices(Own(t)) = {}
    BY <1>1 DEF MatchingDone, CrossingInv, SweepInv
  <2>2. DOMAIN Against(Own(t)) = {}
    BY <2>1 DEF CrossingPrices, Crosses
  <2>3. Queued(Against(Own(t))) = {}
    BY <2>2 DEF Queued
  <2>4. RemainingQuantity(Own(t), incoming) <= 0
    BY <1>1, <2>3, SumEmpty DEF SupplyInv, LeftOf
  <2>5. Own(t).quantity \in Nat /\ incoming.filled \in Nat
    BY <1>1, OwnType, RequestType, CopyType DEF IInv, TypeInv, TypeOK
  <2> QED BY <2>4, <2>5 DEF RemainingQuantity, SaturatingSub, IsFilled
<1> QED BY <1>1, Invariance, Crossing, Supply, PTL

-----------------------------------------------------------------------------
(* How many trades there are.                                              *)

(* The orders that are done are finitely many.                             *)
LEMMA DoneFinite ==
  ASSUME TypeOK
  PROVE  /\ DoneOrders \subseteq Created /\ IsFiniteSet(DoneOrders)
         /\ Cardinality(DoneOrders) \in Nat
<1>1. IsFiniteSet(Created)
  BY FS_Interval DEF Created, TypeOK
<1>2. \A t \in Tasks : pc[t] \in {"match", "store"} => work[t] \in Created
  BY OwnType
<1>3. FilledOrders \subseteq Created /\ orders_to_remove \subseteq Created
  BY DEF FilledOrders, TypeOK
<1>4. DoneOrders \subseteq Created
  BY <1>2, <1>3 DEF DoneOrders
<1> QED BY <1>1, <1>4, FS_Subset, FS_CardinalityType

(* A stored order that is filled stays so.                                 *)
LEMMA FilledStays ==
  ASSUME IInv, [Next]_vars, NEW o \in FilledOrders
  PROVE  o \in FilledOrders'
<1>1. /\ o \in Created /\ o \in Ids /\ request[o] \in Request /\ orders[o].filled >= request[o].quantity
      /\ orders[o] \in Copy /\ orders[o].filled \in Nat /\ filled_qty[o] \in Nat
      /\ request[o].quantity \in Nat /\ request[o].quantity > 0
  BY CreatedType, CopyType, RequestType, DomainAssumption
  DEF FilledOrders, IsFilled, IInv, TypeInv, DomainAssumption
<1>2. o \in Created' /\ request'[o] = request[o]
  <2>1. request' = request \/ \E r \in Request : request' = Append(request, r)
    BY DEF Next, Refuse, SubmitOrder, CancelCheck, Acquire, StartMatching, RejectMarket,
      PanicInSum, CancelRemove, CancelMissed, Proceed, Trade, FinishLevel, CountTrades,
      StoreFilled, StoreResting, PanicInAdd, CancelMark, vars
  <2>2. request \in Seq(Request) /\ Len(request) \in Nat
    BY DEF IInv, TypeInv, TypeOK
  <2> QED BY <1>1, <2>1, <2>2 DEF Created
<1>3. orders[o] # Absent /\ Cancel(orders[o]).filled = orders[o].filled
  BY <1>1 DEF Absent, Cancel, Copy
<1>4. orders'[o].filled >= request[o].quantity
  BY <1>1, <1>3, OrderSteps
<1> QED BY <1>2, <1>4 DEF FilledOrders, IsFilled

(* An order that was swept out is done, and stays so.                      *)
LEMMA SweptStays ==
  ASSUME IInv, [Next]_vars, NEW o \in orders_to_remove
  PROVE  o \in DoneOrders'
<1>1. /\ o \in Created /\ o \in Ids /\ request[o] \in Request
      /\ orders[o] \in Copy /\ orders[o].filled \in Nat /\ filled_qty[o] \in Nat
  BY CreatedType, CopyType DEF IInv, TypeInv, TypeOK
<1>2. /\ filled_qty[o] > 0 /\ orders[o].status \in Active
      /\ orders[o].filled + filled_qty[o] = request[o].quantity
  BY <1>1 DEF IInv, PendingInv
<1>3. ASSUME NEW t \in Tasks, FinishLevel(t)
      PROVE  o \in FilledOrders'
  <2>1. UNCHANGED request /\ orders' = StoreFills
    BY <1>3 DEF FinishLevel
  <2>2. orders'[o] = Fill(request[o], orders[o], filled_qty[o])
    BY <1>1, <1>2, <2>1 DEF StoreFills, Absent, Active
  <2>3. orders'[o].filled = request[o].quantity
    BY <1>1, <1>2, <2>2, FillEffect
  <2> QED BY <1>1, <2>1, <2>3, RequestType DEF FilledOrders, IsFilled, Created
<1>4. ASSUME NEW t \in Tasks,
             \/ Refuse(t) \/ SubmitOrder(t) \/ CancelCheck(t) \/ Acquire(t) \/ Trade(t)
             \/ CountTrades(t) \/ StoreFilled(t) \/ StoreResting(t) \/ PanicInAdd(t)
             \/ CancelMark(t)
      PROVE  orders_to_remove \subseteq orders_to_remove'
  <2>1. CASE Trade(t)
    BY <2>1, TradeEffect DEF TradeFills
  <2>2. CASE ~ Trade(t)
    BY <1>4, <2>2 DEF Refuse, SubmitOrder, CancelCheck, Acquire, StartMatching, RejectMarket,
      PanicInSum, CancelRemove, CancelMissed, CountTrades, StoreFilled, StoreResting,
      PanicInAdd, CancelMark, vars, locals
  <2> QED BY <2>1, <2>2
<1>5. CASE UNCHANGED vars
  BY <1>5 DEF vars, locals, DoneOrders
<1> QED BY <1>3, <1>4, <1>5 DEF Next, Proceed, DoneOrders

(* So does the incoming order once it is filled: it is stored as filled.   *)
LEMMA IncomingStays ==
  ASSUME IInv, [Next]_vars, NEW u \in Tasks,
         pc[u] \in {"match", "store"}, IsFilled(Own(u), incoming)
  PROVE  work[u] \in DoneOrders'
<1>1. /\ writer = u /\ u # NoTask
      /\ \A t \in Tasks \ {u} : pc[t] \notin {"match", "store"}
  BY OneHolder, EngineAssumption DEF EngineAssumption
<1>2. /\ TypeOK /\ work[u] \in Created /\ work[u] \in Ids /\ Own(u) = request[work[u]]
  BY OwnType DEF IInv, TypeInv, Own
<1>3. ASSUME UNCHANGED incoming, work'[u] = work[u], pc'[u] \in {"match", "store"},
             request'[work[u]] = request[work[u]]
      PROVE  work[u] \in DoneOrders'
  BY <1>2, <1>3 DEF DoneOrders, Own
<1>4. CASE UNCHANGED vars
  BY <1>3, <1>4 DEF vars, locals
<1>5. ASSUME NEW t \in Tasks, SubmitOrder(t) \/ CancelCheck(t)
      PROVE  work[u] \in DoneOrders'
  <2>1. /\ UNCHANGED incoming /\ pc[t] = "idle"
        /\ request' = request \/ \E r \in Request : request' = Append(request, r)
        /\ \E place : pc' = [pc EXCEPT ![t] = place]
        /\ \E m : work' = [work EXCEPT ![t] = m]
    BY <1>5 DEF SubmitOrder, CancelCheck, Goto, locals
  <2>2. t # u /\ work'[u] = work[u] /\ pc'[u] = pc[u]
    BY <1>2, <2>1 DEF TypeOK
  <2>3. request'[work[u]] = request[work[u]]
    BY <1>2, <2>1 DEF TypeOK, Created
  <2> QED BY <1>3, <2>1, <2>2, <2>3
<1>6. ASSUME NEW t \in Tasks, CancelMark(t)
      PROVE  work[u] \in DoneOrders'
  <2>1. /\ UNCHANGED <<request, incoming>> /\ pc[t] = "mark"
        /\ pc' = [pc EXCEPT ![t] = "idle"] /\ work' = [work EXCEPT ![t] = NoOrder]
    BY <1>6 DEF CancelMark, Return, Goto, locals
  <2>2. t # u /\ work'[u] = work[u] /\ pc'[u] = pc[u]
    BY <1>2, <2>1 DEF TypeOK
  <2> QED BY <1>3, <2>1, <2>2
<1>7. ASSUME NEW t \in Tasks, Acquire(t)
      PROVE  FALSE
  BY <1>1, <1>7 DEF Acquire, StartMatching, RejectMarket, PanicInSum, CancelRemove, CancelMissed
<1>8. ASSUME NEW t \in Tasks, Trade(t)
      PROVE  FALSE
  BY <1>1, <1>8 DEF Trade
<1>9. ASSUME NEW t \in Tasks, FinishLevel(t)
      PROVE  work[u] \in DoneOrders'
  BY <1>3, <1>9 DEF FinishLevel
<1>10. ASSUME NEW t \in Tasks, CountTrades(t)
       PROVE  work[u] \in DoneOrders'
  <2>1. t = u /\ UNCHANGED <<request, work, incoming>> /\ pc' = [pc EXCEPT ![t] = "store"]
    BY <1>1, <1>10 DEF CountTrades, Goto
  <2>2. pc'[u] = "store"
    BY <1>2, <2>1 DEF TypeOK
  <2> QED BY <1>3, <2>1, <2>2
<1>11. ASSUME NEW t \in Tasks, StoreFilled(t)
       PROVE  work[u] \in DoneOrders'
  <2>1. t = u /\ UNCHANGED request /\ orders' = [orders EXCEPT ![work[t]] = incoming]
    BY <1>1, <1>11 DEF StoreFilled, StoreOrder
  <2>2. orders'[work[u]] = incoming
    BY <1>2, <2>1 DEF TypeOK
  <2> QED BY <1>2, <2>1, <2>2 DEF DoneOrders, FilledOrders, Created
<1>12. ASSUME NEW t \in Tasks, StoreResting(t) \/ PanicInAdd(t)
       PROVE  FALSE
  BY <1>1, <1>12 DEF StoreResting, PanicInAdd
<1>13. ASSUME NEW t \in Tasks, Refuse(t)
       PROVE  UNCHANGED vars
  BY <1>13 DEF Refuse
<1> QED BY <1>4, <1>5, <1>6, <1>7, <1>8, <1>9, <1>10, <1>11, <1>12, <1>13 DEF Next, Proceed

(* No order that is done is ever undone.                                   *)
LEMMA DoneGrow ==
  ASSUME IInv, [Next]_vars
  PROVE  DoneOrders \subseteq DoneOrders'
<1>1. FilledOrders \subseteq DoneOrders'
  BY FilledStays DEF DoneOrders
<1>2. orders_to_remove \subseteq DoneOrders'
  BY SweptStays
<1> QED BY <1>1, <1>2, IncomingStays DEF DoneOrders

(* A trade finishes one of its two orders.                                 *)
LEMMA TradeFinishes ==
  ASSUME IInv, NEW t \in Tasks, Trade(t)
  PROVE  \E o \in DoneOrders' : o \notin DoneOrders
<1>1. /\ UNCHANGED <<request, orders, trade_count, pc, work>>
      /\ pc[t] = "match" /\ ~ IsFilled(Own(t), incoming)
  BY DEF Trade
<1>2. /\ TypeOK /\ work[t] \in Created /\ work[t] \in Ids
      /\ Own(t) = request[work[t]] /\ Own(t) \in Request
      /\ Own(t).quantity \in Nat /\ Own(t).quantity > 0 /\ incoming.filled \in Nat
      /\ \A u \in Tasks \ {t} : pc[u] \notin {"match", "store"}
      /\ orders[work[t]] = Absent
  <2>1. /\ TypeOK /\ work[t] \in Created /\ work[t] \in Ids
        /\ Own(t) = request[work[t]] /\ Own(t) \in Request
    BY <1>1, OwnType DEF IInv, TypeInv, Own
  <2>2. Own(t).quantity \in Nat /\ Own(t).quantity > 0 /\ incoming.filled \in Nat
    BY <2>1, RequestType, DomainAssumption DEF TypeOK, Copy, DomainAssumption
  <2>3. \A u \in Tasks \ {t} : pc[u] \notin {"match", "store"}
    BY <1>1, OneHolder
  <2>4. orders[work[t]] = Absent
    BY <1>1 DEF IInv, TasksInv, Submitting
  <2> QED BY <2>1, <2>2, <2>3, <2>4
<1>3. PICK s0 \in Symbols, d0 \in Sides, p \in Prices, o \in WaitingOrders, n \in Nat,
           popped \in BOOLEAN : TradeFills(t, s0, d0, p, o, n, popped)
  BY TradeEffect
<1>4. /\ o \in Created /\ o \in Ids /\ request[o] \in Request /\ request[o].quantity \in Nat
      /\ orders[o].filled \in Nat /\ filled_qty[o] \in Nat /\ resting[o].filled \in Nat
  BY <1>2, CreatedType, CopyType, RequestType DEF WaitingOrders
<1>5. DoneOrders = FilledOrders \cup orders_to_remove
  BY <1>1, <1>2 DEF DoneOrders
<1>6. CASE popped
  <2>1. o \in orders_to_remove'
    BY <1>3, <1>6 DEF TradeFills
  <2>2. orders[o].filled < request[o].quantity /\ o \notin orders_to_remove
    BY <1>4 DEF IInv, WaitingInv, PendingInv
  <2>3. o \notin FilledOrders
    BY <1>4, <2>2 DEF FilledOrders, IsFilled
  <2> QED BY <1>5, <2>1, <2>2, <2>3 DEF DoneOrders
<1>7. CASE ~ popped
  <2>1. /\ n = FillQuantity(Own(t), o) /\ incoming' = Fill(Own(t), incoming, n)
        /\ resting[o].filled + n # request[o].quantity
    BY <1>3, <1>7 DEF TradeFills
  <2>2. incoming.filled < Own(t).quantity /\ resting[o].filled < request[o].quantity
    BY <1>1, <1>2 DEF IsFilled, IInv, WaitingInv
  <2>3. incoming.filled + n = Own(t).quantity
    BY <1>2, <1>4, <2>1, <2>2 DEF FillQuantity, Smaller, RemainingQuantity, SaturatingSub
  <2>4. IsFilled(Own(t)', incoming')
    BY <1>1, <1>2, <2>1, <2>3 DEF Fill, IsFilled, Own
  <2>5. work[t] \in DoneOrders'
    BY <1>1, <2>4 DEF DoneOrders
  <2>6. work[t] \notin FilledOrders
    BY <1>2 DEF FilledOrders, IsFilled, Absent
  <2>7. work[t] \notin orders_to_remove
    BY <1>2 DEF IInv, PendingInv, Absent, Active
  <2> QED BY <1>5, <2>5, <2>6, <2>7
<1> QED BY <1>6, <1>7

(* At first there are no trades.                                           *)
LEMMA InitBound ==
  ASSUME Init
  PROVE  BoundInv
<1>1. TypeOK /\ trade_count = 0 /\ trades = 0
  BY InitIInv DEF Init, IInv, TypeInv
<1> QED BY <1>1, DoneFinite DEF BoundInv

(* Every step keeps the bound.                                             *)
LEMMA NextBound ==
  ASSUME IInv, BoundInv, IsFiniteSet(DoneOrders), IsFiniteSet(DoneOrders'), [Next]_vars
  PROVE  BoundInv'
<1>1. /\ trade_count \in Nat /\ trades \in Nat
      /\ Cardinality(DoneOrders) \in Nat /\ Cardinality(DoneOrders)' \in Nat
      /\ IsFiniteSet(DoneOrders) /\ IsFiniteSet(DoneOrders')
  BY FS_CardinalityType DEF IInv, TypeInv, TypeOK
<1>2. Cardinality(DoneOrders) <= Cardinality(DoneOrders)'
  BY <1>1, DoneGrow, FS_Subset
<1>3. ASSUME NEW t \in Tasks, Trade(t)
      PROVE  BoundInv'
  <2>1. PICK o \in DoneOrders' : o \notin DoneOrders
    BY <1>3, TradeFinishes
  <2>2. DoneOrders \cup {o} \subseteq DoneOrders'
    BY <2>1, DoneGrow
  <2>3. Cardinality(DoneOrders) + 1 <= Cardinality(DoneOrders)'
    BY <1>1, <2>1, <2>2, FS_Subset, FS_AddElement
  <2>4. trade_count' = trade_count /\ trades' = trades + 1
    BY <1>3 DEF Trade
  <2> QED BY <1>1, <2>3, <2>4 DEF BoundInv
<1>4. ASSUME ~ \E t \in Tasks : Trade(t)
      PROVE  trade_count' + trades' = trade_count + trades
  <2>1. UNCHANGED <<trade_count, trades>> \/ \E t \in Tasks : CountTrades(t)
    BY <1>4 DEF Next, Refuse, SubmitOrder, CancelCheck, Acquire, StartMatching, RejectMarket,
      PanicInSum, CancelRemove, CancelMissed, Proceed, FinishLevel, StoreFilled,
      StoreResting, PanicInAdd, CancelMark, vars, locals
  <2> QED BY <1>1, <2>1 DEF CountTrades
<1> QED BY <1>1, <1>2, <1>3, <1>4 DEF BoundInv

(* No more trades than orders that are done, at every step (engine.rs:121- *)
(* 123, 327-379).                                                          *)
THEOREM Bounded == Spec => []BoundInv
<1>1. Init => BoundInv
  BY InitBound
<1>2. /\ IInv => IsFiniteSet(DoneOrders)
      /\ IInv /\ BoundInv /\ IsFiniteSet(DoneOrders) /\ IsFiniteSet(DoneOrders)' /\ [Next]_vars
           => BoundInv'
  BY NextBound, DoneFinite DEF IInv, TypeInv
<1> QED BY <1>1, <1>2, Invariance, PTL DEF Spec

(* However many threads there are, there are no more trades than filled    *)
(* orders whenever nobody is matching (engine.rs:121-123, 327-379).        *)
THEOREM FewTrades == Spec => []TradesAreBounded
<1>1. ASSUME IInv, BoundInv  PROVE TradesAreBounded
  <2> SUFFICES ASSUME Unlocked
               PROVE  trade_count <= Cardinality(FilledOrders)
    BY DEF TradesAreBounded
  <2>1. DoneOrders = FilledOrders
    BY <1>1, NoHolder DEF Unlocked, DoneOrders
  <2>2. trade_count \in Nat /\ trades \in Nat /\ Cardinality(DoneOrders) \in Nat
    BY <1>1, DoneFinite DEF IInv, TypeInv, TypeOK
  <2> QED BY <1>1, <2>1, <2>2 DEF BoundInv
<1> QED BY <1>1, Invariance, Bounded, PTL
=============================================================================
