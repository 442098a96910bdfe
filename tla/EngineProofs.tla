---------------------------- MODULE EngineProofs ----------------------------
(***************************************************************************)
(* Proofs about the matching engine, for every value of the constants.     *)
(***************************************************************************)
EXTENDS EngineInvariant, SequenceTheorems, TLAPS

-----------------------------------------------------------------------------
(* Copies of orders.                                                       *)

(* Subtracting on u64 stays in the naturals and never grows.               *)
LEMMA SaturatingSubType ==
  ASSUME NEW a \in Nat, NEW b \in Nat
  PROVE  /\ SaturatingSub(a, b) \in Nat
         /\ SaturatingSub(a, b) <= a
BY DEF SaturatingSub

(* A saturating difference stays in u64.                                   *)
LEMMA SaturatingSubBound ==
  ASSUME NEW a \in 0 .. U64Max, NEW b \in Nat
  PROVE  SaturatingSub(a, b) \in 0 .. U64Max
BY DomainAssumption DEF SaturatingSub, DomainAssumption

(* The fields of a request.                                                *)
LEMMA RequestType ==
  ASSUME NEW r \in Request
  PROVE  /\ r.symbol \in Symbols
         /\ r.side \in Sides
         /\ Opposite(r.side) \in Sides
         /\ r.order_type \in OrderTypes
         /\ r.order_type = "Limit" => r.price \in Prices
         /\ r.order_type = "Market" => r.price = NoPrice
         /\ r.quantity \in 1 .. U64Max
         /\ r.quantity \in Nat
<1>1. r \in CreateOrderRequest /\ Validate(r)
  BY DEF Request
<1>2. /\ r.symbol \in Symbols \cup {NoSymbol} /\ r.side \in Sides /\ r.order_type \in OrderTypes
      /\ r.price \in Prices \cup {NoPrice, 0} /\ r.quantity \in Quantities \cup {0}
  BY <1>1 DEF CreateOrderRequest
<1>3. /\ r.symbol # NoSymbol /\ r.quantity # 0
      /\ r.order_type = "Limit" => r.price \notin {NoPrice, 0}
      /\ r.order_type = "Market" => r.price = NoPrice
  BY <1>1 DEF Validate
<1>4. Opposite(r.side) \in Sides
  BY DEF Opposite, Sides
<1>5. r.quantity \in 1 .. U64Max
  <2>1. r.quantity \in Quantities
    BY <1>2, <1>3
  <2> QED BY <2>1, DomainAssumption DEF DomainAssumption
<1>6. r.quantity \in Nat
  BY <1>5, DomainAssumption DEF DomainAssumption
<1> QED BY <1>2, <1>3, <1>4, <1>5, <1>6

(* A fill keeps a copy a copy.                                             *)
LEMMA FillType ==
  ASSUME NEW r \in Request, NEW c \in Copy, NEW n \in Nat
  PROVE  Fill(r, c, n) \in Copy
BY RequestType DEF Fill, Copy, OrderStatus

-----------------------------------------------------------------------------
(* Queues as sets: which orders wait, and that each waits once.            *)

(* The elements of a sequence.                                             *)
LEMMA ToSetElements ==
  ASSUME NEW S, NEW q \in Seq(S)
  PROVE  /\ ToSet(q) \subseteq S
         /\ DOMAIN q = 1 .. Len(q)
BY DEF ToSet

(* The empty sequence has none.                                            *)
LEMMA EmptySet == ToSet(<< >>) = {}
<1>1. DOMAIN << >> = {}
  OBVIOUS
<1> QED BY <1>1 DEF ToSet

(* Append adds one.                                                        *)
LEMMA AppendSet ==
  ASSUME NEW q \in Seq(Nat), NEW o \in Nat
  PROVE  /\ ToSet(Append(q, o)) = ToSet(q) \cup {o}
         /\ IsInjective(q) /\ o \notin ToSet(q) => IsInjective(Append(q, o))
<1>1. /\ DOMAIN q = 1 .. Len(q) /\ Len(q) \in Nat
      /\ DOMAIN Append(q, o) = 1 .. Len(q) + 1
      /\ \A i \in 1 .. Len(q) : Append(q, o)[i] = q[i]
      /\ Append(q, o)[Len(q) + 1] = o
  OBVIOUS
<1>2. \A i \in 1 .. Len(q) + 1 : i \in 1 .. Len(q) \/ i = Len(q) + 1
  BY <1>1
<1>3. 1 .. Len(q) \subseteq 1 .. Len(q) + 1 /\ Len(q) + 1 \in 1 .. Len(q) + 1
  BY <1>1
<1>4. ToSet(Append(q, o)) = ToSet(q) \cup {o}
  BY <1>1, <1>2, <1>3 DEF ToSet
<1>5. IsInjective(q) /\ o \notin ToSet(q) => IsInjective(Append(q, o))
  BY <1>1, <1>2 DEF ToSet, IsInjective
<1> QED BY <1>4, <1>5

(* Tail of a sequence without repetition takes its head away.              *)
LEMMA TailSet ==
  ASSUME NEW q \in Seq(Nat), q # << >>, IsInjective(q)
  PROVE  /\ Head(q) \in ToSet(q)
         /\ ToSet(Tail(q)) = ToSet(q) \ {Head(q)}
         /\ IsInjective(Tail(q))
<1>1. /\ DOMAIN q = 1 .. Len(q) /\ Len(q) \in Nat /\ Len(q) >= 1
      /\ DOMAIN Tail(q) = 1 .. Len(q) - 1
      /\ \A i \in 1 .. Len(q) - 1 : Tail(q)[i] = q[i + 1]
      /\ Head(q) = q[1]
  BY HeadTailProperties
<1>2. Head(q) \in ToSet(q)
  BY <1>1 DEF ToSet
<1>3. \A i \in 1 .. Len(q) - 1 : i + 1 \in 1 .. Len(q) /\ i + 1 # 1
  BY <1>1
<1>4. \A i \in 1 .. Len(q) : i = 1 \/ (i - 1 \in 1 .. Len(q) - 1 /\ (i - 1) + 1 = i)
  BY <1>1
<1>5. ToSet(Tail(q)) \subseteq ToSet(q) \ {Head(q)}
  BY <1>1, <1>3 DEF ToSet, IsInjective
<1>6. ToSet(q) \ {Head(q)} \subseteq ToSet(Tail(q))
  <2> SUFFICES ASSUME NEW i \in 1 .. Len(q), q[i] # q[1]
               PROVE  q[i] \in ToSet(Tail(q))
    BY <1>1 DEF ToSet
  <2>1. i - 1 \in 1 .. Len(q) - 1 /\ (i - 1) + 1 = i
    BY <1>4
  <2>2. Tail(q)[i - 1] = q[i]
    BY <1>1, <2>1
  <2> QED BY <1>1, <2>1, <2>2 DEF ToSet
<1>7. IsInjective(Tail(q))
  BY <1>1, <1>3 DEF IsInjective
<1> QED BY <1>2, <1>5, <1>6, <1>7

(* Remove takes an element away.                                           *)
LEMMA RemoveSet ==
  ASSUME NEW q \in Seq(Nat), IsInjective(q), NEW o \in ToSet(q)
  PROVE  /\ \E k \in 1 .. Len(q) :
              /\ q[k] = o
              /\ RemoveFirst(q, o) = SubSeq(q, 1, k - 1) \o SubSeq(q, k + 1, Len(q))
         /\ RemoveFirst(q, o) \in Seq(Nat)
         /\ ToSet(RemoveFirst(q, o)) = ToSet(q) \ {o}
         /\ IsInjective(RemoveFirst(q, o))
<1>1. PICK k \in 1 .. Len(q) : q[k] = o
  BY ToSetElements DEF ToSet
<1>2. {i \in 1 .. Len(q) : q[i] = o} = {k}
  BY <1>1, ToSetElements DEF IsInjective
<1>3. SelectInSeq(q, LAMBDA v : v = o) = k
  <2>1. Min({k}) = k
    BY <1>1 DEF Min
  <2> QED BY <1>2, <2>1 DEF SelectInSeq
<1> DEFINE a == SubSeq(q, 1, k - 1)
           b == SubSeq(q, k + 1, Len(q))
           r == a \o b
<1>4. RemoveFirst(q, o) = r
  BY <1>1, <1>3 DEF RemoveFirst, RemoveAt
<1>5. RemoveFirst(q, o) = SubSeq(q, 1, k - 1) \o SubSeq(q, k + 1, Len(q))
  BY <1>4
<1>6. Len(q) \in Nat /\ k \in Nat /\ \A i \in 1 .. Len(q) : q[i] \in Nat
  BY <1>1
<1>7. /\ a \in Seq(Nat) /\ Len(a) = k - 1
      /\ \A i \in 1 .. k - 1 : a[i] = q[i]
  BY <1>1, <1>6
<1>8. /\ b \in Seq(Nat) /\ Len(b) = Len(q) - k
      /\ \A i \in 1 .. Len(q) - k : b[i] = q[k + i]
  <2>1. \A i \in k + 1 .. Len(q) : q[i] \in Nat
    BY <1>6
  <2>2. k + 1 \in Int /\ Len(q) \in Int
    BY <1>6
  <2>3. /\ SubSeq(q, k + 1, Len(q)) \in Seq(Nat)
        /\ Len(SubSeq(q, k + 1, Len(q))) = IF k + 1 <= Len(q) THEN Len(q) - (k + 1) + 1 ELSE 0
        /\ \A i \in 1 .. Len(q) - (k + 1) + 1 : SubSeq(q, k + 1, Len(q))[i] = q[(k + 1) + i - 1]
    BY <2>1, <2>2, SubSeqProperties
  <2> QED BY <1>1, <1>6, <2>3
<1> HIDE DEF a, b
<1>9. /\ r \in Seq(Nat) /\ Len(r) = Len(q) - 1 /\ DOMAIN r = 1 .. Len(q) - 1
      /\ \A i \in 1 .. Len(q) - 1 : r[i] = IF i < k THEN q[i] ELSE q[i + 1]
  <2>1. r \in Seq(Nat) /\ Len(r) = Len(a) + Len(b)
    BY <1>7, <1>8, ConcatProperties
  <2>2. \A i \in 1 .. Len(a) + Len(b) : r[i] = IF i <= Len(a) THEN a[i] ELSE b[i - Len(a)]
    BY <1>7, <1>8, ConcatProperties
  <2>3. ASSUME NEW i \in 1 .. Len(q) - 1
        PROVE  r[i] = IF i < k THEN q[i] ELSE q[i + 1]
    <3>1. CASE i < k
      BY <1>1, <1>6, <1>7, <1>8, <2>2, <3>1
    <3>2. CASE ~ (i < k)
      <4>1. i - (k - 1) \in 1 .. Len(q) - k /\ k + (i - (k - 1)) = i + 1
        BY <1>1, <1>6, <3>2
      <4>2. /\ i \in 1 .. Len(a) + Len(b) /\ ~ (i <= Len(a))
            /\ i - Len(a) = i - (k - 1)
        BY <1>1, <1>6, <1>7, <1>8, <3>2
      <4>3. r[i] = b[i - (k - 1)]
        BY <2>2, <4>2
      <4> QED BY <1>8, <4>1, <4>3, <3>2
    <3> QED BY <3>1, <3>2
  <2> QED BY <1>1, <1>6, <1>7, <1>8, <2>1, <2>3
<1> HIDE DEF r
<1>10. ToSet(r) \subseteq ToSet(q) \ {o}
  <2>1. \A i \in 1 .. Len(q) - 1 : \E j \in 1 .. Len(q) : j # k /\ r[i] = q[j]
    <3> SUFFICES ASSUME NEW i \in 1 .. Len(q) - 1
                 PROVE  \E j \in 1 .. Len(q) : j # k /\ r[i] = q[j]
      OBVIOUS
    <3>1. CASE i < k
      <4>1. i \in 1 .. Len(q) /\ i # k /\ r[i] = q[i]
        BY <1>1, <1>6, <1>9, <3>1
      <4> QED BY <4>1
    <3>2. CASE ~ (i < k)
      <4>1. i + 1 \in 1 .. Len(q) /\ i + 1 # k /\ r[i] = q[i + 1]
        BY <1>1, <1>6, <1>9, <3>2
      <4> QED BY <4>1
    <3> QED BY <3>1, <3>2
  <2>2. ASSUME NEW j \in 1 .. Len(q), j # k  PROVE  q[j] # o
    BY <1>1, <2>2, ToSetElements DEF IsInjective
  <2> SUFFICES ASSUME NEW x \in ToSet(r)  PROVE  x \in ToSet(q) /\ x # o
    OBVIOUS
  <2>3. PICK i \in 1 .. Len(q) - 1 : x = r[i]
    BY <1>9 DEF ToSet
  <2>4. PICK j \in 1 .. Len(q) : j # k /\ r[i] = q[j]
    BY <2>1
  <2> QED BY <2>2, <2>3, <2>4, ToSetElements DEF ToSet
<1>11. ToSet(q) \ {o} \subseteq ToSet(r)
  <2>1. \A j \in 1 .. Len(q) : j # k => \E i \in 1 .. Len(q) - 1 : r[i] = q[j]
    <3> SUFFICES ASSUME NEW j \in 1 .. Len(q), j # k
                 PROVE  \E i \in 1 .. Len(q) - 1 : r[i] = q[j]
      OBVIOUS
    <3>1. CASE j < k
      <4>1. j \in 1 .. Len(q) - 1 /\ r[j] = q[j]
        BY <1>1, <1>6, <1>9, <3>1
      <4> QED BY <4>1
    <3>2. CASE j > k
      <4>1. j - 1 \in 1 .. Len(q) - 1 /\ ~ (j - 1 < k) /\ (j - 1) + 1 = j
        BY <1>1, <1>6, <3>2
      <4>2. r[j - 1] = q[j]
        BY <1>9, <4>1
      <4> QED BY <4>1, <4>2
    <3> QED BY <3>1, <3>2, <1>6
  <2> SUFFICES ASSUME NEW x \in ToSet(q), x # o  PROVE  x \in ToSet(r)
    OBVIOUS
  <2>2. PICK j \in 1 .. Len(q) : x = q[j]
    BY ToSetElements DEF ToSet
  <2>3. j # k
    BY <1>1, <2>2
  <2>4. PICK i \in 1 .. Len(q) - 1 : r[i] = x
    BY <2>1, <2>2, <2>3
  <2> QED BY <1>9, <2>4 DEF ToSet
<1>12. IsInjective(r)
  <2> SUFFICES ASSUME NEW i \in 1 .. Len(q) - 1, NEW j \in 1 .. Len(q) - 1, r[i] = r[j]
               PROVE  i = j
    BY <1>9 DEF IsInjective
  <2> DEFINE At(n) == IF n < k THEN n ELSE n + 1
  <2>1. At(i) \in 1 .. Len(q) /\ At(j) \in 1 .. Len(q)
    BY <1>1, <1>6
  <2>2. q[At(i)] = q[At(j)]
    BY <1>9
  <2>3. At(i) = At(j)
    BY <2>1, <2>2, ToSetElements DEF IsInjective
  <2> QED BY <1>1, <1>6, <2>3
<1> QED BY <1>1, <1>4, <1>5, <1>9, <1>10, <1>11, <1>12

-----------------------------------------------------------------------------
(* Level maps.  What an operation does to the queues is all that matters   *)
(* of it: QueueAt is empty where there is no level.                        *)

(* Wrapped sums stay in u64.                                               *)
LEMMA WrapType ==
  ASSUME NEW n \in Nat
  PROVE  Wrap(n) \in 0 .. U64Max
<1>1. U64Max + 1 \in Nat /\ U64Max + 1 > 0
  BY DomainAssumption DEF DomainAssumption
<1>2. \A m \in Nat : m > 0 => n % m \in 0 .. m - 1
  OBVIOUS
<1>3. n % (U64Max + 1) \in 0 .. (U64Max + 1) - 1
  BY <1>1, <1>2
<1> QED BY <1>3, DomainAssumption DEF Wrap, DomainAssumption

(* The fields of a level.                                                  *)
LEMMA LevelType ==
  ASSUME NEW f, IsLevelMap(f), NEW p
  PROVE  /\ LevelAt(f, p) \in PriceLevel
         /\ QueueAt(f, p) \in Seq(Nat)
         /\ QueueAt(f, p) # << >> => p \in DOMAIN f /\ p \in Prices
<1>1. EmptyLevel \in PriceLevel
  <2>1. << >> \in Seq(Nat)
    OBVIOUS
  <2> QED BY <2>1, DomainAssumption DEF EmptyLevel, PriceLevel, DomainAssumption
<1>2. LevelAt(f, p) \in PriceLevel
  BY <1>1 DEF LevelAt, IsLevelMap
<1>3. QueueAt(f, p) \in Seq(Nat)
  BY <1>2 DEF QueueAt, PriceLevel
<1>4. QueueAt(f, p) # << >> => p \in DOMAIN f /\ p \in Prices
  BY DEF QueueAt, LevelAt, IsLevelMap, EmptyLevel
<1> QED BY <1>2, <1>3, <1>4

(* Put replaces one queue.                                                 *)
LEMMA PutQueues ==
  ASSUME NEW f, IsLevelMap(f), NEW p \in Prices, NEW v \in PriceLevel
  PROVE  /\ IsLevelMap(Put(f, p, v))
         /\ QueueAt(Put(f, p, v), p) = v.orders
         /\ \A q : q # p => QueueAt(Put(f, p, v), q) = QueueAt(f, q)
BY DEF Put, IsLevelMap, QueueAt, LevelAt

(* Drop empties one queue.                                                 *)
LEMMA DropQueues ==
  ASSUME NEW f, IsLevelMap(f), NEW p
  PROVE  /\ IsLevelMap(DropIfEmpty(f, p))
         /\ \A q : QueueAt(DropIfEmpty(f, p), q) = QueueAt(f, q)
BY DEF DropIfEmpty, Drop, IsLevelMap, QueueAt, LevelAt, EmptyLevel

(* ReduceTotalQuantity changes no queue.                                   *)
LEMMA ReduceQueues ==
  ASSUME NEW f, IsLevelMap(f), NEW p, NEW n \in Nat
  PROVE  /\ IsLevelMap(ReduceTotalQuantity(f, p, n))
         /\ \A q : QueueAt(ReduceTotalQuantity(f, p, n), q) = QueueAt(f, q)
<1>1. CASE p \notin DOMAIN f
  BY <1>1 DEF ReduceTotalQuantity
<1>2. CASE p \in DOMAIN f
  <2> DEFINE g == ReduceTotalQuantity(f, p, n)
  <2>1. g = [f EXCEPT ![p].total_quantity = SaturatingSub(f[p].total_quantity, n)]
    BY <1>2 DEF ReduceTotalQuantity
  <2>2. f[p] \in PriceLevel
    BY <1>2 DEF IsLevelMap
  <2>3. SaturatingSub(f[p].total_quantity, n) \in 0 .. U64Max
    <3>1. f[p].total_quantity \in 0 .. U64Max
      BY <2>2 DEF PriceLevel
    <3> QED BY <3>1, SaturatingSubBound
  <2>4. /\ DOMAIN g = DOMAIN f
        /\ g[p] \in PriceLevel /\ g[p].orders = f[p].orders
        /\ \A q \in DOMAIN f : q # p => g[q] = f[q]
    BY <1>2, <2>1, <2>2, <2>3 DEF PriceLevel
  <2> QED BY <1>2, <2>4 DEF IsLevelMap, QueueAt, LevelAt
<1> QED BY <1>1, <1>2

(* AddOrder appends to one queue.                                          *)
LEMMA AddQueues ==
  ASSUME NEW f, IsLevelMap(f), NEW p \in Prices, NEW o \in Nat, NEW n \in Nat,
         IsInjective(QueueAt(f, p)), o \notin ToSet(QueueAt(f, p))
  PROVE  /\ IsLevelMap(AddOrder(f, p, o, n))
         /\ QueueAt(AddOrder(f, p, o, n), p) = Append(QueueAt(f, p), o)
         /\ IsInjective(QueueAt(AddOrder(f, p, o, n), p))
         /\ ToSet(QueueAt(AddOrder(f, p, o, n), p)) = ToSet(QueueAt(f, p)) \cup {o}
         /\ \A q : q # p => QueueAt(AddOrder(f, p, o, n), q) = QueueAt(f, q)
<1> DEFINE v == [orders |-> Append(QueueAt(f, p), o),
                 total_quantity |-> Wrap(LevelAt(f, p).total_quantity + n)]
<1>1. QueueAt(f, p) \in Seq(Nat)
  BY LevelType
<1>2. v \in PriceLevel /\ v.orders = Append(QueueAt(f, p), o)
  <2>1. LevelAt(f, p).total_quantity + n \in Nat
    BY LevelType DEF PriceLevel
  <2>2. Append(QueueAt(f, p), o) \in Seq(Nat)
    BY <1>1
  <2> QED BY <2>1, <2>2, WrapType DEF PriceLevel
<1>3. IsInjective(v.orders) /\ ToSet(v.orders) = ToSet(QueueAt(f, p)) \cup {o}
  BY <1>1, <1>2, AppendSet
<1>4. AddOrder(f, p, o, n) = Put(f, p, v)
  BY DEF AddOrder
<1> HIDE DEF v
<1>5. /\ IsLevelMap(Put(f, p, v))
      /\ QueueAt(Put(f, p, v), p) = v.orders
      /\ \A q : q # p => QueueAt(Put(f, p, v), q) = QueueAt(f, q)
  BY <1>2, PutQueues
<1> QED BY <1>2, <1>3, <1>4, <1>5

(* PopFront takes the head of one queue.                                   *)
LEMMA PopQueues ==
  ASSUME NEW f, IsLevelMap(f), NEW p, QueueAt(f, p) # << >>
  PROVE  /\ IsLevelMap(PopFront(f, p))
         /\ QueueAt(PopFront(f, p), p) = Tail(QueueAt(f, p))
         /\ \A q : q # p => QueueAt(PopFront(f, p), q) = QueueAt(f, q)
<1>1. p \in DOMAIN f /\ QueueAt(f, p) = f[p].orders /\ f[p].orders \in Seq(Nat)
  BY LevelType DEF QueueAt, LevelAt
<1>2. Tail(f[p].orders) \in Seq(Nat)
  BY <1>1
<1> QED BY <1>1, <1>2 DEF PopFront, IsLevelMap, QueueAt, LevelAt, PriceLevel

(* RemoveOrder takes an order from one queue.                              *)
LEMMA RemoveQueues ==
  ASSUME NEW f, IsLevelMap(f), NEW p \in Prices, NEW o \in Nat, NEW n \in Nat,
         IsInjective(QueueAt(f, p))
  PROVE  /\ IsLevelMap(RemoveOrder(f, p, o, n))
         /\ o \in ToSet(QueueAt(f, p)) =>
              \E k \in 1 .. Len(QueueAt(f, p)) :
                /\ QueueAt(f, p)[k] = o
                /\ QueueAt(RemoveOrder(f, p, o, n), p) = Market!Without(QueueAt(f, p), k)
         /\ IsInjective(QueueAt(RemoveOrder(f, p, o, n), p))
         /\ ToSet(QueueAt(RemoveOrder(f, p, o, n), p)) = ToSet(QueueAt(f, p)) \ {o}
         /\ \A q : q # p => QueueAt(RemoveOrder(f, p, o, n), q) = QueueAt(f, q)
<1>1. CASE o \notin ToSet(QueueAt(f, p))
  BY <1>1 DEF RemoveOrder
<1>2. CASE o \in ToSet(QueueAt(f, p))
  <2> DEFINE v == RemoveFromLevel(f[p], o, n)
             g == Put(f, p, v)
  <2>1. p \in DOMAIN f /\ QueueAt(f, p) = f[p].orders /\ f[p] \in PriceLevel
    <3>1. QueueAt(f, p) # << >>
      BY <1>2, EmptySet
    <3> QED BY <3>1, LevelType DEF QueueAt, LevelAt, IsLevelMap
  <2>2. /\ v.orders \in Seq(Nat)
        /\ \E k \in 1 .. Len(QueueAt(f, p)) :
             /\ QueueAt(f, p)[k] = o
             /\ v.orders = Market!Without(QueueAt(f, p), k)
        /\ IsInjective(v.orders)
        /\ ToSet(v.orders) = ToSet(QueueAt(f, p)) \ {o}
    <3> DEFINE l == f[p].orders
    <3>1. l \in Seq(Nat) /\ IsInjective(l) /\ o \in ToSet(l)
      BY <1>2, <2>1 DEF PriceLevel
    <3>2. v.orders = RemoveFirst(l, o)
      BY DEF RemoveFromLevel
    <3> HIDE DEF l, v
    <3>3. /\ \E k \in 1 .. Len(l) :
               /\ l[k] = o
               /\ RemoveFirst(l, o) = SubSeq(l, 1, k - 1) \o SubSeq(l, k + 1, Len(l))
          /\ RemoveFirst(l, o) \in Seq(Nat)
          /\ ToSet(RemoveFirst(l, o)) = ToSet(l) \ {o}
          /\ IsInjective(RemoveFirst(l, o))
      BY <3>1, RemoveSet
    <3>5. PICK k \in 1 .. Len(l) :
            l[k] = o /\ v.orders = SubSeq(l, 1, k - 1) \o SubSeq(l, k + 1, Len(l))
      BY <3>2, <3>3
    <3>6. v.orders = Market!Without(l, k)
      BY <3>5 DEF Market!Without
    <3>4. QueueAt(f, p) = l
      BY <2>1 DEF l
    <3> QED BY <3>2, <3>3, <3>4, <3>5, <3>6
  <2>3. SaturatingSub(f[p].total_quantity, n) \in 0 .. U64Max
    <3>1. f[p].total_quantity \in 0 .. U64Max
      BY <2>1 DEF PriceLevel
    <3> QED BY <3>1, SaturatingSubBound
  <2>4. v \in PriceLevel
    BY <2>2, <2>3 DEF PriceLevel, RemoveFromLevel
  <2>5. /\ IsLevelMap(g)
        /\ QueueAt(g, p) = v.orders
        /\ \A q : q # p => QueueAt(g, q) = QueueAt(f, q)
    BY <2>4, PutQueues
  <2>6. RemoveOrder(f, p, o, n) = DropIfEmpty(g, p)
    BY <1>2 DEF RemoveOrder
  <2> HIDE DEF v, g
  <2> QED BY <2>2, <2>5, <2>6, DropQueues
<1> QED BY <1>1, <1>2

-----------------------------------------------------------------------------
(* Types of what an action looks up.                                       *)

(* A created order has a request.                                          *)
LEMMA CreatedType ==
  ASSUME TypeOK
  PROVE  /\ Created \subseteq Ids /\ Ids \subseteq Nat
         /\ Len(request) \in Nat
         /\ \A o \in Created : request[o] \in Request
BY EngineAssumption DEF TypeOK, Created, Ids, EngineAssumption

(* The copy of a submission.                                               *)
LEMMA OwnType ==
  ASSUME TypeOK, NEW t \in Tasks, pc[t] # "idle"
  PROVE  work[t] \in Created /\ work[t] \in Ids /\ work[t] \in Nat /\ Own(t) \in Request
<1>1. work[t] \in Created
  BY DEF TypeOK
<1> QED BY <1>1, CreatedType DEF Own

(* The stored copy.                                                        *)
LEMMA CopyType ==
  ASSUME TypeOK, NEW o \in Ids
  PROVE  /\ orders[o] \in Copy /\ orders[o].filled \in Nat
         /\ resting[o] \in Copy /\ resting[o].filled \in Nat
         /\ filled_qty[o] \in Nat
         /\ incoming.filled \in Nat
BY DEF TypeOK, Copy

-----------------------------------------------------------------------------
(* What a step does to the lines.                                          *)

(* A step that leaves requests and levels alone leaves the lines alone.    *)
LEMMA SameLines ==
  ASSUME request' = request, levels' = levels
  PROVE  /\ Created' = Created /\ Lines' = Lines
         /\ WaitingOrders' = WaitingOrders
         /\ LevelsOK => LevelsOK'
         /\ LinesInv => LinesInv'
BY DEF Created, WaitingOrders, Waiting, OwnLine, Line, Lines, LevelsOK, LinesInv

(* A step that changes a side of a book, but none of its queues.           *)
LEMMA SameQueues ==
  ASSUME TypeOK, LinesInv, request' = request,
         NEW s0 \in Symbols, NEW d0 \in Sides, NEW g,
         levels' = [levels EXCEPT ![s0][d0] = g],
         IsLevelMap(g),
         \A q : QueueAt(g, q) = QueueAt(levels[s0][d0], q)
  PROVE  /\ LevelsOK' /\ LinesInv' /\ Lines' = Lines
         /\ WaitingOrders' = WaitingOrders
<1>1. /\ DOMAIN levels = Symbols /\ \A s \in Symbols : DOMAIN levels[s] = Sides
      /\ \A s \in Symbols, d \in Sides : IsLevelMap(levels[s][d])
  BY DEF TypeOK, LevelsOK
<1>2. /\ DOMAIN levels' = Symbols /\ \A s \in Symbols : DOMAIN levels'[s] = Sides
      /\ levels'[s0][d0] = g
      /\ \A s \in Symbols, d \in Sides : s # s0 \/ d # d0 => levels'[s][d] = levels[s][d]
  BY <1>1
<1>3. /\ \A s \in Symbols, d \in Sides : IsLevelMap(levels'[s][d])
      /\ \A s \in Symbols, d \in Sides : \A q : Line(s, d, q)' = Line(s, d, q)
  BY <1>1, <1>2 DEF Line
<1>4. Created' = Created
  BY DEF Created
<1>5. \A o \in Created : request[o].symbol \in Symbols /\ request[o].side \in Sides
  BY CreatedType, RequestType
<1>6. WaitingOrders' = WaitingOrders
  BY <1>3, <1>4, <1>5 DEF WaitingOrders, Waiting, OwnLine
<1>7. LevelsOK' /\ LinesInv'
  BY <1>2, <1>3, <1>4 DEF LevelsOK, LinesInv, TypeOK
<1>8. Lines' = Lines
  BY <1>3 DEF Lines
<1> QED BY <1>6, <1>7, <1>8

(* A step that changes one queue: the orders that waited in it no longer   *)
(* do, those of its new value do.                                          *)
LEMMA ChangedLine ==
  ASSUME TypeOK, LinesInv, request' = request,
         NEW s0 \in Symbols, NEW d0 \in Sides, NEW p0 \in Prices, NEW g,
         levels' = [levels EXCEPT ![s0][d0] = g],
         IsLevelMap(g),
         \A q : q # p0 => QueueAt(g, q) = QueueAt(levels[s0][d0], q),
         IsInjective(QueueAt(g, p0)),
         ToSet(QueueAt(g, p0)) \subseteq Created,
         \A o \in ToSet(QueueAt(g, p0)) :
           request[o].symbol = s0 /\ request[o].side = d0 /\ request[o].price = p0
  PROVE  /\ LevelsOK' /\ LinesInv'
         /\ Lines' = [Lines EXCEPT ![s0][d0][p0] = QueueAt(g, p0)]
         /\ WaitingOrders' = (WaitingOrders \ ToSet(Line(s0, d0, p0))) \cup ToSet(QueueAt(g, p0))
<1>1. DOMAIN levels = Symbols /\ \A s \in Symbols : DOMAIN levels[s] = Sides
  BY DEF TypeOK, LevelsOK
<1>2. /\ DOMAIN levels' = Symbols /\ \A s \in Symbols : DOMAIN levels'[s] = Sides
      /\ levels'[s0][d0] = g
      /\ \A s \in Symbols, d \in Sides : s # s0 \/ d # d0 => levels'[s][d] = levels[s][d]
  BY <1>1
<1>3. /\ Line(s0, d0, p0)' = QueueAt(g, p0)
      /\ \A q : q # p0 => Line(s0, d0, q)' = Line(s0, d0, q)
      /\ \A s \in Symbols, d \in Sides : \A q :
           s # s0 \/ d # d0 => Line(s, d, q)' = Line(s, d, q)
  BY <1>2 DEF Line
<1>4. Created' = Created
  BY DEF Created
<1>5. LevelsOK'
  <2>1. \A s \in Symbols, d \in Sides : IsLevelMap(levels'[s][d])
    BY <1>2 DEF TypeOK, LevelsOK
  <2>2. \A s \in Symbols, d \in Sides, p \in Prices : ToSet(Line(s, d, p)') \subseteq Created
    BY <1>3 DEF TypeOK, LevelsOK
  <2> QED BY <1>2, <1>4, <2>1, <2>2 DEF LevelsOK
<1>6. LinesInv'
  <2> SUFFICES ASSUME NEW s \in Symbols, NEW d \in Sides, NEW p \in Prices
               PROVE  /\ IsInjective(Line(s, d, p)')
                      /\ \A o \in ToSet(Line(s, d, p)') :
                           request[o].symbol = s /\ request[o].side = d /\ request[o].price = p
    BY DEF LinesInv
  <2>1. CASE s = s0 /\ d = d0 /\ p = p0
    BY <1>3, <2>1
  <2>2. CASE ~ (s = s0 /\ d = d0 /\ p = p0)
    BY <1>3, <2>2 DEF LinesInv
  <2> QED BY <2>1, <2>2
<1>7. ASSUME NEW o \in Created
      PROVE  o \in WaitingOrders' <=>
               o \in (WaitingOrders \ ToSet(Line(s0, d0, p0))) \cup ToSet(QueueAt(g, p0))
  <2>1. request[o].symbol \in Symbols /\ request[o].side \in Sides
    BY CreatedType, RequestType
  <2>2. o \in WaitingOrders <=> o \in ToSet(OwnLine(o))
    BY DEF WaitingOrders, Waiting
  <2>3. o \in WaitingOrders' <=> o \in ToSet(OwnLine(o)')
    BY <1>4 DEF WaitingOrders, Waiting
  <2>4. CASE request[o].symbol = s0 /\ request[o].side = d0 /\ request[o].price = p0
    BY <1>3, <2>2, <2>3, <2>4 DEF OwnLine
  <2>5. CASE ~ (request[o].symbol = s0 /\ request[o].side = d0 /\ request[o].price = p0)
    <3>1. o \notin ToSet(Line(s0, d0, p0)) /\ o \notin ToSet(QueueAt(g, p0))
      BY <2>5 DEF LinesInv
    <3>2. OwnLine(o)' = OwnLine(o)
      BY <1>3, <2>1, <2>5 DEF OwnLine
    <3> QED BY <2>2, <2>3, <3>1, <3>2
  <2> QED BY <2>4, <2>5
<1>8. WaitingOrders' \subseteq Created /\ WaitingOrders \subseteq Created
  BY <1>4 DEF WaitingOrders
<1>9. Lines' = [Lines EXCEPT ![s0][d0][p0] = QueueAt(g, p0)]
  <2>1. /\ Lines[s0][d0] = [p \in Prices |-> Line(s0, d0, p)]
        /\ Lines[s0] = [d \in Sides |-> [p \in Prices |-> Line(s0, d, p)]]
    BY DEF Lines
  <2>2. [p \in Prices |-> Line(s0, d0, p)'] = [Lines[s0][d0] EXCEPT ![p0] = QueueAt(g, p0)]
    BY <1>3, <2>1
  <2>3. [d \in Sides |-> [p \in Prices |-> Line(s0, d, p)']] =
          [Lines[s0] EXCEPT ![d0] = [p \in Prices |-> Line(s0, d0, p)']]
    BY <1>3, <2>1
  <2>4. Lines' = [Lines EXCEPT ![s0] = [d \in Sides |-> [p \in Prices |-> Line(s0, d, p)']]]
    BY <1>3 DEF Lines
  <2> QED BY <2>2, <2>3, <2>4
<1> QED BY <1>5, <1>6, <1>7, <1>8, <1>9

(* An order that is in some line waits.                                    *)
LEMMA InLine ==
  ASSUME TypeOK, LinesInv,
         NEW s \in Symbols, NEW d \in Sides, NEW p \in Prices, NEW o \in ToSet(Line(s, d, p))
  PROVE  o \in WaitingOrders /\ o \in Created /\ OwnLine(o) = Line(s, d, p)
BY DEF TypeOK, LevelsOK, LinesInv, WaitingOrders, Waiting, OwnLine

-----------------------------------------------------------------------------
(* The invariant holds initially.                                          *)
LEMMA InitIInv ==
  ASSUME Init
  PROVE  IInv
<1>1. Len(request) = 0 /\ Created = {} /\ request \in Seq(Request)
  BY DEF Init, Created
<1>2. \A s \in Symbols, d \in Sides : \A p : Line(s, d, p) = << >>
  BY DEF Init, Line, QueueAt, LevelAt, NoLevels, EmptyLevel
<1>3. Absent \in Copy
  BY DEF Absent, Copy
<1>4. LevelsOK
  <2>1. DOMAIN NoLevels = {}
    BY DEF NoLevels
  <2>2. IsLevelMap(NoLevels)
    BY <2>1 DEF IsLevelMap
  <2>3. \A s \in Symbols, d \in Sides, p \in Prices : ToSet(Line(s, d, p)) \subseteq Created
    BY <1>2, EmptySet
  <2> QED BY <2>2, <2>3 DEF Init, LevelsOK
<1>5. TypeOK
  BY <1>1, <1>3, <1>4, EngineAssumption
  DEF Init, TypeOK, EngineAssumption, Places, NoOrder, NoFills, Ids
<1>6. LockDiscipline /\ OnlyLimitsRest
  BY EngineAssumption DEF Init, LockDiscipline, OnlyLimitsRest, EngineAssumption
<1>7. LinesInv
  <2>1. IsInjective(<< >>)
    BY DEF IsInjective
  <2> QED BY <1>2, <2>1, EmptySet DEF LinesInv
<1>8. StoredInv /\ WaitingInv /\ NothingLost
  BY <1>1 DEF Init, StoredInv, WaitingInv, NothingLost, WaitingOrders
<1>9. PendingInv
  BY DEF Init, PendingInv, NoFills, Ids
<1>10. TasksInv /\ IncomingInv
  BY DEF Init, TasksInv, IncomingInv, Submitting
<1> QED BY <1>5, <1>6, <1>7, <1>8, <1>9, <1>10 DEF IInv, TypeInv

-----------------------------------------------------------------------------
(* Every action preserves it.                                              *)

(* IInv depends on the engine's variables only.                            *)
LEMMA StutterIInv ==
  ASSUME IInv, UNCHANGED vars
  PROVE  IInv'
<1>1. UNCHANGED <<request, orders, trade_count, levels, resting, order_locations, writer, pc,
                  work, incoming, prices, filled_qty, orders_to_remove, quantity_to_reduce,
                  trades>>
  BY DEF vars, books, locals
<1>2. /\ Created' = Created /\ WaitingOrders' = WaitingOrders /\ LevelsOK' /\ LinesInv'
      /\ \A o : Waiting(o)' = Waiting(o)
      /\ \A t : Own(t)' = Own(t)
  BY <1>1, SameLines DEF IInv, TypeInv, TypeOK, Waiting, OwnLine, Line, Own
<1>3. TypeOK' /\ LockDiscipline'
  BY <1>1, <1>2 DEF IInv, TypeInv, TypeOK, LockDiscipline
<1>4. OnlyLimitsRest' /\ IncomingInv'
  BY <1>1, <1>2 DEF IInv, TypeInv, OnlyLimitsRest, IncomingInv
<1>5. StoredInv' /\ WaitingInv' /\ PendingInv' /\ TasksInv'
  BY <1>1, <1>2 DEF IInv, StoredInv, WaitingInv, PendingInv, TasksInv
<1>6. NothingLost'
  BY <1>1, <1>2 DEF IInv, NothingLost
<1> QED BY <1>2, <1>3, <1>4, <1>5, <1>6 DEF IInv, TypeInv

(* RejectMarket and PanicInSum keep IInv.                                  *)
LEMMA RejectIInv ==
  ASSUME IInv, NEW t \in Tasks, pc[t] = "submit", Return(t),
         UNCHANGED <<request, orders, trade_count, books, writer, locals>>
  PROVE  IInv'
<1>1. UNCHANGED <<request, orders, trade_count, levels, resting, order_locations, writer,
                  incoming, prices, filled_qty, orders_to_remove, quantity_to_reduce, trades>>
  BY DEF books, locals
<1>2. /\ pc' = [pc EXCEPT ![t] = "idle"]
      /\ work' = [work EXCEPT ![t] = NoOrder]
  BY DEF Return, Goto
<1>3. /\ Created' = Created /\ WaitingOrders' = WaitingOrders /\ LevelsOK' /\ LinesInv'
      /\ \A o : Waiting(o)' = Waiting(o)
  BY <1>1, SameLines DEF IInv, TypeInv, TypeOK, Waiting, OwnLine, Line
<1>4. /\ TypeOK /\ LockDiscipline /\ pc \in [Tasks -> Places]
      /\ work \in [Tasks -> Created \cup {NoOrder}]
  BY DEF IInv, TypeInv, TypeOK
<1>5. /\ pc'[t] = "idle" /\ work'[t] = NoOrder
      /\ \A u \in Tasks \ {t} : pc'[u] = pc[u] /\ work'[u] = work[u] /\ Own(u)' = Own(u)
  BY <1>1, <1>2, <1>4 DEF Own
<1>6. TypeOK'
  <2>1. pc' \in [Tasks -> Places] /\ work' \in [Tasks -> Created \cup {NoOrder}]
    BY <1>2, <1>4 DEF Places
  <2>2. \A u \in Tasks : work'[u] = NoOrder <=> pc'[u] = "idle"
    BY <1>4, <1>5 DEF TypeOK
  <2> QED BY <1>1, <1>3, <1>4, <2>1, <2>2 DEF TypeOK
<1>7. LockDiscipline' /\ OnlyLimitsRest' /\ IncomingInv'
  BY <1>1, <1>5 DEF IInv, TypeInv, LockDiscipline, OnlyLimitsRest, IncomingInv
<1>8. StoredInv' /\ WaitingInv'
  BY <1>1, <1>3 DEF IInv, StoredInv, WaitingInv
<1>9. PendingInv'
  BY <1>1, <1>3, <1>5 DEF IInv, PendingInv
<1>10. TasksInv'
  BY <1>1, <1>3, <1>5 DEF IInv, TasksInv, Submitting
<1>11. NothingLost'
  BY <1>1, <1>3, <1>5 DEF IInv, NothingLost
<1> QED BY <1>3, <1>6, <1>7, <1>8, <1>9, <1>10, <1>11 DEF IInv, TypeInv

(* A new order waits nowhere, and nothing else changes for the others.     *)
LEMMA SubmitIInv ==
  ASSUME IInv, NEW t \in Tasks, SubmitOrder(t)
  PROVE  IInv'
<1>0. PICK n \in Nat : n = Len(request) + 1
  BY CreatedType DEF IInv, TypeInv
<1>1. UNCHANGED <<orders, trade_count, levels, resting, order_locations, writer,
                  incoming, prices, filled_qty, orders_to_remove, quantity_to_reduce, trades>>
  BY DEF SubmitOrder, books, locals
<1>2. /\ pc[t] = "idle" /\ Len(request) < MaxOrders
      /\ pc' = [pc EXCEPT ![t] = "submit"] /\ work' = [work EXCEPT ![t] = n]
  BY <1>0 DEF SubmitOrder, Goto
<1>3. PICK r \in Request : request' = Append(request, r)
  BY DEF SubmitOrder
<1>4. /\ TypeOK /\ LockDiscipline /\ LinesInv /\ pc \in [Tasks -> Places]
      /\ work \in [Tasks -> Created \cup {NoOrder}]
      /\ request \in Seq(Request) /\ Len(request) \in Nat
  BY DEF IInv, TypeInv, TypeOK
<1>5. /\ request' \in Seq(Request) /\ Len(request') = n
      /\ \A o \in Created : request'[o] = request[o]
      /\ request'[n] = r
      /\ Created' = Created \cup {n} /\ n \notin Created /\ n \in Nat /\ n # NoOrder
  BY <1>0, <1>3, <1>4 DEF Created, NoOrder
<1>6. n \in Ids /\ Len(request') <= MaxOrders
  BY <1>0, <1>2, <1>4, <1>5, EngineAssumption DEF Ids, EngineAssumption
<1>7. \A s, d, p : Line(s, d, p)' = Line(s, d, p)
  BY <1>1 DEF Line
<1>8. WaitingOrders' = WaitingOrders
  <2>1. \A o \in Created : OwnLine(o)' = OwnLine(o)
    BY <1>5, <1>7 DEF OwnLine
  <2>2. n \notin ToSet(OwnLine(n)')
    <3>1. /\ OwnLine(n)' = Line(r.symbol, r.side, r.price)
          /\ r.symbol \in Symbols /\ r.side \in Sides
      BY <1>1, <1>5, RequestType DEF OwnLine, Line
    <3>2. CASE r.price \in Prices
      <4>1. ToSet(Line(r.symbol, r.side, r.price)) \subseteq Created
        BY <1>4, <3>1, <3>2 DEF TypeOK, LevelsOK
      <4> QED BY <3>1, <4>1, <1>5
    <3>3. CASE r.price \notin Prices
      <4>1. Line(r.symbol, r.side, r.price) = << >>
        BY <1>4, <3>1, <3>3, LevelType DEF TypeOK, LevelsOK, Line
      <4> QED BY <3>1, <4>1, EmptySet
    <3> QED BY <3>2, <3>3
  <2> QED BY <1>5, <2>1, <2>2 DEF WaitingOrders, Waiting
<1>9. LevelsOK' /\ LinesInv'
  <2>1. LevelsOK'
    BY <1>1, <1>4, <1>5, <1>7 DEF TypeOK, LevelsOK
  <2>2. \A s \in Symbols, d \in Sides, p \in Prices : ToSet(Line(s, d, p)) \subseteq Created
    BY <1>4 DEF TypeOK, LevelsOK
  <2> QED BY <1>4, <1>5, <1>7, <2>1, <2>2 DEF LinesInv
<1>10. /\ pc'[t] = "submit" /\ work'[t] = n
       /\ \A u \in Tasks \ {t} : pc'[u] = pc[u] /\ work'[u] = work[u]
       /\ \A u \in Tasks : pc[u] # "idle" => work[u] \in Created /\ Own(u)' = Own(u)
  BY <1>2, <1>4, <1>5, OwnType DEF Own
<1>11. TypeOK'
  <2>1. pc' \in [Tasks -> Places] /\ work' \in [Tasks -> Created' \cup {NoOrder}]
    BY <1>2, <1>4, <1>5 DEF Places
  <2>2. \A u \in Tasks : work'[u] = NoOrder <=> pc'[u] = "idle"
    BY <1>4, <1>5, <1>10 DEF TypeOK
  <2>3. order_locations' \in [Symbols -> SUBSET Created'] /\ orders_to_remove' \subseteq Created'
    BY <1>1, <1>4, <1>5 DEF TypeOK
  <2> QED BY <1>1, <1>4, <1>5, <1>6, <1>9, <2>1, <2>2, <2>3 DEF TypeOK
<1>12. LockDiscipline' /\ OnlyLimitsRest' /\ IncomingInv'
  BY <1>1, <1>2, <1>10 DEF IInv, TypeInv, LockDiscipline, OnlyLimitsRest, IncomingInv
<1>13. StoredInv'
  <2>1. orders[n] = Absent
    BY <1>5, <1>6 DEF IInv, StoredInv
  <2>2. r.quantity \in Nat
    BY RequestType
  <2> QED BY <1>1, <1>5, <2>1, <2>2 DEF IInv, StoredInv, Absent, StatusOf
<1>14. WaitingInv'
  BY <1>1, <1>5, <1>8 DEF IInv, WaitingInv, WaitingOrders, StatusOf
<1>15. PendingInv'
  <2>1. \A o \in orders_to_remove : o \in Created
    BY <1>4 DEF TypeOK
  <2> QED BY <1>1, <1>2, <1>5, <1>8, <1>10, <2>1 DEF IInv, PendingInv
<1>16. TasksInv'
  <2>1. orders[n] = Absent
    BY <1>5, <1>6 DEF IInv, StoredInv
  <2> QED BY <1>1, <1>5, <1>8, <1>10, <2>1 DEF IInv, TasksInv, Submitting
<1>17. NothingLost'
  <2>1. orders[n].status \notin Active
    BY <1>5, <1>6 DEF IInv, StoredInv, Absent, Active
  <2>2. \A o \in Created : Waiting(o) => Waiting(o)'
    BY <1>5, <1>7 DEF Waiting, OwnLine
  <2> QED BY <1>1, <1>2, <1>5, <1>10, <2>1, <2>2 DEF IInv, NothingLost
<1> QED BY <1>9, <1>11, <1>12, <1>13, <1>14, <1>15, <1>16, <1>17 DEF IInv, TypeInv

(* Only the task that holds the lock is matching or storing.               *)
LEMMA OneHolder ==
  ASSUME IInv, NEW t \in Tasks, pc[t] \in {"match", "store"}
  PROVE  writer = t /\ \A u \in Tasks \ {t} : pc[u] \notin {"match", "store"}
BY DEF IInv, TypeInv, LockDiscipline

(* Without the lock nobody is, and no fill is pending.                     *)
LEMMA NoHolder ==
  ASSUME IInv, writer = NoTask
  PROVE  /\ \A u \in Tasks : pc[u] \notin {"match", "store"}
         /\ quantity_to_reduce = 0
         /\ \A o \in Ids : filled_qty[o] = 0
         /\ orders_to_remove = {}
<1>1. \A u \in Tasks : pc[u] \notin {"match", "store"}
  BY EngineAssumption DEF IInv, TypeInv, LockDiscipline, EngineAssumption
<1>2. quantity_to_reduce = 0
  BY <1>1 DEF IInv, PendingInv
<1>3. \A o \in Ids : filled_qty[o] = 0
  BY <1>2, CopyType DEF IInv, TypeInv, PendingInv
<1>4. orders_to_remove \subseteq Ids
  BY CreatedType DEF IInv, TypeInv, TypeOK
<1> QED BY <1>1, <1>2, <1>3, <1>4 DEF IInv, PendingInv

(* StartMatching keeps IInv.                                               *)
LEMMA StartIInv ==
  ASSUME IInv, NEW t \in Tasks, StartMatching(t)
  PROVE  IInv'
<1>1. UNCHANGED <<request, orders, trade_count, levels, resting, order_locations, work,
                  filled_qty, orders_to_remove, quantity_to_reduce, trades>>
  BY DEF StartMatching, books
<1>2. /\ pc[t] = "submit" /\ writer = NoTask /\ writer' = t
      /\ pc' = [pc EXCEPT ![t] = "match"]
      /\ incoming' = NewOrder /\ prices' = CrossingPrices(Own(t))
  BY DEF StartMatching, Goto
<1>3. /\ Created' = Created /\ WaitingOrders' = WaitingOrders /\ LevelsOK' /\ LinesInv'
      /\ \A o : Waiting(o)' = Waiting(o)
      /\ \A u : Own(u)' = Own(u)
  BY <1>1, SameLines DEF IInv, TypeInv, TypeOK, Waiting, OwnLine, Line, Own
<1>4. /\ TypeOK /\ pc \in [Tasks -> Places] /\ Own(t) \in Request
      /\ \A u \in Tasks : pc[u] \notin {"match", "store"}
  BY <1>2, OwnType, NoHolder DEF IInv, TypeInv, TypeOK
<1>5. /\ pc'[t] = "match"
      /\ \A u \in Tasks \ {t} : pc'[u] = pc[u]
  BY <1>2, <1>4
<1>6. TypeOK'
  <2>1. pc' \in [Tasks -> Places]
    BY <1>2, <1>4 DEF Places
  <2>2. \A u \in Tasks : work'[u] = NoOrder <=> pc'[u] = "idle"
    BY <1>1, <1>2, <1>4, <1>5 DEF TypeOK
  <2>3. incoming' \in Copy
    BY <1>2 DEF NewOrder, Copy, OrderStatus
  <2>4. prices' \subseteq Prices
    <3>1. IsLevelMap(Against(Own(t)))
      BY <1>4, RequestType DEF TypeOK, LevelsOK, Against
    <3> QED BY <1>2, <3>1 DEF CrossingPrices, IsLevelMap
  <2> QED BY <1>1, <1>2, <1>3, <1>4, <2>1, <2>2, <2>3, <2>4 DEF TypeOK
<1>7. LockDiscipline'
  BY <1>2, <1>4, <1>5 DEF LockDiscipline
<1>8. OnlyLimitsRest'
  BY <1>4, <1>5 DEF OnlyLimitsRest
<1>9. StoredInv' /\ WaitingInv'
  BY <1>1, <1>3 DEF IInv, StoredInv, WaitingInv
<1>10. PendingInv'
  BY <1>1, <1>3, <1>5 DEF IInv, PendingInv
<1>11. TasksInv'
  BY <1>1, <1>2, <1>3, <1>5 DEF IInv, TasksInv, Submitting
<1>12. IncomingInv'
  <2>1. NewOrder.filled <= Own(t).quantity /\ NewOrder.status = StatusOf(Own(t), NewOrder.filled)
    BY <1>4, RequestType, DomainAssumption DEF NewOrder, StatusOf, DomainAssumption
  <2> QED BY <1>2, <1>3, <1>4, <1>5, <2>1 DEF IncomingInv
<1>13. NothingLost'
  BY <1>1, <1>2, <1>3, <1>5 DEF IInv, NothingLost
<1> QED BY <1>3, <1>6, <1>7, <1>8, <1>9, <1>10, <1>11, <1>12, <1>13 DEF IInv, TypeInv

(* CountTrades keeps IInv.                                                 *)
LEMMA CountIInv ==
  ASSUME IInv, NEW t \in Tasks, CountTrades(t)
  PROVE  IInv'
<1>1. UNCHANGED <<request, orders, levels, resting, order_locations, writer, work, incoming,
                  filled_qty, orders_to_remove, quantity_to_reduce>>
  BY DEF CountTrades, books
<1>2. /\ pc[t] = "match" /\ quantity_to_reduce = 0
      /\ pc' = [pc EXCEPT ![t] = "store"]
      /\ Own(t).order_type = "Market" => IsFilled(Own(t), incoming)
      /\ trade_count' = trade_count + trades /\ trades' = 0 /\ prices' = {}
  BY DEF CountTrades, Goto, MatchingDone
<1>3. /\ Created' = Created /\ WaitingOrders' = WaitingOrders /\ LevelsOK' /\ LinesInv'
      /\ \A o : Waiting(o)' = Waiting(o)
      /\ \A u : Own(u)' = Own(u)
  BY <1>1, SameLines DEF IInv, TypeInv, TypeOK, Waiting, OwnLine, Line, Own
<1>4. /\ TypeOK /\ pc \in [Tasks -> Places]
      /\ \A u \in Tasks \ {t} : pc[u] \notin {"match", "store"}
  BY <1>2, OneHolder DEF IInv, TypeInv, TypeOK
<1>5. /\ pc'[t] = "store"
      /\ \A u \in Tasks \ {t} : pc'[u] = pc[u]
  BY <1>2, <1>4
<1>6. TypeOK'
  <2>1. pc' \in [Tasks -> Places]
    BY <1>2, <1>4 DEF Places
  <2>2. \A u \in Tasks : work'[u] = NoOrder <=> pc'[u] = "idle"
    BY <1>1, <1>2, <1>4, <1>5 DEF TypeOK
  <2>3. trade_count' \in Nat /\ trades' \in Nat /\ prices' \subseteq Prices
    BY <1>2, <1>4 DEF TypeOK
  <2> QED BY <1>1, <1>3, <1>4, <2>1, <2>2, <2>3 DEF TypeOK
<1>7. LockDiscipline'
  BY <1>1, <1>2, <1>5 DEF IInv, TypeInv, LockDiscipline
<1>8. OnlyLimitsRest' /\ IncomingInv'
  BY <1>1, <1>2, <1>3, <1>4, <1>5 DEF IInv, OnlyLimitsRest, IncomingInv
<1>9. StoredInv' /\ WaitingInv'
  BY <1>1, <1>3 DEF IInv, StoredInv, WaitingInv
<1>10. PendingInv'
  BY <1>1, <1>2, <1>3 DEF IInv, PendingInv
<1>11. TasksInv'
  BY <1>1, <1>2, <1>3, <1>5 DEF IInv, TasksInv, Submitting
<1>12. NothingLost'
  BY <1>1, <1>2, <1>3, <1>5 DEF IInv, NothingLost
<1> QED BY <1>3, <1>6, <1>7, <1>8, <1>9, <1>10, <1>11, <1>12 DEF IInv, TypeInv

(* CancelCheck keeps IInv.                                                 *)
LEMMA CheckIInv ==
  ASSUME IInv, NEW t \in Tasks, CancelCheck(t)
  PROVE  IInv'
<1>1. UNCHANGED <<request, orders, trade_count, levels, resting, order_locations, writer,
                  incoming, prices, filled_qty, orders_to_remove, quantity_to_reduce, trades>>
  BY DEF CancelCheck, books, locals
<1>2. PICK o \in Ids : /\ orders[o].status \in Active
                       /\ work' = [work EXCEPT ![t] = o]
  BY DEF CancelCheck
<1>3. pc[t] = "idle" /\ pc' = [pc EXCEPT ![t] = "remove"]
  BY DEF CancelCheck, Goto
<1>4. /\ Created' = Created /\ WaitingOrders' = WaitingOrders /\ LevelsOK' /\ LinesInv'
      /\ \A q : Waiting(q)' = Waiting(q)
  BY <1>1, SameLines DEF IInv, TypeInv, TypeOK, Waiting, OwnLine, Line
<1>5. /\ TypeOK /\ pc \in [Tasks -> Places] /\ work \in [Tasks -> Created \cup {NoOrder}]
  BY DEF IInv, TypeInv, TypeOK
<1>6. o \in Created /\ o # NoOrder /\ orders[o].status # "Absent"
  BY <1>2 DEF IInv, StoredInv, Active, Absent, Ids, NoOrder
<1>7. /\ pc'[t] = "remove" /\ work'[t] = o
      /\ \A u \in Tasks \ {t} : pc'[u] = pc[u] /\ work'[u] = work[u] /\ Own(u)' = Own(u)
  BY <1>1, <1>2, <1>3, <1>5 DEF Own
<1>8. TypeOK'
  <2>1. pc' \in [Tasks -> Places] /\ work' \in [Tasks -> Created \cup {NoOrder}]
    BY <1>2, <1>3, <1>5, <1>6 DEF Places
  <2>2. \A u \in Tasks : work'[u] = NoOrder <=> pc'[u] = "idle"
    BY <1>5, <1>6, <1>7 DEF TypeOK
  <2> QED BY <1>1, <1>4, <1>5, <2>1, <2>2 DEF TypeOK
<1>9. LockDiscipline' /\ OnlyLimitsRest' /\ IncomingInv'
  BY <1>1, <1>3, <1>7 DEF IInv, TypeInv, LockDiscipline, OnlyLimitsRest, IncomingInv
<1>10. StoredInv' /\ WaitingInv'
  BY <1>1, <1>4 DEF IInv, StoredInv, WaitingInv
<1>11. PendingInv'
  BY <1>1, <1>3, <1>4, <1>7 DEF IInv, PendingInv
<1>12. TasksInv'
  BY <1>1, <1>4, <1>6, <1>7 DEF IInv, TasksInv, Submitting
<1>13. NothingLost'
  BY <1>1, <1>3, <1>4, <1>7 DEF IInv, NothingLost
<1> QED BY <1>4, <1>8, <1>9, <1>10, <1>11, <1>12, <1>13 DEF IInv, TypeInv

(* What the location map does not know waits nowhere.                      *)
LEMMA MissedIInv ==
  ASSUME IInv, NEW t \in Tasks, CancelMissed(t)
  PROVE  IInv'
<1>1. UNCHANGED <<request, orders, trade_count, levels, resting, order_locations, writer, work,
                  incoming, prices, filled_qty, orders_to_remove, quantity_to_reduce, trades>>
  BY DEF CancelMissed, books, locals
<1>2. /\ pc[t] = "remove" /\ writer = NoTask /\ pc' = [pc EXCEPT ![t] = "mark"]
      /\ work[t] \notin order_locations[Own(t).symbol]
  BY DEF CancelMissed, Goto
<1>3. /\ Created' = Created /\ WaitingOrders' = WaitingOrders /\ LevelsOK' /\ LinesInv'
      /\ \A q : Waiting(q)' = Waiting(q)
      /\ \A u : Own(u)' = Own(u)
  BY <1>1, SameLines DEF IInv, TypeInv, TypeOK, Waiting, OwnLine, Line, Own
<1>4. /\ TypeOK /\ pc \in [Tasks -> Places] /\ work[t] \in Ids
  BY <1>2, OwnType DEF IInv, TypeInv, TypeOK
<1>5. work[t] \notin WaitingOrders /\ filled_qty[work[t]] = 0
  BY <1>2, <1>4, NoHolder DEF IInv, WaitingInv, Own
<1>6. /\ pc'[t] = "mark"
      /\ \A u \in Tasks \ {t} : pc'[u] = pc[u]
  BY <1>2, <1>4
<1>7. TypeOK'
  <2>1. pc' \in [Tasks -> Places]
    BY <1>2, <1>4 DEF Places
  <2>2. \A u \in Tasks : work'[u] = NoOrder <=> pc'[u] = "idle"
    BY <1>1, <1>2, <1>4, <1>6 DEF TypeOK
  <2> QED BY <1>1, <1>3, <1>4, <2>1, <2>2 DEF TypeOK
<1>8. LockDiscipline' /\ OnlyLimitsRest' /\ IncomingInv'
  BY <1>1, <1>2, <1>3, <1>6 DEF IInv, TypeInv, LockDiscipline, OnlyLimitsRest, IncomingInv
<1>9. StoredInv' /\ WaitingInv'
  BY <1>1, <1>3 DEF IInv, StoredInv, WaitingInv
<1>10. PendingInv'
  BY <1>1, <1>2, <1>3, <1>6 DEF IInv, PendingInv
<1>11. TasksInv'
  BY <1>1, <1>2, <1>3, <1>5, <1>6 DEF IInv, TasksInv, Submitting
<1>12. NothingLost'
  BY <1>1, <1>2, <1>3, <1>6 DEF IInv, NothingLost
<1> QED BY <1>3, <1>7, <1>8, <1>9, <1>10, <1>11, <1>12 DEF IInv, TypeInv

(* The marked order waits nowhere and has no pending fill.                 *)
LEMMA MarkIInv ==
  ASSUME IInv, NEW t \in Tasks, CancelMark(t)
  PROVE  IInv'
<1>1. UNCHANGED <<request, trade_count, levels, resting, order_locations, writer,
                  incoming, prices, filled_qty, orders_to_remove, quantity_to_reduce, trades>>
  BY DEF CancelMark, books, locals
<1>2. /\ pc[t] = "mark" /\ pc' = [pc EXCEPT ![t] = "idle"]
      /\ work' = [work EXCEPT ![t] = NoOrder]
      /\ orders' = [orders EXCEPT ![work[t]] = Cancel(orders[work[t]])]
  BY DEF CancelMark, Return, Goto
<1>3. /\ Created' = Created /\ WaitingOrders' = WaitingOrders /\ LevelsOK' /\ LinesInv'
      /\ \A o : Waiting(o)' = Waiting(o)
  BY <1>1, SameLines DEF IInv, TypeInv, TypeOK, Waiting, OwnLine, Line
<1>4. /\ TypeOK /\ pc \in [Tasks -> Places] /\ work \in [Tasks -> Created \cup {NoOrder}]
      /\ orders \in [Ids -> Copy]
      /\ work[t] \in Ids /\ work[t] \in Created
  BY <1>2, OwnType DEF IInv, TypeInv, TypeOK
<1>5. PICK m \in Ids : m = work[t]
  BY <1>4
<1>6. /\ m \notin WaitingOrders /\ filled_qty[m] = 0 /\ orders[m].status # "Absent"
      /\ m \in Created
  BY <1>2, <1>4, <1>5 DEF IInv, TasksInv
<1>7. /\ orders' \in [Ids -> Copy]
      /\ orders'[m].status = "Cancelled" /\ orders'[m].filled = orders[m].filled
      /\ \A o \in Ids : o # m => orders'[o] = orders[o]
  BY <1>2, <1>4, <1>5 DEF Cancel, Copy, OrderStatus
<1>8. /\ pc'[t] = "idle" /\ work'[t] = NoOrder
      /\ \A u \in Tasks \ {t} : pc'[u] = pc[u] /\ work'[u] = work[u] /\ Own(u)' = Own(u)
  BY <1>1, <1>2, <1>4 DEF Own
<1>9. TypeOK'
  <2>1. pc' \in [Tasks -> Places] /\ work' \in [Tasks -> Created \cup {NoOrder}]
    BY <1>2, <1>4 DEF Places
  <2>2. \A u \in Tasks : work'[u] = NoOrder <=> pc'[u] = "idle"
    BY <1>4, <1>8 DEF TypeOK
  <2> QED BY <1>1, <1>3, <1>4, <1>7, <2>1, <2>2 DEF TypeOK
<1>10. LockDiscipline' /\ OnlyLimitsRest' /\ IncomingInv'
  BY <1>1, <1>2, <1>8 DEF IInv, TypeInv, LockDiscipline, OnlyLimitsRest, IncomingInv
<1>11. Created \subseteq Ids /\ WaitingOrders \subseteq Created
  BY <1>4, CreatedType DEF WaitingOrders
<1>12. StoredInv'
  BY <1>1, <1>3, <1>6, <1>7, <1>11 DEF IInv, StoredInv
<1>13. WaitingInv'
  BY <1>1, <1>3, <1>6, <1>7, <1>11 DEF IInv, WaitingInv
<1>14. PendingInv'
  <2>1. \A o \in Ids : filled_qty[o] > 0 => o # m
    BY <1>6
  <2>2. orders_to_remove \subseteq Created
    BY <1>4 DEF TypeOK
  <2> QED BY <1>1, <1>2, <1>3, <1>7, <1>8, <1>11, <2>1, <2>2 DEF IInv, PendingInv
<1>15. TasksInv'
  <2> SUFFICES ASSUME NEW u \in Tasks \ {t}
               PROVE  /\ pc[u] \in Submitting => orders'[work[u]] = Absent
                      /\ pc[u] \in {"remove", "mark"} => orders'[work[u]].status # "Absent"
    BY <1>1, <1>3, <1>8 DEF IInv, TasksInv, Submitting
  <2>1. pc[u] # "idle" => work[u] \in Ids
    BY <1>4, OwnType
  <2>2. pc[u] \in Submitting => work[u] # m
    BY <1>6 DEF IInv, TasksInv, Absent
  <2> QED BY <1>7, <2>1, <2>2 DEF IInv, TasksInv, Submitting
<1>16. NothingLost'
  <2> SUFFICES ASSUME NEW o \in Created, orders'[o].status \in Active
               PROVE  \/ Waiting(o) \/ o \in orders_to_remove
                      \/ \E u \in Tasks : pc'[u] = "mark" /\ work'[u] = o
    BY <1>1, <1>3 DEF NothingLost
  <2>1. o # m /\ orders[o].status \in Active
    BY <1>7, <1>11 DEF Active
  <2> QED BY <1>5, <1>8, <2>1 DEF IInv, NothingLost
<1> QED BY <1>3, <1>9, <1>10, <1>12, <1>13, <1>14, <1>15, <1>16 DEF IInv, TypeInv

(* While an order is stored no fill is pending, and nobody else has it.    *)
LEMMA Storing ==
  ASSUME IInv, NEW t \in Tasks, pc[t] = "store"
  PROVE  /\ writer = t /\ \A u \in Tasks \ {t} : pc[u] \notin {"match", "store"}
         /\ quantity_to_reduce = 0
         /\ \A o \in Ids : filled_qty[o] = 0
         /\ orders_to_remove = {}
         /\ work[t] \in Created /\ work[t] \in Ids /\ work[t] \in Nat /\ Own(t) \in Request
         /\ orders[work[t]] = Absent /\ work[t] \notin WaitingOrders
         /\ \A u \in Tasks \ {t} : work[u] # work[t]
<1>1. writer = t /\ \A u \in Tasks \ {t} : pc[u] \notin {"match", "store"}
  BY OneHolder
<1>2. quantity_to_reduce = 0
  BY <1>1 DEF IInv, PendingInv
<1>3. \A o \in Ids : filled_qty[o] = 0
  BY <1>2, CopyType DEF IInv, TypeInv, PendingInv
<1>4. orders_to_remove = {}
  <2>1. orders_to_remove \subseteq Ids
    BY CreatedType DEF IInv, TypeInv, TypeOK
  <2> QED BY <1>3, <2>1 DEF IInv, PendingInv
<1>5. work[t] \in Created /\ work[t] \in Ids /\ work[t] \in Nat /\ Own(t) \in Request
  BY OwnType DEF IInv, TypeInv
<1>6. orders[work[t]] = Absent
  BY DEF IInv, TasksInv, Submitting
<1>7. work[t] \notin WaitingOrders
  BY <1>6 DEF IInv, WaitingInv, Absent, Active
<1>8. ASSUME NEW u \in Tasks \ {t}  PROVE work[u] # work[t]
  <2>1. CASE pc[u] \in Submitting
    BY <2>1 DEF IInv, TasksInv, Submitting
  <2>2. CASE pc[u] \in {"remove", "mark"}
    BY <2>2, <1>6 DEF IInv, TasksInv, Absent
  <2>3. CASE pc[u] = "idle"
    BY <2>3, <1>5, CreatedType DEF IInv, TypeInv, TypeOK, NoOrder, Created
  <2> QED BY <2>1, <2>2, <2>3 DEF IInv, TypeInv, TypeOK, Places, Submitting
<1> QED BY <1>1, <1>2, <1>3, <1>4, <1>5, <1>6, <1>7, <1>8

(* What a submission that returns from "store" leaves to the others.       *)
LEMMA Released ==
  ASSUME IInv, NEW t \in Tasks, pc[t] = "store", Release(t), UNCHANGED request
  PROVE  /\ writer' = NoTask /\ incoming' = Absent /\ incoming' \in Copy
         /\ pc' \in [Tasks -> Places] /\ work' \in [Tasks -> Created \cup {NoOrder}]
         /\ pc'[t] = "idle" /\ work'[t] = NoOrder
         /\ \A u \in Tasks \ {t} : pc'[u] = pc[u] /\ work'[u] = work[u] /\ Own(u)' = Own(u)
         /\ \A u \in Tasks : work'[u] = NoOrder <=> pc'[u] = "idle"
         /\ LockDiscipline' /\ OnlyLimitsRest' /\ IncomingInv'
<1>1. /\ writer' = NoTask /\ incoming' = Absent
      /\ pc' = [pc EXCEPT ![t] = "idle"] /\ work' = [work EXCEPT ![t] = NoOrder]
  BY DEF Release, Return, Goto
<1>2. /\ TypeOK /\ pc \in [Tasks -> Places] /\ work \in [Tasks -> Created \cup {NoOrder}]
  BY DEF IInv, TypeInv, TypeOK
<1>3. /\ pc'[t] = "idle" /\ work'[t] = NoOrder
      /\ \A u \in Tasks \ {t} : pc'[u] = pc[u] /\ work'[u] = work[u] /\ Own(u)' = Own(u)
  BY <1>1, <1>2 DEF Own
<1>4. pc' \in [Tasks -> Places] /\ work' \in [Tasks -> Created \cup {NoOrder}]
  BY <1>1, <1>2 DEF Places
<1>5. \A u \in Tasks : work'[u] = NoOrder <=> pc'[u] = "idle"
  BY <1>2, <1>3 DEF TypeOK
<1>6. \A u \in Tasks : pc'[u] \notin {"match", "store"}
  BY <1>3, OneHolder
<1>7. LockDiscipline' /\ OnlyLimitsRest' /\ IncomingInv'
  BY <1>1, <1>6, EngineAssumption
  DEF LockDiscipline, OnlyLimitsRest, IncomingInv, EngineAssumption
<1> QED BY <1>1, <1>3, <1>4, <1>5, <1>7 DEF Absent, Copy

(* StoreFilled keeps IInv.                                                 *)
LEMMA StoreFilledIInv ==
  ASSUME IInv, NEW t \in Tasks, StoreFilled(t)
  PROVE  IInv'
<1>1. UNCHANGED <<request, trade_count, levels, resting, order_locations, prices, filled_qty,
                  orders_to_remove, quantity_to_reduce, trades>>
  BY DEF StoreFilled, books
<1>2. /\ pc[t] = "store" /\ IsFilled(Own(t), incoming) /\ Release(t)
      /\ orders' = [orders EXCEPT ![work[t]] = incoming]
  BY DEF StoreFilled, StoreOrder
<1>3. /\ Created' = Created /\ WaitingOrders' = WaitingOrders /\ LevelsOK' /\ LinesInv'
      /\ \A o : Waiting(o)' = Waiting(o)
  BY <1>1, SameLines DEF IInv, TypeInv, TypeOK, Waiting, OwnLine, Line
<1>4. /\ TypeOK /\ Created \subseteq Ids /\ WaitingOrders \subseteq Created
      /\ orders \in [Ids -> Copy] /\ incoming \in Copy
  BY CreatedType DEF IInv, TypeInv, TypeOK, WaitingOrders
<1>5. PICK m \in Ids : m = work[t]
  BY <1>2, Storing
<1>6. /\ m \in Created /\ orders[m] = Absent /\ m \notin WaitingOrders
      /\ \A u \in Tasks \ {t} : work[u] # m
      /\ request[m] \in Request /\ request[m].quantity \in Nat
      /\ Own(t) = request[m]
  BY <1>2, <1>5, Storing, RequestType DEF Own
<1>7. /\ orders' \in [Ids -> Copy] /\ orders'[m] = incoming
      /\ \A o \in Ids : o # m => orders'[o] = orders[o]
  BY <1>2, <1>4, <1>5
<1>8. /\ incoming.filled <= request[m].quantity
      /\ incoming.status = StatusOf(request[m], incoming.filled)
      /\ incoming.status = "Filled"
  BY <1>2, <1>6 DEF IInv, IncomingInv, IsFilled, StatusOf
<1>9. TypeOK'
  BY <1>1, <1>2, <1>3, <1>4, <1>7, Released, EngineAssumption DEF TypeOK, EngineAssumption
<1>10. LockDiscipline' /\ OnlyLimitsRest' /\ IncomingInv'
  BY <1>1, <1>2, Released
<1>11. StoredInv'
  BY <1>1, <1>3, <1>4, <1>6, <1>7, <1>8 DEF IInv, StoredInv
<1>12. WaitingInv'
  BY <1>1, <1>3, <1>4, <1>6, <1>7 DEF IInv, WaitingInv
<1>13. PendingInv'
  BY <1>1, <1>2, Storing DEF PendingInv
<1>14. TasksInv'
  <2> SUFFICES ASSUME NEW u \in Tasks \ {t}
               PROVE  /\ pc[u] \in Submitting => orders'[work[u]] = Absent
                      /\ pc[u] \in {"remove", "mark"} => orders'[work[u]].status # "Absent"
    BY <1>1, <1>2, <1>3, Released DEF IInv, TasksInv, Submitting
  <2>1. pc[u] # "idle" => work[u] \in Ids
    BY <1>4, OwnType
  <2> QED BY <1>6, <1>7, <2>1 DEF IInv, TasksInv, Submitting
<1>15. NothingLost'
  <2> SUFFICES ASSUME NEW o \in Created, orders'[o].status \in Active
               PROVE  \/ Waiting(o) \/ o \in orders_to_remove
                      \/ \E u \in Tasks : pc'[u] = "mark" /\ work'[u] = o
    BY <1>1, <1>3 DEF NothingLost
  <2>1. o # m /\ orders[o].status \in Active
    BY <1>4, <1>7, <1>8 DEF Active
  <2> QED BY <1>1, <1>2, <2>1, Released DEF IInv, NothingLost
<1> QED BY <1>3, <1>9, <1>10, <1>11, <1>12, <1>13, <1>14, <1>15 DEF IInv, TypeInv

(* The order is dropped, its location stays: no order waits because of it. *)
LEMMA PanicInAddIInv ==
  ASSUME IInv, NEW t \in Tasks, PanicInAdd(t)
  PROVE  IInv'
<1>1. UNCHANGED <<request, orders, trade_count, levels, resting, prices, filled_qty,
                  orders_to_remove, quantity_to_reduce, trades>>
  BY DEF PanicInAdd
<1>2. /\ pc[t] = "store" /\ Release(t)
      /\ order_locations' = [order_locations EXCEPT
                               ![Own(t).symbol] = order_locations[Own(t).symbol] \cup {work[t]}]
  BY DEF PanicInAdd
<1>3. /\ Created' = Created /\ WaitingOrders' = WaitingOrders /\ LevelsOK' /\ LinesInv'
      /\ \A o : Waiting(o)' = Waiting(o)
  BY <1>1, SameLines DEF IInv, TypeInv, TypeOK, Waiting, OwnLine, Line
<1>4. TypeOK /\ Created \subseteq Ids /\ order_locations \in [Symbols -> SUBSET Created]
  BY CreatedType DEF IInv, TypeInv, TypeOK
<1>5. /\ order_locations' \in [Symbols -> SUBSET Created]
      /\ \A s \in Symbols : order_locations[s] \subseteq order_locations'[s]
  BY <1>2, <1>4, Storing, RequestType
<1>6. TypeOK'
  BY <1>1, <1>2, <1>3, <1>4, <1>5, Released, EngineAssumption DEF TypeOK, EngineAssumption
<1>7. LockDiscipline' /\ OnlyLimitsRest' /\ IncomingInv'
  BY <1>1, <1>2, Released
<1>8. StoredInv'
  BY <1>1, <1>3 DEF IInv, StoredInv
<1>9. WaitingInv'
  <2>1. \A o \in WaitingOrders : request[o].symbol \in Symbols
    BY <1>4, CreatedType, RequestType DEF WaitingOrders
  <2> QED BY <1>1, <1>3, <1>5, <2>1 DEF IInv, WaitingInv
<1>10. PendingInv'
  BY <1>1, <1>2, Storing DEF PendingInv
<1>11. TasksInv'
  BY <1>1, <1>2, <1>3, Released DEF IInv, TasksInv, Submitting
<1>12. NothingLost'
  BY <1>1, <1>2, <1>3, Released DEF IInv, NothingLost
<1> QED BY <1>3, <1>6, <1>7, <1>8, <1>9, <1>10, <1>11, <1>12 DEF IInv, TypeInv

(* What a fill does to the two copies that trade.                          *)
LEMMA FillEffect ==
  ASSUME NEW r \in Request, NEW c \in Copy, NEW n \in Nat, n > 0
  PROVE  /\ Fill(r, c, n) \in Copy
         /\ Fill(r, c, n).filled = c.filled + n
         /\ Fill(r, c, n).status = StatusOf(r, c.filled + n)
         /\ Fill(r, c, n).status \in {"Filled", "PartialFill"}
<1>1. c.filled \in Nat /\ c.filled + n > 0 /\ r.quantity \in Nat
  BY RequestType DEF Copy
<1> QED BY <1>1, FillType DEF Fill, StatusOf

(* Neither a smaller total nor the end of an empty level moves an order.   *)
LEMMA FinishLines ==
  ASSUME IInv, NEW t \in Tasks, FinishLevel(t)
  PROVE  LevelsOK' /\ LinesInv' /\ Lines' = Lines /\ WaitingOrders' = WaitingOrders
<1>1. UNCHANGED request /\ pc[t] = "match"
  BY DEF FinishLevel
<1>2. PICK p : levels' = [levels EXCEPT ![Own(t).symbol][Opposite(Own(t).side)] =
                 DropIfEmpty(ReduceTotalQuantity(
                   levels[Own(t).symbol][Opposite(Own(t).side)], p, quantity_to_reduce), p)]
  BY DEF FinishLevel, RemoveLocations
<1>3. TypeOK /\ LinesInv /\ quantity_to_reduce \in Nat
  BY DEF IInv, TypeInv, TypeOK
<1>4. Own(t).symbol \in Symbols /\ Opposite(Own(t).side) \in Sides
  BY <1>1, <1>3, OwnType, RequestType
<1> DEFINE f == levels[Own(t).symbol][Opposite(Own(t).side)]
           h == DropIfEmpty(ReduceTotalQuantity(f, p, quantity_to_reduce), p)
<1>5. IsLevelMap(f)
  BY <1>3, <1>4 DEF TypeOK, LevelsOK
<1>6. IsLevelMap(h) /\ \A q : QueueAt(h, q) = QueueAt(f, q)
  BY <1>3, <1>5, ReduceQueues, DropQueues
<1>7. PICK s0 \in Symbols, d0 \in Sides :
        s0 = Own(t).symbol /\ d0 = Opposite(Own(t).side)
  BY <1>4
<1>8. PICK g : g = h
  OBVIOUS
<1>9. /\ levels' = [levels EXCEPT ![s0][d0] = g]
      /\ IsLevelMap(g) /\ \A q : QueueAt(g, q) = QueueAt(levels[s0][d0], q)
  BY <1>2, <1>6, <1>7, <1>8
<1> HIDE DEF f, h
<1> QED BY <1>1, <1>3, <1>9, SameQueues

(* The pending fills reach the map: a waiting clone and its stored order   *)
(* agree again, and an order that has left the level is stored as filled.  *)
LEMMA FinishIInv ==
  ASSUME IInv, NEW t \in Tasks, FinishLevel(t)
  PROVE  IInv'
<1>1. UNCHANGED <<request, trade_count, resting, writer, pc, work, incoming, trades>>
  BY DEF FinishLevel
<1>2. PICK p : /\ levels' = [levels EXCEPT ![Own(t).symbol][Opposite(Own(t).side)] =
                    DropIfEmpty(ReduceTotalQuantity(
                      levels[Own(t).symbol][Opposite(Own(t).side)], p, quantity_to_reduce), p)]
               /\ order_locations' = [order_locations EXCEPT
                    ![Own(t).symbol] = order_locations[Own(t).symbol] \ orders_to_remove]
               /\ prices' = prices \ {p}
  BY DEF FinishLevel, RemoveLocations
<1>3. /\ pc[t] = "match"
      /\ orders' = StoreFills /\ filled_qty' = NoFills
      /\ orders_to_remove' = {} /\ quantity_to_reduce' = 0
  BY DEF FinishLevel
<1>4. /\ TypeOK /\ Created \subseteq Ids /\ WaitingOrders \subseteq Created
      /\ orders_to_remove \subseteq Created
      /\ orders \in [Ids -> Copy] /\ order_locations \in [Symbols -> SUBSET Created]
      /\ quantity_to_reduce \in Nat /\ Created' = Created
  BY <1>1, CreatedType DEF IInv, TypeInv, TypeOK, WaitingOrders, Created
<1>5. /\ Own(t) \in Request /\ Own(t).symbol \in Symbols /\ Opposite(Own(t).side) \in Sides
  BY <1>3, <1>4, OwnType, RequestType
<1>6. LevelsOK' /\ LinesInv' /\ WaitingOrders' = WaitingOrders
  BY FinishLines
<1>7. \A o \in Created : Waiting(o)' = Waiting(o)
  <2>1. \A o \in Created : /\ Waiting(o) <=> o \in WaitingOrders
                           /\ Waiting(o)' <=> o \in WaitingOrders'
    BY <1>4 DEF WaitingOrders
  <2> QED BY <1>6, <2>1 DEF Waiting
<1>8. ASSUME NEW o \in Ids, filled_qty[o] > 0
      PROVE  /\ o \in Created /\ request[o] \in Request /\ orders'[o] \in Copy
             /\ orders'[o].filled = orders[o].filled + filled_qty[o]
             /\ orders'[o].filled <= request[o].quantity
             /\ orders'[o].status = StatusOf(request[o], orders'[o].filled)
             /\ orders'[o].status \in {"Filled", "PartialFill"}
             /\ orders[o].status \in Active
  <2>1. /\ o \in Created /\ orders[o].status \in Active
        /\ orders[o].filled + filled_qty[o] <= request[o].quantity
    BY <1>8 DEF IInv, PendingInv
  <2>2. orders[o] # Absent
    BY <2>1 DEF Absent, Active
  <2>3. orders'[o] = Fill(request[o], orders[o], filled_qty[o])
    BY <1>3, <1>8, <2>2 DEF StoreFills
  <2>4. request[o] \in Request /\ orders[o] \in Copy /\ filled_qty[o] \in Nat
    BY <1>4, <2>1, CreatedType, CopyType
  <2> QED BY <1>8, <2>1, <2>3, <2>4, FillEffect
<1>9. ASSUME NEW o \in Ids, ~ (filled_qty[o] > 0)
      PROVE  orders'[o] = orders[o] /\ filled_qty[o] = 0
  BY <1>3, <1>4, <1>9, CopyType DEF StoreFills
<1>10. orders' \in [Ids -> Copy] /\ filled_qty' \in [Ids -> Nat] /\ \A o \in Ids : filled_qty'[o] = 0
  <2>1. orders' = [o \in Ids |-> orders'[o]]
    BY <1>3 DEF StoreFills
  <2>2. \A o \in Ids : orders'[o] \in Copy
    BY <1>4, <1>8, <1>9
  <2> QED BY <1>3, <2>1, <2>2 DEF NoFills
<1>11. TypeOK'
  <2>1. order_locations' \in [Symbols -> SUBSET Created]
    BY <1>2, <1>4, <1>5
  <2>2. prices' \subseteq Prices
    BY <1>2, <1>4 DEF TypeOK
  <2> QED BY <1>1, <1>3, <1>4, <1>6, <1>7, <1>10, <2>1, <2>2 DEF TypeOK
<1>12. LockDiscipline' /\ OnlyLimitsRest' /\ IncomingInv'
  BY <1>1 DEF IInv, TypeInv, LockDiscipline, OnlyLimitsRest, IncomingInv, Own
<1>13. StoredInv'
  BY <1>1, <1>4, <1>8, <1>9 DEF IInv, StoredInv
<1>14. WaitingInv'
  <2> SUFFICES ASSUME NEW o \in WaitingOrders
               PROVE  /\ o \in order_locations'[request[o].symbol]
                      /\ orders'[o].status \in Active
                      /\ resting[o].filled = orders'[o].filled + filled_qty'[o]
    BY <1>1, <1>6, <1>7 DEF IInv, WaitingInv
  <2>1. /\ o \in order_locations[request[o].symbol] /\ orders[o].status \in Active
        /\ resting[o].filled < request[o].quantity
        /\ resting[o].filled = orders[o].filled + filled_qty[o]
        /\ o \in Created /\ o \in Ids
    BY <1>4 DEF IInv, WaitingInv
  <2>2. o \notin orders_to_remove
    BY DEF IInv, PendingInv
  <2>3. o \in order_locations'[request[o].symbol]
    BY <1>2, <1>4, <2>1, <2>2, CreatedType, RequestType
  <2>4. orders'[o].filled = resting[o].filled /\ orders'[o].filled \in Nat
    BY <1>4, <1>8, <1>9, <1>10, <2>1, CopyType
  <2>5. orders'[o].status \in Active
    <3>1. CASE filled_qty[o] > 0
      <4>1. ~ (orders'[o].filled >= request[o].quantity)
        BY <1>4, <2>1, <2>4, CreatedType, RequestType
      <4>2. orders'[o].status # "Filled"
        BY <1>8, <2>1, <3>1, <4>1 DEF StatusOf
      <4> QED BY <1>8, <2>1, <3>1, <4>2 DEF Active
    <3>2. CASE ~ (filled_qty[o] > 0)
      BY <1>9, <2>1, <3>2
    <3> QED BY <3>1, <3>2
  <2>6. resting[o].filled = orders'[o].filled + filled_qty'[o]
    BY <1>10, <2>1, <2>4
  <2> QED BY <2>3, <2>5, <2>6
<1>15. PendingInv'
  BY <1>3, <1>10 DEF PendingInv
<1>16. TasksInv'
  <2> SUFFICES ASSUME NEW u \in Tasks
               PROVE  /\ pc[u] \in Submitting => orders'[work[u]] = Absent
                      /\ pc[u] \in {"remove", "mark"} => orders'[work[u]].status # "Absent"
                      /\ pc[u] = "mark" => filled_qty'[work[u]] = 0
    BY <1>1, <1>6, <1>7 DEF IInv, TasksInv
  <2>1. pc[u] # "idle" => work[u] \in Ids
    BY <1>4, OwnType
  <2>2. pc[u] \in Submitting => orders[work[u]] = Absent /\ "idle" \notin Submitting
    BY DEF IInv, TasksInv, Submitting
  <2>3. pc[u] \in Submitting => ~ (filled_qty[work[u]] > 0)
    BY <1>8, <2>1, <2>2 DEF Absent, Active
  <2>4. pc[u] \in {"remove", "mark"} => orders'[work[u]].status # "Absent"
    BY <1>8, <1>9, <2>1 DEF IInv, TasksInv
  <2> QED BY <1>9, <1>10, <2>1, <2>2, <2>3, <2>4
<1>17. NothingLost'
  <2> SUFFICES ASSUME NEW o \in Created, orders'[o].status \in Active
               PROVE  \/ Waiting(o)
                      \/ \E u \in Tasks : pc[u] = "mark" /\ work[u] = o
    BY <1>1, <1>4, <1>6, <1>7 DEF NothingLost
  <2>1. o \in Ids /\ orders[o].status \in Active
    BY <1>4, <1>8, <1>9
  <2>2. o \notin orders_to_remove
    <3> SUFFICES ASSUME o \in orders_to_remove  PROVE FALSE
      OBVIOUS
    <3>1. filled_qty[o] > 0 /\ orders[o].filled + filled_qty[o] = request[o].quantity
      BY DEF IInv, PendingInv
    <3>2. orders'[o].filled >= request[o].quantity
      BY <1>8, <2>1, <3>1, RequestType
    <3>3. orders'[o].status = "Filled"
      BY <1>8, <2>1, <3>1, <3>2 DEF StatusOf
    <3> QED BY <3>3 DEF Active
  <2> QED BY <2>1, <2>2 DEF IInv, NothingLost
<1> QED BY <1>6, <1>7, <1>11, <1>12, <1>13, <1>14, <1>15, <1>16, <1>17 DEF IInv, TypeInv

(* What a trade does: task t fills n of order o, at the front of the line  *)
(* at price p of side d0 of s0; the clone of o is popped if that fills it. *)
TradeFills(t, s0, d0, p, o, n, popped) ==
  /\ s0 = Own(t).symbol /\ d0 = Opposite(Own(t).side) /\ p = BestPrice(Own(t))
  /\ Line(s0, d0, p) # << >> /\ o = Head(Line(s0, d0, p))
  /\ n = FillQuantity(Own(t), o) /\ n > 0
  /\ incoming.filled + n <= Own(t).quantity
  /\ resting[o].filled + n <= request[o].quantity
  /\ popped <=> resting[o].filled + n = request[o].quantity
  /\ incoming' = Fill(Own(t), incoming, n)
  /\ resting' = [resting EXCEPT ![o] = IF popped THEN Absent
                                        ELSE Fill(request[o], resting[o], n)]
  /\ filled_qty' = [filled_qty EXCEPT ![o] = filled_qty[o] + n]
  /\ quantity_to_reduce' = quantity_to_reduce + n
  /\ trades' = trades + 1
  /\ orders_to_remove' = IF popped THEN orders_to_remove \cup {o} ELSE orders_to_remove
  /\ levels' = IF popped
               THEN [levels EXCEPT ![s0][d0] = PopFront(levels[s0][d0], p)]
               ELSE levels
  /\ LevelsOK' /\ LinesInv'
  /\ Lines' = IF popped THEN [Lines EXCEPT ![s0][d0][p] = Tail(Line(s0, d0, p))] ELSE Lines
  /\ WaitingOrders' = IF popped THEN WaitingOrders \ {o} ELSE WaitingOrders

(* What a trade changes.                                                   *)
LEMMA TradeEffect ==
  ASSUME IInv, NEW t \in Tasks, Trade(t)
  PROVE  \E s0 \in Symbols, d0 \in Sides, p \in Prices, o \in WaitingOrders,
            n \in Nat, popped \in BOOLEAN : TradeFills(t, s0, d0, p, o, n, popped)
<1>1. UNCHANGED <<request, orders, trade_count, order_locations, writer, pc, work, prices>>
  BY DEF Trade
<1>2. pc[t] = "match" /\ ~ IsFilled(Own(t), incoming)
  BY DEF Trade
<1>3. /\ TypeOK /\ LinesInv /\ Created \subseteq Ids /\ Ids \subseteq Nat
      /\ WaitingOrders \subseteq Created /\ orders_to_remove \subseteq Created
      /\ resting \in [Ids -> Copy] /\ filled_qty \in [Ids -> Nat] /\ incoming \in Copy
      /\ quantity_to_reduce \in Nat /\ trades \in Nat /\ Created' = Created
      /\ Own(t) \in Request /\ work[t] \in Created
  BY <1>1, <1>2, CreatedType, OwnType DEF IInv, TypeInv, TypeOK, WaitingOrders, Created
<1>4. PICK s0 \in Symbols, d0 \in Sides : s0 = Own(t).symbol /\ d0 = Opposite(Own(t).side)
  BY <1>3, RequestType
<1>5. PICK p : p = BestPrice(Own(t))
  OBVIOUS
<1> DEFINE queue == QueueAt(levels[s0][d0], p)
<1>6. /\ queue # << >> /\ queue = Line(s0, d0, p) /\ queue \in Seq(Nat) /\ p \in Prices
      /\ IsLevelMap(levels[s0][d0])
  <2>1. queue # << >>
    BY <1>4, <1>5 DEF Trade, Against
  <2>2. IsLevelMap(levels[s0][d0])
    BY <1>3 DEF TypeOK, LevelsOK
  <2> QED BY <2>1, <2>2, LevelType DEF Line
<1>7. IsInjective(queue)
  BY <1>3, <1>6 DEF LinesInv
<1>8. PICK o \in WaitingOrders : o = Head(queue)
  BY <1>3, <1>6, <1>7, TailSet, InLine
<1>9. o \in ToSet(queue) /\ o \in Created /\ o \in Ids
  BY <1>3, <1>6, <1>7, <1>8, TailSet
<1>10. /\ request[o] \in Request /\ request[o].quantity \in Nat /\ Own(t).quantity \in Nat
       /\ request[o].symbol = s0 /\ request[o].side = d0 /\ request[o].price = p
       /\ orders[o].filled \in Nat /\ resting[o] \in Copy /\ resting[o].filled \in Nat
       /\ filled_qty[o] \in Nat /\ incoming.filled \in Nat
       /\ orders[o].status \in Active
       /\ resting[o].filled < request[o].quantity
       /\ resting[o].filled = orders[o].filled + filled_qty[o]
       /\ incoming.filled < Own(t).quantity
  BY <1>2, <1>3, <1>6, <1>8, <1>9, CreatedType, RequestType, CopyType
  DEF IInv, LinesInv, WaitingInv, IsFilled
<1>11. PICK n \in Nat : n = FillQuantity(Own(t), o)
  BY <1>10, RequestType DEF FillQuantity, Smaller, RemainingQuantity, SaturatingSub
<1>12. /\ n > 0
       /\ incoming.filled + n <= Own(t).quantity
       /\ resting[o].filled + n <= request[o].quantity
  BY <1>10, <1>11 DEF FillQuantity, Smaller, RemainingQuantity, SaturatingSub
<1>13. PICK maker \in Copy :
         /\ maker = Fill(request[o], resting[o], n)
         /\ maker.filled = resting[o].filled + n
         /\ maker.status = StatusOf(request[o], resting[o].filled + n)
  BY <1>10, <1>12, FillEffect
<1>14. PICK popped \in BOOLEAN : popped <=> IsFilled(request[o], maker)
  OBVIOUS
<1>15. popped <=> resting[o].filled + n = request[o].quantity
  BY <1>10, <1>12, <1>13, <1>14 DEF IsFilled
<1>16. /\ incoming' = Fill(Own(t), incoming, n)
       /\ resting' = [resting EXCEPT ![o] = IF popped THEN Absent ELSE Fill(request[o], resting[o], n)]
       /\ filled_qty' = [filled_qty EXCEPT ![o] = filled_qty[o] + n]
       /\ quantity_to_reduce' = quantity_to_reduce + n
       /\ trades' = trades + 1
       /\ orders_to_remove' = IF popped THEN orders_to_remove \cup {o} ELSE orders_to_remove
       /\ levels' = IF popped
                    THEN [levels EXCEPT ![s0][d0] = PopFront(levels[s0][d0], p)]
                    ELSE levels
  BY <1>4, <1>5, <1>8, <1>11, <1>13, <1>14 DEF Trade, Against
<1>17. /\ LevelsOK' /\ LinesInv'
       /\ Lines' = IF popped THEN [Lines EXCEPT ![s0][d0][p] = Tail(queue)] ELSE Lines
       /\ WaitingOrders' = IF popped THEN WaitingOrders \ {o} ELSE WaitingOrders
  <2>1. CASE popped
    <3> DEFINE h == PopFront(levels[s0][d0], p)
    <3>1. /\ IsLevelMap(h) /\ QueueAt(h, p) = Tail(queue)
          /\ \A q : q # p => QueueAt(h, q) = QueueAt(levels[s0][d0], q)
      BY <1>6, PopQueues
    <3>2. /\ ToSet(Tail(queue)) = ToSet(queue) \ {o} /\ IsInjective(Tail(queue))
      BY <1>6, <1>7, <1>8, TailSet
    <3>3. /\ ToSet(queue) \subseteq Created /\ ToSet(queue) \subseteq WaitingOrders
          /\ \A q \in ToSet(queue) :
               request[q].symbol = s0 /\ request[q].side = d0 /\ request[q].price = p
      BY <1>3, <1>6, InLine DEF LinesInv
    <3>4. PICK g : g = h
      OBVIOUS
    <3>5. /\ levels' = [levels EXCEPT ![s0][d0] = g]
          /\ IsLevelMap(g) /\ QueueAt(g, p) = Tail(queue)
          /\ \A q : q # p => QueueAt(g, q) = QueueAt(levels[s0][d0], q)
      BY <1>16, <2>1, <3>1, <3>4
    <3> HIDE DEF h
    <3>6. /\ ToSet(QueueAt(g, p)) = ToSet(queue) \ {o} /\ IsInjective(QueueAt(g, p))
          /\ ToSet(QueueAt(g, p)) \subseteq Created
          /\ \A q \in ToSet(QueueAt(g, p)) :
               request[q].symbol = s0 /\ request[q].side = d0 /\ request[q].price = p
      BY <3>2, <3>3, <3>5
    <3>7. /\ LevelsOK' /\ LinesInv'
          /\ Lines' = [Lines EXCEPT ![s0][d0][p] = QueueAt(g, p)]
          /\ WaitingOrders' = (WaitingOrders \ ToSet(Line(s0, d0, p))) \cup ToSet(QueueAt(g, p))
      <4> HIDE DEF queue
      <4> QED BY <1>1, <1>3, <1>6, <3>5, <3>6, ChangedLine
    <3> QED BY <1>6, <1>9, <2>1, <3>3, <3>5, <3>6, <3>7
  <2>2. CASE ~ popped
    BY <1>1, <1>3, <1>16, <2>2, SameLines DEF TypeOK
  <2> QED BY <2>1, <2>2
<1>18. /\ Line(s0, d0, p) # << >> /\ o = Head(Line(s0, d0, p))
       /\ Lines' = IF popped THEN [Lines EXCEPT ![s0][d0][p] = Tail(Line(s0, d0, p))]
                   ELSE Lines
  BY <1>6, <1>8, <1>17
<1> HIDE DEF queue
<1>19. TradeFills(t, s0, d0, p, o, n, popped)
  BY <1>4, <1>5, <1>11, <1>12, <1>15, <1>16, <1>17, <1>18 DEF TradeFills
<1> QED BY <1>6, <1>19

(* A trade fills both orders by the same amount, that neither lacks; the   *)
(* maker leaves its line exactly when it is filled.                        *)
LEMMA TradeIInv ==
  ASSUME IInv, NEW t \in Tasks, Trade(t)
  PROVE  IInv'
<1>1. UNCHANGED <<request, orders, trade_count, order_locations, writer, pc, work, prices>>
  BY DEF Trade
<1>2. pc[t] = "match"
  BY DEF Trade
<1>3. /\ TypeOK /\ LinesInv /\ Created \subseteq Ids /\ Ids \subseteq Nat
      /\ WaitingOrders \subseteq Created /\ orders_to_remove \subseteq Created
      /\ resting \in [Ids -> Copy] /\ filled_qty \in [Ids -> Nat] /\ incoming \in Copy
      /\ quantity_to_reduce \in Nat /\ trades \in Nat /\ Created' = Created
      /\ Own(t) \in Request /\ work[t] \in Created
  BY <1>1, <1>2, CreatedType, OwnType DEF IInv, TypeInv, TypeOK, WaitingOrders, Created
<1>4. PICK s0 \in Symbols, d0 \in Sides, p \in Prices, o \in WaitingOrders,
           n \in Nat, popped \in BOOLEAN : TradeFills(t, s0, d0, p, o, n, popped)
  BY TradeEffect
<1>5. /\ n > 0 /\ incoming.filled + n <= Own(t).quantity
      /\ resting[o].filled + n <= request[o].quantity
  BY <1>4 DEF TradeFills
<1>6. /\ o \in Created /\ o \in Ids /\ request[o] \in Request /\ request[o].quantity \in Nat
      /\ Own(t).quantity \in Nat /\ orders[o].filled \in Nat
      /\ resting[o] \in Copy /\ resting[o].filled \in Nat
      /\ filled_qty[o] \in Nat /\ incoming.filled \in Nat
      /\ orders[o].status \in Active
      /\ resting[o].filled < request[o].quantity
      /\ resting[o].filled = orders[o].filled + filled_qty[o]
  BY <1>3, CreatedType, RequestType, CopyType DEF IInv, WaitingInv
<1>7. PICK maker \in Copy :
        /\ maker = Fill(request[o], resting[o], n)
        /\ maker.filled = resting[o].filled + n
        /\ maker.status = StatusOf(request[o], resting[o].filled + n)
  <2>1. /\ Fill(request[o], resting[o], n) \in Copy
        /\ Fill(request[o], resting[o], n).filled = resting[o].filled + n
        /\ Fill(request[o], resting[o], n).status = StatusOf(request[o], resting[o].filled + n)
    BY <1>5, <1>6, FillEffect
  <2> QED BY <2>1
<1>8. popped <=> resting[o].filled + n = request[o].quantity
  BY <1>4 DEF TradeFills
<1>9. /\ incoming' = Fill(Own(t), incoming, n)
      /\ resting' = [resting EXCEPT ![o] = IF popped THEN Absent ELSE maker]
      /\ filled_qty' = [filled_qty EXCEPT ![o] = filled_qty[o] + n]
      /\ quantity_to_reduce' = quantity_to_reduce + n
      /\ trades' = trades + 1
      /\ orders_to_remove' = IF popped THEN orders_to_remove \cup {o} ELSE orders_to_remove
  BY <1>4, <1>7 DEF TradeFills
<1>10. /\ LevelsOK' /\ LinesInv'
       /\ WaitingOrders' = IF popped THEN WaitingOrders \ {o} ELSE WaitingOrders
  BY <1>4 DEF TradeFills
<1>11. /\ resting' \in [Ids -> Copy] /\ filled_qty' \in [Ids -> Nat]
       /\ filled_qty'[o] = filled_qty[o] + n
       /\ ~ popped => resting'[o] = maker
       /\ \A q \in Ids : q # o => resting'[q] = resting[q] /\ filled_qty'[q] = filled_qty[q]
  <2>1. Absent \in Copy
    BY DEF Absent, Copy
  <2> QED BY <1>3, <1>6, <1>9, <2>1
<1>12. /\ incoming' \in Copy /\ incoming'.filled = incoming.filled + n
       /\ incoming'.status = StatusOf(Own(t), incoming'.filled)
  BY <1>3, <1>5, <1>9, FillEffect
<1>13. /\ \A u \in Tasks : Own(u)' = Own(u)
       /\ \A u \in Tasks \ {t} : pc[u] \notin {"match", "store"}
  BY <1>1, <1>2, OneHolder DEF Own
<1>14. TypeOK'
  <2>1. quantity_to_reduce' \in Nat /\ trades' \in Nat
    BY <1>3, <1>9
  <2>2. orders_to_remove' = orders_to_remove \cup {o} \/ orders_to_remove' = orders_to_remove
    BY <1>9
  <2>3. orders_to_remove' \subseteq Created
    BY <1>3, <1>6, <2>2
  <2> QED BY <1>1, <1>3, <1>10, <1>11, <1>12, <2>1, <2>3 DEF TypeOK
<1>15. LockDiscipline'
  BY <1>1 DEF IInv, TypeInv, LockDiscipline
<1>16. OnlyLimitsRest' /\ IncomingInv'
  BY <1>1, <1>2, <1>5, <1>12, <1>13 DEF OnlyLimitsRest, IncomingInv
<1>17. StoredInv'
  BY <1>1, <1>3 DEF IInv, StoredInv
<1>18. WaitingInv'
  <2> SUFFICES ASSUME NEW q \in WaitingOrders'
               PROVE  /\ q \in order_locations[request[q].symbol]
                      /\ orders[q].status \in Active
                      /\ resting'[q].filled < request[q].quantity
                      /\ resting'[q].status = StatusOf(request[q], resting'[q].filled)
                      /\ resting'[q].filled = orders[q].filled + filled_qty'[q]
    BY <1>1 DEF WaitingInv
  <2>1. q \in WaitingOrders /\ q \in Ids
    BY <1>3, <1>10
  <2>2. CASE q = o
    <3>1. ~ popped
      BY <1>10, <2>2
    <3> QED BY <1>5, <1>6, <1>7, <1>8, <1>11, <2>1, <2>2, <3>1 DEF IInv, WaitingInv
  <2>3. CASE q # o
    BY <1>11, <2>1, <2>3 DEF IInv, WaitingInv
  <2> QED BY <2>2, <2>3
<1>19. PendingInv'
  <2>1. \A q \in Ids : filled_qty'[q] <= quantity_to_reduce'
    BY <1>3, <1>6, <1>9, <1>11 DEF IInv, PendingInv
  <2>2. ASSUME NEW q \in Ids, filled_qty'[q] > 0
        PROVE  /\ q \in Created /\ orders[q].status \in Active
               /\ orders[q].filled + filled_qty'[q] <= request[q].quantity
    <3>1. CASE q = o
      BY <1>5, <1>6, <1>11, <3>1
    <3>2. CASE q # o
      BY <1>11, <2>2, <3>2 DEF IInv, PendingInv
    <3> QED BY <3>1, <3>2
  <2>3. ASSUME NEW q \in orders_to_remove'
        PROVE  /\ q \notin WaitingOrders' /\ filled_qty'[q] > 0
               /\ orders[q].filled + filled_qty'[q] = request[q].quantity
    <3>1. CASE q = o
      <4>1. popped
        BY <1>9, <2>3, <3>1 DEF IInv, PendingInv
      <4> QED BY <1>5, <1>6, <1>8, <1>10, <1>11, <3>1, <4>1
    <3>2. CASE q # o
      <4>1. q \in orders_to_remove /\ q \in Ids
        BY <1>3, <1>9, <2>3, <3>2
      <4> QED BY <1>10, <1>11, <3>2, <4>1 DEF IInv, PendingInv
    <3> QED BY <3>1, <3>2
  <2> QED BY <1>1, <1>2, <1>3, <2>1, <2>2, <2>3 DEF PendingInv
<1>20. TasksInv'
  <2> SUFFICES ASSUME NEW u \in Tasks, pc[u] = "mark"
               PROVE  work[u] \notin WaitingOrders' /\ filled_qty'[work[u]] = 0
    BY <1>1 DEF IInv, TasksInv, Submitting
  <2>1. work[u] \notin WaitingOrders /\ filled_qty[work[u]] = 0 /\ work[u] \in Ids
    BY <1>3, OwnType DEF IInv, TasksInv
  <2>2. work[u] # o
    BY <2>1
  <2> QED BY <1>10, <1>11, <2>1, <2>2
<1>21. NothingLost'
  <2> SUFFICES ASSUME NEW q \in Created, orders[q].status \in Active
               PROVE  \/ Waiting(q)' \/ q \in orders_to_remove'
                      \/ \E u \in Tasks : pc[u] = "mark" /\ work[u] = q
    BY <1>1, <1>3 DEF NothingLost
  <2>1. /\ Waiting(q) <=> q \in WaitingOrders
        /\ Waiting(q)' <=> q \in WaitingOrders'
    BY <1>3 DEF WaitingOrders
  <2>2. CASE q = o
    BY <1>9, <1>10, <2>1, <2>2
  <2>3. CASE q # o
    BY <1>9, <1>10, <2>1, <2>3 DEF IInv, NothingLost
  <2> QED BY <2>2, <2>3
<1> QED BY <1>10, <1>14, <1>15, <1>16, <1>17, <1>18, <1>19, <1>20, <1>21 DEF IInv, TypeInv

(* How the order m of task t comes to wait, with n left to fill.           *)
OrderRests(t, s0, d0, p0, m, n) ==
  /\ m = work[t] /\ s0 = request[m].symbol /\ d0 = request[m].side /\ p0 = request[m].price
  /\ n = RemainingQuantity(Own(t), incoming)
  /\ levels' = [levels EXCEPT ![s0][d0] = AddOrder(levels[s0][d0], p0, m, n)]
  /\ order_locations' = [order_locations EXCEPT ![s0] = order_locations[s0] \cup {m}]
  /\ resting' = [resting EXCEPT ![m] = incoming]
  /\ orders' = [orders EXCEPT ![m] = incoming]
  /\ LevelsOK' /\ LinesInv' /\ WaitingOrders' = WaitingOrders \cup {m}
  /\ Lines' = [Lines EXCEPT ![s0][d0][p0] = Append(Line(s0, d0, p0), m)]

(* What joining the book changes.                                          *)
LEMMA StoreRestingEffect ==
  ASSUME IInv, NEW t \in Tasks, StoreResting(t)
  PROVE  \E s0 \in Symbols, d0 \in Sides, p0 \in Prices, m \in Ids, n \in Nat :
            OrderRests(t, s0, d0, p0, m, n)
<1>1. UNCHANGED <<request, trade_count, prices, filled_qty, orders_to_remove,
                  quantity_to_reduce, trades>>
  BY DEF StoreResting
<1>2. pc[t] = "store" /\ ~ IsFilled(Own(t), incoming) /\ Release(t)
  BY DEF StoreResting
<1>3. /\ TypeOK /\ LinesInv /\ Created \subseteq Ids /\ Ids \subseteq Nat
      /\ WaitingOrders \subseteq Created /\ Created' = Created
      /\ orders \in [Ids -> Copy] /\ resting \in [Ids -> Copy] /\ incoming \in Copy
      /\ order_locations \in [Symbols -> SUBSET Created]
  BY <1>1, CreatedType DEF IInv, TypeInv, TypeOK, WaitingOrders, Created
<1>4. PICK m \in Ids : m = work[t]
  BY <1>2, Storing
<1>5. /\ m \in Created /\ m \in Nat /\ m \notin WaitingOrders
      /\ \A u \in Tasks \ {t} : work[u] # m
      /\ Own(t) = request[m] /\ request[m] \in Request /\ request[m].quantity \in Nat
      /\ filled_qty[m] = 0 /\ orders_to_remove = {}
  BY <1>2, <1>4, Storing, RequestType DEF Own
<1>6. PICK s0 \in Symbols, d0 \in Sides, p0 \in Prices :
        s0 = request[m].symbol /\ d0 = request[m].side /\ p0 = request[m].price
  <2>1. request[m].order_type # "Market"
    BY <1>2, <1>5 DEF IInv, TypeInv, OnlyLimitsRest
  <2> QED BY <1>5, <2>1, RequestType DEF OrderTypes
<1>7. PICK n \in Nat : n = RemainingQuantity(Own(t), incoming)
  BY <1>3, <1>5, SaturatingSubType DEF RemainingQuantity, Copy
<1>8. /\ levels' = [levels EXCEPT ![s0][d0] = AddOrder(levels[s0][d0], p0, m, n)]
      /\ order_locations' = [order_locations EXCEPT ![s0] = order_locations[s0] \cup {m}]
      /\ resting' = [resting EXCEPT ![m] = incoming]
      /\ orders' = [orders EXCEPT ![m] = incoming]
  BY <1>4, <1>5, <1>6, <1>7 DEF StoreResting, StoreOrder
<1>9. /\ LevelsOK' /\ LinesInv' /\ WaitingOrders' = WaitingOrders \cup {m}
      /\ Lines' = [Lines EXCEPT ![s0][d0][p0] = Append(Line(s0, d0, p0), m)]
  <2>1. PICK f : f = levels[s0][d0] /\ IsLevelMap(f)
    BY <1>3 DEF TypeOK, LevelsOK
  <2>2. PICK g : g = AddOrder(f, p0, m, n)
    OBVIOUS
  <2>3. /\ QueueAt(f, p0) = Line(s0, d0, p0)
        /\ IsInjective(Line(s0, d0, p0))
        /\ ToSet(Line(s0, d0, p0)) \subseteq Created
        /\ ToSet(Line(s0, d0, p0)) \subseteq WaitingOrders
        /\ \A o \in ToSet(Line(s0, d0, p0)) :
             request[o].symbol = s0 /\ request[o].side = d0 /\ request[o].price = p0
    BY <1>3, <2>1, InLine DEF LinesInv, Line
  <2>4. m \in Nat /\ m \notin ToSet(QueueAt(f, p0)) /\ IsInjective(QueueAt(f, p0))
    BY <1>5, <2>3
  <2>5. /\ IsLevelMap(g) /\ IsInjective(QueueAt(g, p0))
        /\ QueueAt(g, p0) = Append(Line(s0, d0, p0), m)
        /\ ToSet(QueueAt(g, p0)) = ToSet(Line(s0, d0, p0)) \cup {m}
        /\ \A q : q # p0 => QueueAt(g, q) = QueueAt(f, q)
    BY <2>1, <2>2, <2>3, <2>4, AddQueues
  <2>6. /\ ToSet(QueueAt(g, p0)) \subseteq Created
        /\ \A o \in ToSet(QueueAt(g, p0)) :
             request[o].symbol = s0 /\ request[o].side = d0 /\ request[o].price = p0
    BY <1>5, <1>6, <2>3, <2>5
  <2>7. /\ LevelsOK' /\ LinesInv'
        /\ Lines' = [Lines EXCEPT ![s0][d0][p0] = QueueAt(g, p0)]
        /\ WaitingOrders' = (WaitingOrders \ ToSet(Line(s0, d0, p0))) \cup ToSet(QueueAt(g, p0))
    <3>1. /\ levels' = [levels EXCEPT ![s0][d0] = g]
          /\ \A q : q # p0 => QueueAt(g, q) = QueueAt(levels[s0][d0], q)
      BY <1>8, <2>1, <2>2, <2>5
    <3> QED BY <1>1, <1>3, <2>5, <2>6, <3>1, ChangedLine
  <2> QED BY <2>3, <2>5, <2>7
<1>10. OrderRests(t, s0, d0, p0, m, n)
  BY <1>4, <1>6, <1>7, <1>8, <1>9 DEF OrderRests
<1> QED BY <1>10

(* What is left of a limit order waits at the end of its own line, and is  *)
(* stored as it waits.                                                     *)
LEMMA StoreRestingIInv ==
  ASSUME IInv, NEW t \in Tasks, StoreResting(t)
  PROVE  IInv'
<1>1. UNCHANGED <<request, trade_count, prices, filled_qty, orders_to_remove,
                  quantity_to_reduce, trades>>
  BY DEF StoreResting
<1>2. pc[t] = "store" /\ ~ IsFilled(Own(t), incoming) /\ Release(t)
  BY DEF StoreResting
<1>3. /\ TypeOK /\ LinesInv /\ Created \subseteq Ids /\ Ids \subseteq Nat
      /\ WaitingOrders \subseteq Created /\ Created' = Created
      /\ orders \in [Ids -> Copy] /\ resting \in [Ids -> Copy] /\ incoming \in Copy
      /\ order_locations \in [Symbols -> SUBSET Created]
  BY <1>1, CreatedType DEF IInv, TypeInv, TypeOK, WaitingOrders, Created
<1>4. PICK s0 \in Symbols, d0 \in Sides, p0 \in Prices, m \in Ids, n \in Nat :
        OrderRests(t, s0, d0, p0, m, n)
  BY StoreRestingEffect
<1>5. /\ m \in Created /\ m \in Nat /\ m \notin WaitingOrders
      /\ \A u \in Tasks \ {t} : work[u] # m
      /\ Own(t) = request[m] /\ request[m] \in Request /\ request[m].quantity \in Nat
      /\ filled_qty[m] = 0 /\ orders_to_remove = {}
  BY <1>2, <1>4, Storing, RequestType DEF Own, OrderRests
<1>6. s0 = request[m].symbol
  BY <1>4 DEF OrderRests
<1>7. /\ order_locations' = [order_locations EXCEPT ![s0] = order_locations[s0] \cup {m}]
      /\ resting' = [resting EXCEPT ![m] = incoming]
      /\ orders' = [orders EXCEPT ![m] = incoming]
  BY <1>4 DEF OrderRests
<1>8. LevelsOK' /\ LinesInv' /\ WaitingOrders' = WaitingOrders \cup {m}
  BY <1>4 DEF OrderRests
<1>9. /\ orders' \in [Ids -> Copy] /\ orders'[m] = incoming
      /\ resting' \in [Ids -> Copy] /\ resting'[m] = incoming
      /\ \A o \in Ids : o # m => orders'[o] = orders[o] /\ resting'[o] = resting[o]
  BY <1>3, <1>7
<1>10. /\ order_locations' \in [Symbols -> SUBSET Created] /\ m \in order_locations'[s0]
       /\ \A s \in Symbols : order_locations[s] \subseteq order_locations'[s]
  BY <1>3, <1>5, <1>7
<1>11. /\ incoming.filled < request[m].quantity
       /\ incoming.status = StatusOf(request[m], incoming.filled)
       /\ incoming.status \in Active /\ incoming.filled \in Nat
  BY <1>2, <1>3, <1>5 DEF IInv, IncomingInv, IsFilled, StatusOf, Active, Copy
<1>12. TypeOK'
  BY <1>1, <1>2, <1>3, <1>8, <1>9, <1>10, Released, EngineAssumption
  DEF TypeOK, EngineAssumption
<1>13. LockDiscipline' /\ OnlyLimitsRest' /\ IncomingInv'
  BY <1>1, <1>2, Released
<1>14. StoredInv'
  <2>1. /\ incoming.filled <= request[m].quantity
        /\ incoming.status = StatusOf(request[m], incoming.filled)
    BY <1>5, <1>11
  <2>2. \A o \in Created : o # m => orders'[o] = orders[o]
    BY <1>3, <1>9
  <2>3. \A o \in Ids \ Created : orders'[o] = orders[o]
    BY <1>5, <1>9
  <2> QED BY <1>1, <1>3, <1>9, <2>1, <2>2, <2>3 DEF IInv, StoredInv
<1>15. WaitingInv'
  <2> SUFFICES ASSUME NEW o \in WaitingOrders'
               PROVE  /\ o \in order_locations'[request[o].symbol]
                      /\ orders'[o].status \in Active
                      /\ resting'[o].filled < request[o].quantity
                      /\ resting'[o].status = StatusOf(request[o], resting'[o].filled)
                      /\ resting'[o].filled = orders'[o].filled + filled_qty[o]
    BY <1>1 DEF WaitingInv
  <2>1. CASE o = m
    BY <1>5, <1>6, <1>9, <1>10, <1>11, <2>1
  <2>2. CASE o # m
    <3>1. o \in WaitingOrders /\ o \in Created /\ o \in Ids /\ request[o].symbol \in Symbols
      BY <1>3, <1>8, <2>2, CreatedType, RequestType
    <3> QED BY <1>9, <1>10, <2>2, <3>1 DEF IInv, WaitingInv
  <2> QED BY <2>1, <2>2
<1>16. PendingInv'
  BY <1>1, <1>2, Storing DEF PendingInv
<1>17. TasksInv'
  <2> SUFFICES ASSUME NEW u \in Tasks \ {t}
               PROVE  /\ pc[u] \in Submitting => orders'[work[u]] = Absent
                      /\ pc[u] \in {"remove", "mark"} => orders'[work[u]].status # "Absent"
                      /\ pc[u] = "mark" => work[u] \notin WaitingOrders'
    BY <1>1, <1>2, Released DEF IInv, TasksInv, Submitting
  <2>1. pc[u] # "idle" => work[u] \in Ids
    BY <1>3, OwnType
  <2> QED BY <1>5, <1>8, <1>9, <2>1 DEF IInv, TasksInv, Submitting
<1>18. NothingLost'
  <2> SUFFICES ASSUME NEW o \in Created, orders'[o].status \in Active, o \notin WaitingOrders'
               PROVE  \E u \in Tasks : pc'[u] = "mark" /\ work'[u] = o
    BY <1>3 DEF NothingLost, WaitingOrders
  <2>1. o # m /\ orders[o].status \in Active /\ o \notin WaitingOrders
    BY <1>3, <1>8, <1>9
  <2>2. PICK u \in Tasks : pc[u] = "mark" /\ work[u] = o
    BY <1>5, <2>1 DEF IInv, NothingLost, WaitingOrders
  <2>3. u # t
    BY <1>2, <2>2
  <2>4. pc'[u] = pc[u] /\ work'[u] = work[u]
    BY <1>1, <1>2, <2>3, Released
  <2> QED BY <2>2, <2>4
<1> QED BY <1>8, <1>12, <1>13, <1>14, <1>15, <1>16, <1>17, <1>18 DEF IInv, TypeInv

(* How task t takes the order m, with n left to fill, out of its book.     *)
OrderLeaves(t, s0, d0, m, n) ==
  /\ m = work[t] /\ s0 = request[m].symbol /\ d0 = request[m].side
  /\ n = RemainingQuantity(request[m], resting[m])
  /\ levels' = [levels EXCEPT ![s0][d0] =
                   RemoveOrder(levels[s0][d0], request[m].price, m, n)]
  /\ order_locations' = [order_locations EXCEPT ![s0] = order_locations[s0] \ {m}]
  /\ resting' = [resting EXCEPT ![m] = Absent]
  /\ LevelsOK' /\ LinesInv' /\ WaitingOrders' = WaitingOrders \ {m}
  /\ m \notin WaitingOrders => Lines' = Lines
  /\ m \in WaitingOrders => \E k \in 1 .. Len(OwnLine(m)) :
       /\ OwnLine(m)[k] = m
       /\ Lines' = [Lines EXCEPT ![s0][d0][request[m].price] = Market!Without(OwnLine(m), k)]

(* What a removal changes.                                                 *)
LEMMA RemoveEffect ==
  ASSUME IInv, NEW t \in Tasks, CancelRemove(t)
  PROVE  \E s0 \in Symbols, d0 \in Sides, m \in Ids, n \in Nat :
            OrderLeaves(t, s0, d0, m, n)
<1>1. UNCHANGED <<request, orders, trade_count, writer, work, incoming, prices, filled_qty,
                  orders_to_remove, quantity_to_reduce, trades>>
  BY DEF CancelRemove, locals
<1>2. pc[t] = "remove" /\ writer = NoTask /\ pc' = [pc EXCEPT ![t] = "mark"]
  BY DEF CancelRemove, Goto
<1>3. /\ TypeOK /\ LinesInv /\ Created \subseteq Ids /\ Ids \subseteq Nat
      /\ WaitingOrders \subseteq Created /\ Created' = Created
      /\ pc \in [Tasks -> Places] /\ resting \in [Ids -> Copy]
      /\ order_locations \in [Symbols -> SUBSET Created]
      /\ \A q \in Created : request[q] \in Request
  BY <1>1, CreatedType DEF IInv, TypeInv, TypeOK, WaitingOrders, Created
<1>4. PICK m \in Ids : m = work[t]
  BY <1>2, <1>3, OwnType
<1>5. /\ m \in Created /\ m \in Nat /\ Own(t) = request[m] /\ request[m] \in Request
  BY <1>2, <1>3, <1>4, OwnType DEF Own
<1>6. PICK s0 \in Symbols, d0 \in Sides :
        s0 = request[m].symbol /\ d0 = request[m].side
  BY <1>5, RequestType
<1>7. PICK n \in Nat : n = RemainingQuantity(request[m], resting[m])
  BY <1>3, <1>5, RequestType, SaturatingSubType, CopyType DEF RemainingQuantity
<1>8. /\ levels' = [levels EXCEPT ![s0][d0] =
                      RemoveOrder(levels[s0][d0], request[m].price, m, n)]
      /\ order_locations' = [order_locations EXCEPT ![s0] = order_locations[s0] \ {m}]
      /\ resting' = [resting EXCEPT ![m] = Absent]
  BY <1>4, <1>5, <1>6, <1>7 DEF CancelRemove
<1>9. PICK f, g : /\ f = levels[s0][d0] /\ IsLevelMap(f)
                  /\ g = RemoveOrder(f, request[m].price, m, n)
                  /\ levels' = [levels EXCEPT ![s0][d0] = g]
  <2>1. IsLevelMap(levels[s0][d0])
    BY <1>3 DEF TypeOK, LevelsOK
  <2> QED BY <1>8, <2>1
<1>10. /\ OwnLine(m) = QueueAt(f, request[m].price)
       /\ m \in WaitingOrders <=> m \in ToSet(OwnLine(m))
  BY <1>5, <1>6, <1>9 DEF WaitingOrders, Waiting, OwnLine, Line
<1>11. CASE m \notin WaitingOrders
  <2>1. g = f
    BY <1>9, <1>10, <1>11 DEF RemoveOrder
  <2>2. LevelsOK' /\ LinesInv' /\ WaitingOrders' = WaitingOrders /\ Lines' = Lines
    BY <1>1, <1>3, <1>9, <2>1, SameQueues
  <2>3. OrderLeaves(t, s0, d0, m, n)
    BY <1>4, <1>6, <1>7, <1>8, <1>11, <2>2 DEF OrderLeaves
  <2> QED BY <2>3
<1>12. CASE m \in WaitingOrders
  <2>1. PICK p0 \in Prices : p0 = request[m].price
    <3>1. OwnLine(m) # << >>
      BY <1>10, <1>12, EmptySet
    <3> QED BY <1>9, <1>10, <3>1, LevelType
  <2>2. /\ OwnLine(m) = Line(s0, d0, p0)
        /\ IsInjective(Line(s0, d0, p0))
        /\ ToSet(Line(s0, d0, p0)) \subseteq Created
        /\ ToSet(Line(s0, d0, p0)) \subseteq WaitingOrders
        /\ \A o \in ToSet(Line(s0, d0, p0)) :
             request[o].symbol = s0 /\ request[o].side = d0 /\ request[o].price = p0
    BY <1>3, <1>6, <2>1, InLine DEF LinesInv, OwnLine
  <2>3. /\ IsLevelMap(g) /\ IsInjective(QueueAt(g, p0))
        /\ \E k \in 1 .. Len(OwnLine(m)) :
             OwnLine(m)[k] = m /\ QueueAt(g, p0) = Market!Without(OwnLine(m), k)
        /\ ToSet(QueueAt(g, p0)) = ToSet(Line(s0, d0, p0)) \ {m}
        /\ \A q : q # p0 => QueueAt(g, q) = QueueAt(f, q)
    <3>1. QueueAt(f, p0) = OwnLine(m) /\ QueueAt(f, p0) = Line(s0, d0, p0)
      BY <1>10, <2>1, <2>2
    <3>2. IsInjective(QueueAt(f, p0)) /\ m \in ToSet(QueueAt(f, p0))
      BY <1>10, <1>12, <2>2, <3>1
    <3>3. g = RemoveOrder(f, p0, m, n)
      BY <1>9, <2>1
    <3> QED BY <1>5, <1>9, <3>1, <3>2, <3>3, RemoveQueues
  <2>4. /\ ToSet(QueueAt(g, p0)) \subseteq Created
        /\ \A o \in ToSet(QueueAt(g, p0)) :
             request[o].symbol = s0 /\ request[o].side = d0 /\ request[o].price = p0
    BY <2>2, <2>3
  <2>5. /\ LevelsOK' /\ LinesInv'
        /\ Lines' = [Lines EXCEPT ![s0][d0][p0] = QueueAt(g, p0)]
        /\ WaitingOrders' = (WaitingOrders \ ToSet(Line(s0, d0, p0))) \cup ToSet(QueueAt(g, p0))
    <3>1. /\ IsLevelMap(g) /\ IsInjective(QueueAt(g, p0)) /\ request' = request
          /\ levels' = [levels EXCEPT ![s0][d0] = g]
          /\ \A q : q # p0 => QueueAt(g, q) = QueueAt(levels[s0][d0], q)
      BY <1>1, <1>9, <2>3
    <3> QED BY <1>3, <2>4, <3>1, ChangedLine
  <2>6. WaitingOrders' = WaitingOrders \ {m}
    BY <1>10, <1>12, <2>2, <2>3, <2>5
  <2>7. \E k \in 1 .. Len(OwnLine(m)) :
          /\ OwnLine(m)[k] = m
          /\ Lines' = [Lines EXCEPT ![s0][d0][request[m].price] = Market!Without(OwnLine(m), k)]
    BY <2>1, <2>3, <2>5
  <2>8. OrderLeaves(t, s0, d0, m, n)
    BY <1>4, <1>6, <1>7, <1>8, <1>12, <2>5, <2>6, <2>7 DEF OrderLeaves
  <2> QED BY <2>8
<1> QED BY <1>11, <1>12

(* An order that is removed waits no longer; its cancellation owes a mark. *)
LEMMA RemoveIInv ==
  ASSUME IInv, NEW t \in Tasks, CancelRemove(t)
  PROVE  IInv'
<1>1. UNCHANGED <<request, orders, trade_count, writer, work, incoming, prices, filled_qty,
                  orders_to_remove, quantity_to_reduce, trades>>
  BY DEF CancelRemove, locals
<1>2. pc[t] = "remove" /\ writer = NoTask /\ pc' = [pc EXCEPT ![t] = "mark"]
  BY DEF CancelRemove, Goto
<1>3. /\ TypeOK /\ LinesInv /\ Created \subseteq Ids /\ Ids \subseteq Nat
      /\ WaitingOrders \subseteq Created /\ Created' = Created
      /\ pc \in [Tasks -> Places] /\ resting \in [Ids -> Copy]
      /\ order_locations \in [Symbols -> SUBSET Created]
      /\ \A q \in Created : request[q] \in Request
  BY <1>1, CreatedType DEF IInv, TypeInv, TypeOK, WaitingOrders, Created
<1>4. PICK s0 \in Symbols, d0 \in Sides, m \in Ids, n \in Nat :
        OrderLeaves(t, s0, d0, m, n)
  BY RemoveEffect
<1>5. m \in Created /\ m = work[t] /\ s0 = request[m].symbol
  BY <1>2, <1>3, <1>4, OwnType DEF OrderLeaves
<1>6. /\ order_locations' = [order_locations EXCEPT ![s0] = order_locations[s0] \ {m}]
      /\ resting' = [resting EXCEPT ![m] = Absent]
  BY <1>4 DEF OrderLeaves
<1>7. LevelsOK' /\ LinesInv' /\ WaitingOrders' = WaitingOrders \ {m}
  BY <1>4 DEF OrderLeaves
<1>8. /\ resting' \in [Ids -> Copy]
      /\ \A o \in Ids : o # m => resting'[o] = resting[o]
  BY <1>3, <1>6 DEF Absent, Copy
<1>9. /\ order_locations' \in [Symbols -> SUBSET Created]
      /\ \A s \in Symbols : order_locations[s] \ {m} \subseteq order_locations'[s]
  BY <1>3, <1>6
<1>10. /\ pc'[t] = "mark" /\ \A u \in Tasks \ {t} : pc'[u] = pc[u]
       /\ \A u \in Tasks : Own(u)' = Own(u)
       /\ \A u \in Tasks : pc'[u] \notin {"match", "store"}
  BY <1>1, <1>2, <1>3, NoHolder DEF Own
<1>11. TypeOK'
  <2>1. pc' \in [Tasks -> Places]
    BY <1>2, <1>3 DEF Places
  <2>2. \A u \in Tasks : work'[u] = NoOrder <=> pc'[u] = "idle"
    BY <1>1, <1>2, <1>3, <1>10 DEF TypeOK
  <2> QED BY <1>1, <1>3, <1>7, <1>8, <1>9, <2>1, <2>2 DEF TypeOK
<1>12. LockDiscipline' /\ OnlyLimitsRest' /\ IncomingInv'
  BY <1>1, <1>2, <1>10, EngineAssumption
  DEF LockDiscipline, OnlyLimitsRest, IncomingInv, EngineAssumption
<1>13. StoredInv'
  BY <1>1, <1>3 DEF IInv, StoredInv
<1>14. WaitingInv'
  <2> SUFFICES ASSUME NEW o \in WaitingOrders'
               PROVE  /\ o \in order_locations'[request[o].symbol]
                      /\ resting'[o] = resting[o] /\ o \in WaitingOrders
    BY <1>1 DEF IInv, WaitingInv
  <2>1. /\ o \in WaitingOrders /\ o # m /\ o \in Ids /\ request[o].symbol \in Symbols
        /\ o \in order_locations[request[o].symbol]
    BY <1>3, <1>7, RequestType DEF IInv, WaitingInv
  <2> QED BY <1>8, <1>9, <2>1
<1>15. PendingInv'
  BY <1>1, <1>2, NoHolder DEF PendingInv
<1>16. TasksInv'
  BY <1>1, <1>2, <1>5, <1>7, <1>10, NoHolder DEF IInv, TasksInv, Submitting
<1>17. NothingLost'
  <2> SUFFICES ASSUME NEW o \in Created, orders[o].status \in Active, o \notin WaitingOrders'
               PROVE  \E u \in Tasks : pc'[u] = "mark" /\ work[u] = o
    BY <1>1, <1>3 DEF NothingLost, WaitingOrders
  <2>1. CASE o = m
    BY <1>5, <1>10, <2>1
  <2>2. CASE o # m
    BY <1>2, <1>7, <1>10, <2>2, NoHolder DEF IInv, NothingLost, WaitingOrders
  <2> QED BY <2>1, <2>2
<1> QED BY <1>7, <1>11, <1>12, <1>13, <1>14, <1>15, <1>16, <1>17 DEF IInv, TypeInv

(* Every step keeps IInv.                                                  *)
LEMMA NextIInv ==
  ASSUME IInv, [Next]_vars
  PROVE  IInv'
<1>1. CASE UNCHANGED vars
  BY <1>1, StutterIInv
<1>2. ASSUME NEW t \in Tasks,
             Refuse(t) \/ SubmitOrder(t) \/ CancelCheck(t) \/ Acquire(t) \/ Proceed(t)
      PROVE  IInv'
  <2>1. CASE Refuse(t)
    BY <2>1, StutterIInv DEF Refuse
  <2>2. CASE SubmitOrder(t)
    BY <2>2, SubmitIInv
  <2>3. CASE CancelCheck(t)
    BY <2>3, CheckIInv
  <2>4. CASE Acquire(t)
    <3>1. CASE StartMatching(t)
      BY <3>1, StartIInv
    <3>2. CASE RejectMarket(t)
      BY <3>2, RejectIInv DEF RejectMarket
    <3>3. CASE PanicInSum(t)
      BY <3>3, RejectIInv DEF PanicInSum
    <3>4. CASE CancelRemove(t)
      BY <3>4, RemoveIInv
    <3>5. CASE CancelMissed(t)
      BY <3>5, MissedIInv
    <3> QED BY <2>4, <3>1, <3>2, <3>3, <3>4, <3>5 DEF Acquire
  <2>5. CASE Proceed(t)
    <3>1. CASE Trade(t)
      BY <3>1, TradeIInv
    <3>2. CASE FinishLevel(t)
      BY <3>2, FinishIInv
    <3>3. CASE CountTrades(t)
      BY <3>3, CountIInv
    <3>4. CASE StoreFilled(t)
      BY <3>4, StoreFilledIInv
    <3>5. CASE StoreResting(t)
      BY <3>5, StoreRestingIInv
    <3>6. CASE PanicInAdd(t)
      BY <3>6, PanicInAddIInv
    <3>7. CASE CancelMark(t)
      BY <3>7, MarkIInv
    <3> QED BY <2>5, <3>1, <3>2, <3>3, <3>4, <3>5, <3>6, <3>7 DEF Proceed
  <2> QED BY <1>2, <2>1, <2>2, <2>3, <2>4, <2>5
<1> QED BY <1>1, <1>2 DEF Next

-----------------------------------------------------------------------------
(* The inductive invariant of the engine holds in every state, for any     *)
(* number of threads and orders and any quantities, whether the build      *)
(* checks overflow or wraps (engine.rs:79-419).                            *)
THEOREM Invariance == Spec => []IInv
<1>1. Init => IInv
  BY InitIInv
<1>2. IInv /\ [Next]_vars => IInv'
  BY NextIInv
<1> QED BY <1>1, <1>2, PTL DEF Spec

(* Every variable keeps its type; in particular no cached quantity leaves  *)
(* u64 and only orders that were created wait (price_level.rs:9-15).       *)
THEOREM TypeCorrect == Spec => []TypeOK
<1>1. IInv => TypeOK
  BY DEF IInv, TypeInv
<1> QED BY <1>1, Invariance, PTL

(* The write lock of order_books is held by exactly the task that is       *)
(* matching or storing, whichever way each submission ends                 *)
(* (engine.rs:105, 159).                                                   *)
THEOREM Locking == Spec => []LockDiscipline
<1>1. IInv => LockDiscipline
  BY DEF IInv, TypeInv
<1> QED BY <1>1, Invariance, PTL

(* The clone of an order in the book and the stored order agree, but for   *)
(* the fills of the level that is being swept (engine.rs:273-379).         *)
THEOREM Mirroring == Spec => []BookMirrorsStorage
<1>1. ASSUME IInv  PROVE BookMirrorsStorage
  <2>1. \A s \in Symbols, d \in Sides, p \in Prices :
          /\ IsInjective(Line(s, d, p))
          /\ \A o \in ToSet(Line(s, d, p)) :
               request[o].symbol = s /\ request[o].side = d /\ request[o].price = p
    BY <1>1 DEF IInv, LinesInv
  <2>2. ASSUME NEW o \in Created, Waiting(o)
        PROVE  /\ resting[o].status \in Active /\ Remaining(o) > 0
               /\ orders[o].status \in Active
               /\ resting[o].filled = orders[o].filled + filled_qty[o]
               /\ filled_qty[o] = 0 => resting[o] = orders[o]
    <3>1. /\ orders[o].status \in Active
          /\ resting[o].filled < request[o].quantity
          /\ resting[o].status = StatusOf(request[o], resting[o].filled)
          /\ resting[o].filled = orders[o].filled + filled_qty[o]
      BY <1>1, <2>2 DEF IInv, WaitingInv, WaitingOrders
    <3>2. /\ o \in Ids /\ request[o].quantity \in Nat
          /\ orders[o] \in Copy /\ resting[o] \in Copy
          /\ orders[o].filled \in Nat /\ resting[o].filled \in Nat
      BY <1>1, CreatedType, CopyType, RequestType DEF IInv, TypeInv
    <3>3. resting[o].status \in Active
      BY <3>1, <3>2 DEF StatusOf, Active
    <3>4. Remaining(o) > 0
      BY <3>1, <3>2 DEF Remaining, RemainingQuantity, SaturatingSub
    <3>5. orders[o].status = StatusOf(request[o], orders[o].filled)
      BY <1>1, <3>1 DEF IInv, StoredInv, Active
    <3>6. filled_qty[o] = 0 => resting[o] = orders[o]
      BY <3>1, <3>2, <3>5 DEF Copy
    <3> QED BY <3>1, <3>3, <3>4, <3>6
  <2> QED BY <2>1, <2>2 DEF BookMirrorsStorage
<1> QED BY <1>1, Invariance, PTL

(* No order that a status query calls active is lost (engine.rs:381-419).  *)
THEOREM NoOrderLost == Spec => []NothingLost
<1>1. IInv => NothingLost
  BY DEF IInv
<1> QED BY <1>1, Invariance, PTL

-----------------------------------------------------------------------------
(* The three ways a step changes a stored order: it is stored for the      *)
(* first time, it is active and receives its pending fills, or it is       *)
(* marked as cancelled.                                                    *)
LEMMA OrderSteps ==
  ASSUME IInv, [Next]_vars, NEW o \in Ids
  PROVE  \/ orders'[o] = orders[o]
         \/ orders[o] = Absent
         \/ /\ orders[o].status \in Active
            /\ orders'[o].filled = orders[o].filled + filled_qty[o]
         \/ orders'[o] = Cancel(orders[o])
<1>1. TypeOK /\ orders \in [Ids -> Copy] /\ orders[o] \in Copy /\ filled_qty[o] \in Nat
  BY CopyType DEF IInv, TypeInv, TypeOK
<1>2. CASE orders' = orders
  BY <1>2
<1>3. ASSUME NEW t \in Tasks, FinishLevel(t)
      PROVE  \/ orders'[o] = orders[o]
             \/ /\ orders[o].status \in Active
                /\ orders'[o].filled = orders[o].filled + filled_qty[o]
  <2>1. orders' = StoreFills
    BY <1>3 DEF FinishLevel
  <2>2. CASE filled_qty[o] > 0
    <3>1. o \in Created /\ orders[o].status \in Active
      BY <2>2 DEF IInv, PendingInv
    <3>2. orders[o] # Absent /\ request[o] \in Request
      BY <1>1, <3>1, CreatedType DEF Absent, Active
    <3>3. orders'[o] = Fill(request[o], orders[o], filled_qty[o])
      BY <2>1, <2>2, <3>2 DEF StoreFills
    <3> QED BY <1>1, <2>2, <3>1, <3>2, <3>3, FillEffect
  <2>3. CASE ~ (filled_qty[o] > 0)
    BY <2>1, <2>3 DEF StoreFills
  <2> QED BY <2>2, <2>3
<1>4. ASSUME NEW t \in Tasks, StoreFilled(t) \/ StoreResting(t)
      PROVE  orders'[o] = orders[o] \/ orders[o] = Absent
  <2>1. pc[t] = "store" /\ orders' = [orders EXCEPT ![work[t]] = incoming]
    BY <1>4 DEF StoreFilled, StoreResting, StoreOrder
  <2>2. orders[work[t]] = Absent
    BY <2>1, Storing
  <2> QED BY <1>1, <2>1, <2>2
<1>5. ASSUME NEW t \in Tasks, CancelMark(t)
      PROVE  orders'[o] = orders[o] \/ orders'[o] = Cancel(orders[o])
  <2>1. orders' = [orders EXCEPT ![work[t]] = Cancel(orders[work[t]])]
    BY <1>5 DEF CancelMark
  <2> QED BY <1>1, <2>1
<1>6. ASSUME NEW t \in Tasks,
             \/ Refuse(t) \/ SubmitOrder(t) \/ CancelCheck(t) \/ Acquire(t)
             \/ Trade(t) \/ CountTrades(t) \/ PanicInAdd(t)
      PROVE  orders' = orders
  BY <1>6 DEF Refuse, SubmitOrder, CancelCheck, Acquire, StartMatching, RejectMarket,
    PanicInSum, CancelRemove, CancelMissed, Trade, CountTrades, PanicInAdd, vars
<1>7. CASE UNCHANGED vars
  BY <1>2, <1>7 DEF vars
<1>8. CASE Next
  BY <1>2, <1>3, <1>4, <1>5, <1>6, <1>8 DEF Next, Proceed
<1> QED BY <1>7, <1>8

(* No step changes a cancelled order: what a sweep fills is still active,  *)
(* because it was in its line, and a second mark changes nothing           *)
(* (engine.rs:354-361, 411-416).                                           *)
THEOREM CancellationIsFinal == Spec => CancelledIsFinal
<1>1. ASSUME IInv, [Next]_vars
      PROVE  [\A o \in Ids : orders[o].status = "Cancelled" => orders'[o] = orders[o]]_vars
  <2> SUFFICES ASSUME NEW o \in Ids, orders[o].status = "Cancelled"
               PROVE  orders'[o] = orders[o]
    OBVIOUS
  <2>1. orders[o] \in Copy
    BY <1>1, CopyType DEF IInv, TypeInv
  <2>2. Cancel(orders[o]) = orders[o]
    BY <2>1 DEF Cancel, Copy
  <2>3. orders[o] # Absent /\ orders[o].status \notin Active
    BY DEF Absent, Active
  <2> QED BY <1>1, <2>2, <2>3, OrderSteps
<1> QED BY <1>1, Invariance, PTL DEF Spec, CancelledIsFinal

(* A stored order never loses a fill and is never filled beyond what it    *)
(* asked for (engine.rs:304-306, order.rs:240-249).                        *)
THEOREM FillsGrow == Spec => FillsOnlyGrow
<1>1. ASSUME IInv, IInv', [Next]_vars
      PROVE  [\A o \in Created : /\ orders'[o].filled >= orders[o].filled
                                 /\ orders'[o].filled <= request[o].quantity]_vars
  <2> SUFFICES ASSUME NEW o \in Created
               PROVE  /\ orders'[o].filled >= orders[o].filled
                      /\ orders'[o].filled <= request[o].quantity
    OBVIOUS
  <2>1. /\ o \in Ids /\ orders[o] \in Copy /\ orders[o].filled \in Nat /\ filled_qty[o] \in Nat
    BY <1>1, CreatedType, CopyType DEF IInv, TypeInv
  <2>2. orders'[o] \in Copy /\ orders'[o].filled \in Nat
    BY <1>1, <2>1 DEF IInv, TypeInv, TypeOK, Copy
  <2>3. orders'[o].filled >= orders[o].filled
    <3>1. Absent.filled = 0 /\ Cancel(orders[o]).filled = orders[o].filled
      BY <2>1 DEF Absent, Cancel, Copy
    <3>2. \/ orders'[o] = orders[o]
          \/ orders[o] = Absent
          \/ orders'[o].filled = orders[o].filled + filled_qty[o]
          \/ orders'[o] = Cancel(orders[o])
      BY <1>1, <2>1, OrderSteps
    <3> QED BY <2>1, <2>2, <3>1, <3>2
  <2>4. o \in Created' /\ request'[o] = request[o]
    <3>1. /\ request \in Seq(Request)
          /\ request' = request \/ \E r \in Request : request' = Append(request, r)
      BY <1>1 DEF IInv, TypeInv, TypeOK, Next, vars, Refuse, SubmitOrder, CancelCheck,
        Acquire, StartMatching, RejectMarket, PanicInSum, CancelRemove, CancelMissed, Proceed,
        Trade, FinishLevel, CountTrades, StoreFilled, StoreResting, PanicInAdd, CancelMark
    <3> QED BY <3>1 DEF Created
  <2>5. orders'[o].filled <= request[o].quantity
    BY <1>1, <2>4 DEF IInv, StoredInv
  <2> QED BY <2>3, <2>5
<1> QED BY <1>1, Invariance, PTL DEF Spec, FillsOnlyGrow
=============================================================================
