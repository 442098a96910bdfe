---------------------------- MODULE LocksProofs ----------------------------
(***************************************************************************)
(* Proofs about the locks, for any number of threads and any number of     *)
(* price levels a submission sweeps: every call takes its locks in one     *)
(* order and gives them all back, so no threads wait for each other in a   *)
(* circle.                                                                 *)
(*                                                                         *)
(* The order is that of the code: order_books before orders and            *)
(* trade_count, latency_histogram before orders_processed.  What has to be *)
(* shown of a call is that it leads from no guard to no guard and never    *)
(* takes a lock below one it holds; calls are put together of parts that   *)
(* lead from some guards to others, and so is the proof.                   *)
(***************************************************************************)
EXTENDS Locks, SumLemmas, SequenceTheorems

(* The order in which locks are taken.                                     *)
Rank ==
  [l \in LockNames |-> CASE l = "order_books" -> 1 [] l = "orders" -> 2
                         [] l = "trade_count" -> 3 [] l = "latency_histogram" -> 4
                         [] l = "orders_processed" -> 5]
Above(l, H) == \A k \in H : Rank[k] < Rank[l]

(* What an operation asks of the guards held, and what it makes of them.   *)
Allowed(a, H) == IF a.op = "unlock" THEN a.lock \in H ELSE Above(a.lock, H)
After(a, H) == IF a.op = "unlock" THEN H \ {a.lock} ELSE H \cup {a.lock}

(* The operations of q lead from holding H to holding K.                   *)
Through(held, q) ==
  \A i \in 1 .. Len(q) : Allowed(q[i], held[i]) /\ held[i + 1] = After(q[i], held[i])
Leads(q, H, K) ==
  /\ q \in Seq(Operation)
  /\ \E held \in [1 .. Len(q) + 1 -> SUBSET LockNames] :
       held[1] = H /\ held[Len(q) + 1] = K /\ Through(held, q)

(* The guards of thread t.                                                 *)
Guards(t) == {l \in LockNames : t \in readers[l] \/ (writer[l] = t /\ entered[l])}

(* A thread's call leads from its guards to none; who has claimed a lock   *)
(* and is not in waits for just that lock.                                 *)
ClaimsWait ==
  \A l \in LockNames : writer[l] # NoThread /\ ~ entered[l] =>
    Due(writer[l], "write") /\ Lock(writer[l]) = l
Disciplined == (\A t \in Threads : Leads(rest[t], Guards(t), {})) /\ ClaimsWait
LocksInv == TypeOK /\ Disciplined

-----------------------------------------------------------------------------
(* Calls and their parts.                                                  *)

(* The locks have different ranks.                                         *)
LEMMA Ranks ==
  /\ \A l \in LockNames : Rank[l] \in 1 .. 5
  /\ Rank["order_books"] = 1 /\ Rank["orders"] = 2 /\ Rank["trade_count"] = 3
  /\ Rank["latency_histogram"] = 4 /\ Rank["orders_processed"] = 5
  /\ "order_books" \in LockNames /\ "orders" \in LockNames /\ "trade_count" \in LockNames
  /\ "latency_histogram" \in LockNames /\ "orders_processed" \in LockNames
BY DEF Rank, LockNames

(* Nothing to do leads nowhere.                                            *)
LEMMA NothingLeads ==
  ASSUME NEW H \in SUBSET LockNames
  PROVE  Leads(<< >>, H, H)
<1> DEFINE held == [i \in 1 .. 1 |-> H]
<1>1. << >> \in Seq(Operation) /\ Len(<< >>) = 0
  OBVIOUS
<1>2. held \in [1 .. 0 + 1 -> SUBSET LockNames] /\ held[1] = H /\ held[0 + 1] = H
  OBVIOUS
<1>3. Through(held, << >>)
  BY <1>1 DEF Through
<1> QED BY <1>1, <1>2, <1>3 DEF Leads

(* Who has nothing to do holds what there is to hold.                      *)
LEMMA NothingLeft ==
  ASSUME NEW H, NEW K, Leads(<< >>, H, K)
  PROVE  H = K
BY DEF Leads

(* One operation.                                                          *)
LEMMA OneLeads ==
  ASSUME NEW op \in {"read", "write", "unlock"}, NEW l \in LockNames,
         NEW H \in SUBSET LockNames,
         Allowed([op |-> op, lock |-> l], H)
  PROVE  Leads(Do(op, l), H, After([op |-> op, lock |-> l], H))
<1> DEFINE a == [op |-> op, lock |-> l]
           held == [i \in 1 .. 2 |-> IF i = 1 THEN H ELSE After(a, H)]
<1>1. a \in Operation /\ After(a, H) \in SUBSET LockNames /\ Allowed(a, H)
  BY DEF Operation, After
<1>2. Do(op, l) = << a >>
  BY DEF Do
<1> HIDE DEF a
<1>3. << a >> \in Seq(Operation) /\ Len(<< a >>) = 1 /\ << a >>[1] = a
  BY <1>1
<1>4. held \in [1 .. 1 + 1 -> SUBSET LockNames] /\ held[1] = H /\ held[1 + 1] = After(a, H)
  BY <1>1
<1> HIDE DEF held
<1>5. Through(held, << a >>)
  BY <1>1, <1>3, <1>4 DEF Through
<1>6. Leads(<< a >>, H, After(a, H))
  BY <1>3, <1>4, <1>5 DEF Leads
<1> QED BY <1>2, <1>6 DEF a

(* One part after another.                                                 *)
LEMMA BothLead ==
  ASSUME NEW p, NEW q, NEW H, NEW M, NEW K, Leads(p, H, M), Leads(q, M, K)
  PROVE  Leads(p \o q, H, K)
<1>1. p \in Seq(Operation) /\ q \in Seq(Operation) /\ Len(p) \in Nat /\ Len(q) \in Nat
  BY DEF Leads
<1>2. PICK f \in [1 .. Len(p) + 1 -> SUBSET LockNames] :
        f[1] = H /\ f[Len(p) + 1] = M /\ Through(f, p)
  BY DEF Leads
<1>3. PICK g \in [1 .. Len(q) + 1 -> SUBSET LockNames] :
        g[1] = M /\ g[Len(q) + 1] = K /\ Through(g, q)
  BY DEF Leads
<1> DEFINE m == Len(p)
           n == Len(q)
           h == [i \in 1 .. m + n + 1 |-> IF i <= m THEN f[i] ELSE g[i - m]]
<1>4. /\ p \o q \in Seq(Operation) /\ Len(p \o q) = m + n
      /\ \A i \in 1 .. m + n : (p \o q)[i] = IF i <= m THEN p[i] ELSE q[i - m]
  BY <1>1, ConcatProperties
<1>5. h \in [1 .. Len(p \o q) + 1 -> SUBSET LockNames]
  <2>1. \A i \in 1 .. m + n + 1 : /\ i <= m => i \in 1 .. m + 1
                                  /\ ~ (i <= m) => i - m \in 1 .. n + 1
    BY <1>1
  <2>2. \A i \in 1 .. m + n + 1 : h[i] \in SUBSET LockNames
    BY <2>1
  <2> QED BY <1>4, <2>2
<1>6. h[1] = H
  <2>1. 1 \in 1 .. m + n + 1
    BY <1>1
  <2>2. m = 0 => H = M
    BY <1>2
  <2>3. m # 0 => 1 <= m
    BY <1>1
  <2>4. m = 0 => ~ (1 <= m) /\ 1 - m = 1
    OBVIOUS
  <2> QED BY <1>2, <1>3, <2>1, <2>2, <2>3, <2>4
<1>7. h[Len(p \o q) + 1] = K
  <2>1. m + n + 1 \in 1 .. m + n + 1 /\ ~ (m + n + 1 <= m) /\ m + n + 1 - m = n + 1
    BY <1>1
  <2> QED BY <1>3, <1>4, <2>1
<1>8. Through(h, p \o q)
  <2> SUFFICES ASSUME NEW i \in 1 .. m + n
               PROVE  /\ Allowed((p \o q)[i], h[i])
                      /\ h[i + 1] = After((p \o q)[i], h[i])
    BY <1>4 DEF Through
  <2>1. i \in 1 .. m + n + 1 /\ i + 1 \in 1 .. m + n + 1
    BY <1>1
  <2>2. CASE i <= m
    <3>1. i \in 1 .. m /\ (p \o q)[i] = p[i] /\ h[i] = f[i]
      BY <1>1, <1>4, <2>1, <2>2
    <3>2. h[i + 1] = f[i + 1]
      <4>1. CASE i + 1 <= m
        BY <2>1, <4>1
      <4>2. CASE ~ (i + 1 <= m)
        <5>1. i + 1 = m + 1 /\ i + 1 - m = 1
          BY <1>1, <2>2, <4>2
        <5> QED BY <1>2, <1>3, <2>1, <4>2, <5>1
      <4> QED BY <4>1, <4>2
    <3> HIDE DEF h
    <3> QED BY <1>2, <3>1, <3>2 DEF Through
  <2>3. CASE ~ (i <= m)
    <3>1. /\ i - m \in 1 .. n /\ ~ (i + 1 <= m) /\ (i + 1) - m = (i - m) + 1
      BY <1>1, <2>3
    <3>2. (p \o q)[i] = q[i - m] /\ h[i] = g[i - m] /\ h[i + 1] = g[(i - m) + 1]
      BY <1>4, <2>1, <2>3, <3>1
    <3> HIDE DEF h
    <3> QED BY <1>3, <3>1, <3>2 DEF Through
  <2> QED BY <2>2, <2>3
<1> HIDE DEF h
<1> QED BY <1>4, <1>5, <1>6, <1>7, <1>8 DEF Leads

(* The first operation, and what it leaves to do.                          *)
LEMMA TailLeads ==
  ASSUME NEW q, NEW H, NEW K, Leads(q, H, K), q # << >>
  PROVE  /\ Head(q) \in Operation /\ Allowed(Head(q), H)
         /\ Leads(Tail(q), After(Head(q), H), K)
<1>1. /\ q \in Seq(Operation) /\ Len(q) \in Nat \ {0}
      /\ Head(q) = q[1] /\ Head(q) \in Operation
      /\ Tail(q) \in Seq(Operation) /\ Len(Tail(q)) = Len(q) - 1
      /\ \A i \in 1 .. Len(Tail(q)) : Tail(q)[i] = q[i + 1]
  BY HeadTailProperties, EmptySeq DEF Leads
<1>2. PICK held \in [1 .. Len(q) + 1 -> SUBSET LockNames] :
        held[1] = H /\ held[Len(q) + 1] = K /\ Through(held, q)
  BY DEF Leads
<1> DEFINE n == Len(q) - 1
           left == [i \in 1 .. n + 1 |-> held[i + 1]]
<1>3. Allowed(q[1], H) /\ held[2] = After(q[1], H)
  <2>1. 1 \in 1 .. Len(q) /\ 1 + 1 = 2
    BY <1>1
  <2> QED BY <1>2, <2>1 DEF Through
<1>4. left \in [1 .. n + 1 -> SUBSET LockNames]
  BY <1>1, <1>2
<1>5. left[1] = held[2] /\ left[n + 1] = K
  BY <1>1, <1>2
<1>6. Through(left, Tail(q))
  <2> SUFFICES ASSUME NEW i \in 1 .. n
               PROVE  /\ Allowed(Tail(q)[i], left[i])
                      /\ left[i + 1] = After(Tail(q)[i], left[i])
    BY <1>1 DEF Through
  <2>1. i + 1 \in 1 .. Len(q) /\ left[i] = held[i + 1] /\ left[i + 1] = held[(i + 1) + 1]
    BY <1>1
  <2>2. Tail(q)[i] = q[i + 1]
    BY <1>1
  <2> HIDE DEF left
  <2> QED BY <1>2, <2>1, <2>2 DEF Through
<1> HIDE DEF left
<1> QED BY <1>1, <1>3, <1>4, <1>5, <1>6 DEF Leads

(* A guard that lives as long as body runs, taken above what is held.      *)
LEMMA GuardLeads ==
  ASSUME NEW H \in SUBSET LockNames, NEW l \in LockNames, Above(l, H),
         NEW body, Leads(body, H \cup {l}, H \cup {l})
  PROVE  Leads(Reading(l, body), H, H) /\ Leads(Writing(l, body), H, H)
<1>1. l \notin H
  BY Ranks DEF Above
<1> DEFINE M == H \cup {l}
<1>2. M \in SUBSET LockNames
  OBVIOUS
<1>3. ASSUME NEW op \in {"read", "write"}
      PROVE  Leads(Do(op, l), H, M)
  <2>1. Allowed([op |-> op, lock |-> l], H) /\ After([op |-> op, lock |-> l], H) = M
    BY DEF Allowed, After
  <2> HIDE DEF M
  <2> QED BY <2>1, OneLeads
<1>4. Leads(Do("unlock", l), M, H)
  <2>1. /\ Allowed([op |-> "unlock", lock |-> l], M)
        /\ After([op |-> "unlock", lock |-> l], M) = H
    BY <1>1 DEF Allowed, After
  <2> HIDE DEF M
  <2> QED BY <1>2, <2>1, OneLeads
<1>5. Leads(body, M, M)
  OBVIOUS
<1> HIDE DEF M
<1>6. ASSUME NEW op \in {"read", "write"}
      PROVE  Leads(Do(op, l) \o body \o Do("unlock", l), H, H)
  <2>1. Leads(Do(op, l), H, M)
    BY <1>3
  <2>2. Leads(Do(op, l) \o body, H, M)
    BY <1>5, <2>1, BothLead
  <2> QED BY <1>4, <2>2, BothLead
<1> QED BY <1>6 DEF Reading, Writing

(* A lock taken and given back at once.                                    *)
LEMMA BriefLeads ==
  ASSUME NEW H \in SUBSET LockNames, NEW l \in LockNames, Above(l, H)
  PROVE  Leads(Read(l), H, H) /\ Leads(Write(l), H, H)
<1>1. Leads(<< >>, H \cup {l}, H \cup {l})
  BY NothingLeads
<1> QED BY <1>1, GuardLeads DEF Read, Write

(* The recursion by which FlattenSeq puts a list of lists together.        *)
IsFlat(f, s, m) == f = [i \in 1 .. m |-> IF i = 1 THEN s[i] ELSE f[i - 1] \o s[i]]

(* It has a solution.                                                      *)
LEMMA FlatExists ==
  ASSUME NEW s, NEW n \in Nat
  PROVE  \E f : IsFlat(f, s, n)
<1> DEFINE Bad == {m \in Nat : ~ \E f : IsFlat(f, s, m)}
<1>1. SUFFICES ASSUME Bad # {}  PROVE FALSE
  OBVIOUS
<1>2. PICK m \in Bad : \A k \in Bad : m <= k
  <2>1. Bad \in SUBSET Nat
    OBVIOUS
  <2> HIDE DEF Bad
  <2> QED BY <1>1, <2>1, Least
<1>3. m # 0
  <2>1. IsFlat(<< >>, s, 0)
    BY DEF IsFlat
  <2> QED BY <2>1
<1>4. m \in Nat /\ m - 1 \in Nat /\ m - 1 \notin Bad
  BY <1>2, <1>3
<1>5. PICK g : IsFlat(g, s, m - 1)
  BY <1>4
<1> DEFINE f == [i \in 1 .. m |-> IF i = m THEN IF m = 1 THEN s[m] ELSE g[m - 1] \o s[m]
                                  ELSE g[i]]
<1>6. ASSUME NEW i \in 1 .. m
      PROVE  f[i] = IF i = 1 THEN s[i] ELSE f[i - 1] \o s[i]
  <2>1. CASE i = m
    <3>1. m # 1 => m - 1 \in 1 .. m /\ m - 1 # m
      BY <1>4
    <3>2. m # 1 => f[m - 1] = g[m - 1]
      BY <3>1
    <3>3. f[m] = IF m = 1 THEN s[m] ELSE g[m - 1] \o s[m]
      BY <2>1
    <3> HIDE DEF f
    <3> QED BY <2>1, <3>2, <3>3
  <2>2. CASE i # m
    <3>1. i \in 1 .. (m - 1) /\ (i # 1 => i - 1 \in 1 .. m /\ i - 1 # m)
      BY <1>4, <2>2
    <3>2. f[i] = g[i] /\ (i # 1 => f[i - 1] = g[i - 1])
      BY <2>2, <3>1
    <3>3. g[i] = IF i = 1 THEN s[i] ELSE g[i - 1] \o s[i]
      BY <1>5, <3>1 DEF IsFlat
    <3> HIDE DEF f
    <3> QED BY <3>2, <3>3
  <2> QED BY <2>1, <2>2
<1>7. f = [i \in 1 .. m |-> f[i]]
  OBVIOUS
<1> HIDE DEF f
<1>8. IsFlat(f, s, m)
  BY <1>6, <1>7 DEF IsFlat
<1> QED BY <1>2, <1>8

(* What is repeated leads from where it began back to it.                  *)
LEMMA RepeatLeads ==
  ASSUME NEW n \in Nat, NEW body, NEW H \in SUBSET LockNames, Leads(body, H, H)
  PROVE  Leads(Repeat(n, body), H, H)
<1> DEFINE s == [i \in 1 .. n |-> body]
           f == CHOOSE h : IsFlat(h, s, n)
<1>1. Len(s) = n
  <2>1. s \in Seq({body})
    OBVIOUS
  <2> QED BY <2>1
<1>2. IsFlat(f, s, n)
  <2> HIDE DEF s
  <2> QED BY FlatExists
<1>3. Repeat(n, body) = IF n = 0 THEN s ELSE f[n]
  BY <1>1 DEF Repeat, FlattenSeq, IsFlat
<1>4. CASE n = 0
  <2>1. s = << >>
    BY <1>4
  <2> QED BY <1>3, <1>4, <2>1, NothingLeads
<1>5. CASE n # 0
  <2> DEFINE Bad == {i \in 1 .. n : ~ Leads(f[i], H, H)}
  <2>1. ASSUME Bad # {}  PROVE FALSE
    <3>1. Bad \in SUBSET Nat
      OBVIOUS
    <3>2. PICK i \in Bad : \A k \in Bad : i <= k
      <4> HIDE DEF Bad
      <4> QED BY <2>1, <3>1, Least
    <3>3. i \in 1 .. n /\ s[i] = body
      OBVIOUS
    <3>4. f[i] = IF i = 1 THEN s[i] ELSE f[i - 1] \o s[i]
      <4> HIDE DEF f, s
      <4> QED BY <1>2, <3>3 DEF IsFlat
    <3>5. i # 1 => i - 1 \in 1 .. n /\ i - 1 \notin Bad
      BY <3>2, <3>3
    <3>6. i # 1 => Leads(f[i - 1], H, H)
      <4> HIDE DEF f
      <4> QED BY <3>5
    <3> HIDE DEF f, s
    <3>7. Leads(f[i], H, H)
      BY <3>3, <3>4, <3>6, BothLead
    <3> QED BY <3>7
  <2>2. n \in 1 .. n
    BY <1>5
  <2>3. Leads(f[n], H, H)
    <3> HIDE DEF f
    <3> QED BY <2>1, <2>2
  <2> QED BY <1>3, <1>5, <2>3
<1> QED BY <1>4, <1>5

(* Every call of the API begins and ends without a guard.                  *)
LEMMA CallsLead ==
  \A c \in Calls : Leads(c, {}, {})
<1>1. \A l \in LockNames : Leads(Read(l), {}, {}) /\ Leads(Write(l), {}, {})
  BY BriefLeads DEF Above
<1>2. /\ Leads(Read("orders"), {}, {}) /\ Leads(Read("order_books"), {}, {})
      /\ Leads(Read("trade_count"), {}, {}) /\ Leads(Read("latency_histogram"), {}, {})
      /\ Leads(Read("orders_processed"), {}, {})
      /\ Leads(Write("order_books"), {}, {}) /\ Leads(Write("orders"), {}, {})
  BY <1>1, Ranks
<1>3. Leads(RecordLatency, {}, {}) /\ Leads(Reset, {}, {})
  <2>1. Above("orders_processed", {"latency_histogram"}) /\ Above("latency_histogram", {})
    BY Ranks DEF Above
  <2>2. Leads(Write("orders_processed"), {"latency_histogram"}, {"latency_histogram"})
    BY <2>1, Ranks, BriefLeads
  <2>3. {} \cup {"latency_histogram"} = {"latency_histogram"}
    OBVIOUS
  <2>4. Leads(Writing("latency_histogram", Write("orders_processed")), {}, {})
    BY <2>1, <2>2, <2>3, Ranks, GuardLeads
  <2> QED BY <2>4 DEF RecordLatency, Reset
<1>4. ASSUME NEW n \in 0 .. MaxLevels
      PROVE  Leads(SubmitOrder(n), {}, {})
  <2> DEFINE B == {"order_books"}
  <2>1. /\ Above("orders", B) /\ Above("trade_count", B) /\ Above("order_books", {})
        /\ {} \cup {"order_books"} = B /\ B \in SUBSET LockNames
    BY Ranks DEF Above
  <2> HIDE DEF B
  <2>2. Leads(Write("orders"), B, B) /\ Leads(Write("trade_count"), B, B)
    BY <2>1, Ranks, BriefLeads
  <2>3. Leads(Repeat(n, Write("orders")), B, B)
    BY <2>1, <2>2, RepeatLeads
  <2>4. Leads(IF n = 0 THEN << >> ELSE Write("trade_count"), B, B)
    BY <2>1, <2>2, NothingLeads
  <2>5. Leads(Matching(n), B, B)
    BY <2>3, <2>4, BothLead DEF Matching
  <2>6. Leads(Matching(n) \o Write("orders"), B, B)
    BY <2>2, <2>5, BothLead
  <2>7. Leads(Writing("order_books", Matching(n) \o Write("orders")), {}, {})
    BY <2>1, <2>6, Ranks, GuardLeads
  <2> QED BY <1>3, <2>7, BothLead DEF SubmitOrder
<1>5. \A c \in CancelOrder : Leads(c, {}, {})
  <2>1. Leads(Read("orders") \o Write("order_books"), {}, {})
    BY <1>2, BothLead
  <2>2. Leads(Read("orders") \o Write("order_books") \o Write("orders"), {}, {})
    BY <1>2, <2>1, BothLead
  <2> QED BY <1>2, <2>2 DEF CancelOrder
<1>6. Leads(FailedOrder, {}, {}) /\ Leads(GetOrder, {}, {}) /\ Leads(GetOrderBook, {}, {})
  BY <1>2 DEF FailedOrder, GetOrder, GetOrderBook
<1>7. Leads(GetMetrics, {}, {})
  <2>1. Leads(Repeat(3, Read("orders")), {}, {})
    BY <1>2, RepeatLeads
  <2>2. Leads(Repeat(3, Read("latency_histogram")), {}, {})
    BY <1>2, RepeatLeads
  <2>3. Leads(Repeat(3, Read("orders")) \o Read("order_books"), {}, {})
    BY <1>2, <2>1, BothLead
  <2>4. Leads(Repeat(3, Read("orders")) \o Read("order_books") \o Read("trade_count"), {}, {})
    BY <1>2, <2>3, BothLead
  <2>5. Leads(Repeat(3, Read("orders")) \o Read("order_books") \o Read("trade_count")
                \o Repeat(3, Read("latency_histogram")), {}, {})
    BY <2>2, <2>4, BothLead
  <2> QED BY <1>2, <2>5, BothLead DEF GetMetrics
<1> QED BY <1>3, <1>4, <1>5, <1>6, <1>7 DEF Calls

-----------------------------------------------------------------------------
(* The invariant.                                                          *)

(* A thread between two calls holds and claims nothing.                    *)
LEMMA IdleHoldsNothing ==
  Disciplined =>
    \A l \in LockNames, t \in Threads : rest[t] = << >> => t # writer[l] /\ t \notin readers[l]
<1> SUFFICES ASSUME Disciplined, NEW l \in LockNames, NEW t \in Threads, rest[t] = << >>
             PROVE  t # writer[l] /\ t \notin readers[l]
  OBVIOUS
<1>1. Guards(t) = {}
  BY NothingLeft DEF Disciplined
<1>2. t \notin readers[l] /\ ~ (writer[l] = t /\ entered[l])
  BY <1>1 DEF Guards
<1>3. t = writer[l] => entered[l]
  BY LocksAssumption DEF LocksAssumption, Disciplined, ClaimsWait, Due
<1> QED BY <1>2, <1>3

(* What thread t does next leads on from the guards it has.                *)
LEMMA Onward ==
  ASSUME LocksInv, NEW t \in Threads, rest[t] # << >>
  PROVE  /\ Head(rest[t]) \in Operation /\ Lock(t) \in LockNames
         /\ Allowed(Head(rest[t]), Guards(t))
         /\ Leads(Tail(rest[t]), After(Head(rest[t]), Guards(t)), {})
<1>1. Leads(rest[t], Guards(t), {})
  BY DEF LocksInv, Disciplined
<1>2. /\ Head(rest[t]) \in Operation
      /\ Allowed(Head(rest[t]), Guards(t))
      /\ Leads(Tail(rest[t]), After(Head(rest[t]), Guards(t)), {})
  BY <1>1, TailLeads
<1> QED BY <1>2 DEF Lock, Operation

(* A step of t that does the next operation of its call.                   *)
LEMMA Advancing ==
  ASSUME LocksInv, NEW t \in Threads, rest[t] # << >>, Advance(t),
         Guards(t)' = After(Head(rest[t]), Guards(t)),
         \A u \in Threads \ {t} : Guards(u)' = Guards(u)
  PROVE  /\ rest' \in [Threads -> Seq(Operation)]
         /\ (\A u \in Threads : Leads(rest[u], Guards(u), {}))'
         /\ \A u \in Threads \ {t} : rest'[u] = rest[u]
<1>1. /\ rest \in [Threads -> Seq(Operation)]
      /\ \A u \in Threads : Leads(rest[u], Guards(u), {})
  BY DEF LocksInv, TypeOK, Disciplined
<1>2. rest'[t] = Tail(rest[t]) /\ \A u \in Threads \ {t} : rest'[u] = rest[u]
  BY <1>1 DEF Advance
<1>3. Leads(Tail(rest[t]), After(Head(rest[t]), Guards(t)), {})
  BY Onward
<1>4. Tail(rest[t]) \in Seq(Operation)
  BY <1>3 DEF Leads
<1>5. rest' \in [Threads -> Seq(Operation)]
  BY <1>1, <1>4 DEF Advance
<1>6. ASSUME NEW u \in Threads
      PROVE  Leads(rest'[u], Guards(u)', {})
  <2>1. CASE u = t
    BY <1>2, <1>3, <2>1
  <2>2. CASE u # t
    <3>1. Guards(u)' = Guards(u) /\ rest'[u] = rest[u]
      BY <1>2, <2>2
    <3> QED BY <1>1, <3>1
  <2> QED BY <2>1, <2>2
<1> QED BY <1>2, <1>5, <1>6

(* Every step keeps the locks and the guards in order.                     *)
LEMMA LocksInvStep ==
  LocksInv /\ [Next]_vars => LocksInv'
<1> SUFFICES ASSUME LocksInv, [Next]_vars  PROVE LocksInv'
  OBVIOUS
<1> DEFINE Rest == rest' \in [Threads -> Seq(Operation)]
           Held == /\ readers' \in [LockNames -> SUBSET Threads]
                   /\ writer' \in [LockNames -> Threads \cup {NoThread}]
                   /\ entered' \in [LockNames -> BOOLEAN]
                   /\ \A l \in LockNames :
                        entered'[l] => writer'[l] # NoThread /\ readers'[l] = {}
           Lead == \A u \in Threads : Leads(rest'[u], Guards(u)', {})
           Claims == ClaimsWait'
<1>1. SUFFICES Rest /\ Held /\ Lead /\ Claims
  <2>1. Disciplined'
    BY <1>1 DEF Disciplined
  <2>2. (\A l \in LockNames, t \in Threads :
           rest[t] = << >> => t # writer[l] /\ t \notin readers[l])'
    BY <2>1, IdleHoldsNothing, PTL
  <2> QED BY <1>1, <2>1, <2>2 DEF LocksInv, TypeOK
<1>2. /\ rest \in [Threads -> Seq(Operation)]
      /\ readers \in [LockNames -> SUBSET Threads]
      /\ writer \in [LockNames -> Threads \cup {NoThread}]
      /\ entered \in [LockNames -> BOOLEAN]
      /\ \A l \in LockNames : entered[l] => writer[l] # NoThread /\ readers[l] = {}
      /\ \A l \in LockNames, t \in Threads :
           rest[t] = << >> => t # writer[l] /\ t \notin readers[l]
  BY DEF LocksInv, TypeOK
<1>3. /\ \A u \in Threads : Leads(rest[u], Guards(u), {})
      /\ \A l \in LockNames : writer[l] # NoThread /\ ~ entered[l] =>
           Due(writer[l], "write") /\ Lock(writer[l]) = l
  BY DEF LocksInv, Disciplined, ClaimsWait
<1>4. NoThread \notin Threads
  BY LocksAssumption DEF LocksAssumption
<1>5. ASSUME NEW t \in Threads, Call(t)
      PROVE  Rest /\ Held /\ Lead /\ Claims
  <2>1. PICK c \in Calls : rest' = [rest EXCEPT ![t] = c]
    BY <1>5 DEF Call
  <2>2. rest[t] = << >> /\ readers' = readers /\ writer' = writer /\ entered' = entered
    BY <1>5 DEF Call
  <2>3. Leads(c, {}, {}) /\ c \in Seq(Operation)
    BY CallsLead DEF Leads
  <2>4. Guards(t) = {} /\ \A u \in Threads : Guards(u)' = Guards(u)
    BY <1>3, <2>2, NothingLeft DEF Guards
  <2>5. rest'[t] = c /\ \A u \in Threads \ {t} : rest'[u] = rest[u]
    BY <1>2, <2>1
  <2>6. Rest /\ Held
    BY <1>2, <2>1, <2>2, <2>3
  <2>7. ASSUME NEW u \in Threads
        PROVE  Leads(rest'[u], Guards(u)', {})
    <3>1. CASE u = t
      BY <2>3, <2>4, <2>5, <3>1
    <3>2. CASE u # t
      <4>1. Guards(u)' = Guards(u) /\ rest'[u] = rest[u]
        BY <2>4, <2>5, <3>2
      <4> QED BY <1>3, <4>1
    <3> QED BY <3>1, <3>2
  <2>8. Claims
    BY <1>2, <1>3, <2>2, <2>5 DEF ClaimsWait, Due, Lock
  <2> QED BY <2>6, <2>7, <2>8
<1>6. ASSUME NEW t \in Threads, LockShared(t)
      PROVE  Rest /\ Held /\ Lead /\ Claims
  <2> DEFINE l == Lock(t)
  <2>1. /\ rest[t] # << >> /\ Head(rest[t]).op = "read" /\ Head(rest[t]).lock = l
        /\ writer[l] = NoThread /\ writer' = writer /\ entered' = entered
        /\ readers' = [readers EXCEPT ![l] = @ \cup {t}] /\ Advance(t)
    BY <1>6 DEF LockShared, Due, Lock
  <2>2. l \in LockNames
    BY <2>1, Onward
  <2> HIDE DEF l
  <2>3. Held
    BY <1>2, <2>1, <2>2
  <2>4. After(Head(rest[t]), Guards(t)) = Guards(t) \cup {l}
    BY <2>1 DEF After
  <2>5. Guards(t)' = Guards(t) \cup {l} /\ \A u \in Threads \ {t} : Guards(u)' = Guards(u)
    BY <1>2, <2>1, <2>2 DEF Guards
  <2>6. Rest /\ Lead /\ \A u \in Threads \ {t} : rest'[u] = rest[u]
    BY <2>1, <2>4, <2>5, Advancing
  <2>7. Claims
    <3> SUFFICES ASSUME NEW k \in LockNames, writer'[k] # NoThread, ~ entered'[k]
                 PROVE  /\ rest'[writer'[k]] # << >>
                        /\ Head(rest'[writer'[k]]).op = "write"
                        /\ Head(rest'[writer'[k]]).lock = k
      BY DEF ClaimsWait, Due, Lock
    <3>1. writer[k] = writer'[k] /\ writer[k] # NoThread /\ ~ entered[k]
      BY <1>2, <1>4, <2>1, <2>2
    <3>2. /\ rest[writer[k]] # << >> /\ Head(rest[writer[k]]).op = "write"
          /\ Head(rest[writer[k]]).lock = k
      BY <1>3, <3>1 DEF Due, Lock
    <3>3. writer[k] \in Threads \ {t}
      BY <1>2, <2>1, <3>1, <3>2
    <3> QED BY <2>6, <3>1, <3>2, <3>3
  <2> QED BY <2>3, <2>6, <2>7
<1>7. ASSUME NEW t \in Threads, LockExclusive(t)
      PROVE  Rest /\ Held /\ Lead /\ Claims
  <2> DEFINE l == Lock(t)
  <2>1. /\ rest[t] # << >> /\ Head(rest[t]).op = "write" /\ Head(rest[t]).lock = l
        /\ writer[l] = NoThread /\ readers[l] = {} /\ readers' = readers
        /\ writer' = [writer EXCEPT ![l] = t] /\ entered' = [entered EXCEPT ![l] = TRUE]
        /\ Advance(t)
    BY <1>7 DEF LockExclusive, Due, Lock
  <2>2. l \in LockNames
    BY <2>1, Onward
  <2> HIDE DEF l
  <2>3. Held
    BY <1>2, <1>4, <2>1, <2>2
  <2>4. After(Head(rest[t]), Guards(t)) = Guards(t) \cup {l}
    BY <2>1 DEF After
  <2>5. Guards(t)' = Guards(t) \cup {l} /\ \A u \in Threads \ {t} : Guards(u)' = Guards(u)
    BY <1>2, <1>4, <2>1, <2>2 DEF Guards
  <2>6. Rest /\ Lead /\ \A u \in Threads \ {t} : rest'[u] = rest[u]
    BY <2>1, <2>4, <2>5, Advancing
  <2>7. Claims
    <3> SUFFICES ASSUME NEW k \in LockNames, writer'[k] # NoThread, ~ entered'[k]
                 PROVE  /\ rest'[writer'[k]] # << >>
                        /\ Head(rest'[writer'[k]]).op = "write"
                        /\ Head(rest'[writer'[k]]).lock = k
      BY DEF ClaimsWait, Due, Lock
    <3>1. writer[k] = writer'[k] /\ writer[k] # NoThread /\ ~ entered[k]
      BY <1>2, <1>4, <2>1, <2>2
    <3>2. /\ rest[writer[k]] # << >> /\ Head(rest[writer[k]]).op = "write"
          /\ Head(rest[writer[k]]).lock = k
      BY <1>3, <3>1 DEF Due, Lock
    <3>3. writer[k] \in Threads \ {t}
      BY <1>2, <2>1, <3>1, <3>2
    <3> QED BY <2>6, <3>1, <3>2, <3>3
  <2> QED BY <2>3, <2>6, <2>7
<1>8. ASSUME NEW t \in Threads, Claim(t)
      PROVE  Rest /\ Held /\ Lead /\ Claims
  <2> DEFINE l == Lock(t)
  <2>1. /\ rest[t] # << >> /\ Due(t, "write") /\ writer[l] = NoThread
        /\ writer' = [writer EXCEPT ![l] = t] /\ rest' = rest
        /\ readers' = readers /\ entered' = entered
    BY <1>8 DEF Claim, Due
  <2>2. l \in LockNames
    BY <2>1, Onward
  <2>3. Claims
    <3> SUFFICES ASSUME NEW k \in LockNames, writer'[k] # NoThread, ~ entered'[k]
                 PROVE  /\ rest'[writer'[k]] # << >>
                        /\ Head(rest'[writer'[k]]).op = "write"
                        /\ Head(rest'[writer'[k]]).lock = k
      BY DEF ClaimsWait, Due, Lock
    <3>1. CASE k = l
      <4>1. writer'[k] = t
        BY <1>2, <2>1, <2>2, <3>1
      <4> QED BY <2>1, <3>1, <4>1 DEF Due, Lock
    <3>2. CASE k # l
      <4>1. writer'[k] = writer[k] /\ ~ entered[k]
        BY <1>2, <2>1, <2>2, <3>2
      <4> QED BY <1>3, <2>1, <4>1 DEF Due, Lock
    <3> QED BY <3>1, <3>2
  <2> HIDE DEF l
  <2>4. Held /\ ~ entered[l]
    BY <1>2, <2>1, <2>2
  <2>5. \A u \in Threads : Guards(u)' = Guards(u)
    BY <1>2, <1>4, <2>1, <2>2, <2>4 DEF Guards
  <2>6. Rest /\ Lead
    BY <1>2, <1>3, <2>1, <2>5
  <2> QED BY <2>3, <2>4, <2>6
<1>9. ASSUME NEW t \in Threads, Enter(t)
      PROVE  Rest /\ Held /\ Lead /\ Claims
  <2> DEFINE l == Lock(t)
  <2>1. /\ rest[t] # << >> /\ Head(rest[t]).op = "write" /\ Head(rest[t]).lock = l
        /\ writer[l] = t /\ ~ entered[l] /\ readers[l] = {} /\ readers' = readers
        /\ writer' = writer /\ entered' = [entered EXCEPT ![l] = TRUE] /\ Advance(t)
    BY <1>9 DEF Enter, Due, Lock
  <2>2. l \in LockNames
    BY <2>1, Onward
  <2>3. \A k \in LockNames : writer[k] = t /\ ~ entered[k] => k = l
    BY <1>3, <1>4
  <2> HIDE DEF l
  <2>4. Held
    BY <1>2, <1>4, <2>1, <2>2
  <2>5. After(Head(rest[t]), Guards(t)) = Guards(t) \cup {l}
    BY <2>1 DEF After
  <2>6. Guards(t)' = Guards(t) \cup {l} /\ \A u \in Threads \ {t} : Guards(u)' = Guards(u)
    BY <1>2, <1>4, <2>1, <2>2 DEF Guards
  <2>7. Rest /\ Lead /\ \A u \in Threads \ {t} : rest'[u] = rest[u]
    BY <2>1, <2>5, <2>6, Advancing
  <2>8. Claims
    BY <1>2, <1>3, <1>4, <2>1, <2>2, <2>3, <2>7 DEF ClaimsWait, Due, Lock
  <2> QED BY <2>4, <2>7, <2>8
<1>10. ASSUME NEW t \in Threads, UnlockShared(t)
       PROVE  Rest /\ Held /\ Lead /\ Claims
  <2> DEFINE l == Lock(t)
  <2>1. /\ rest[t] # << >> /\ Head(rest[t]).op = "unlock" /\ Head(rest[t]).lock = l
        /\ t \in readers[l] /\ readers' = [readers EXCEPT ![l] = @ \ {t}]
        /\ writer' = writer /\ entered' = entered /\ Advance(t)
    BY <1>10 DEF UnlockShared, Due, Lock
  <2>2. l \in LockNames
    BY <2>1, Onward
  <2> HIDE DEF l
  <2>3. Held
    BY <1>2, <2>1, <2>2
  <2>4. After(Head(rest[t]), Guards(t)) = Guards(t) \ {l}
    BY <2>1 DEF After
  <2>5. Guards(t)' = Guards(t) \ {l} /\ \A u \in Threads \ {t} : Guards(u)' = Guards(u)
    BY <1>2, <1>4, <2>1, <2>2 DEF Guards
  <2>6. Rest /\ Lead /\ \A u \in Threads \ {t} : rest'[u] = rest[u]
    BY <2>1, <2>4, <2>5, Advancing
  <2>7. Claims
    <3> SUFFICES ASSUME NEW k \in LockNames, writer'[k] # NoThread, ~ entered'[k]
                 PROVE  /\ rest'[writer'[k]] # << >>
                        /\ Head(rest'[writer'[k]]).op = "write"
                        /\ Head(rest'[writer'[k]]).lock = k
      BY DEF ClaimsWait, Due, Lock
    <3>1. writer[k] = writer'[k] /\ writer[k] # NoThread /\ ~ entered[k]
      BY <1>2, <1>4, <2>1, <2>2
    <3>2. /\ rest[writer[k]] # << >> /\ Head(rest[writer[k]]).op = "write"
          /\ Head(rest[writer[k]]).lock = k
      BY <1>3, <3>1 DEF Due, Lock
    <3>3. writer[k] \in Threads \ {t}
      BY <1>2, <2>1, <3>1, <3>2
    <3> QED BY <2>6, <3>1, <3>2, <3>3
  <2> QED BY <2>3, <2>6, <2>7
<1>11. ASSUME NEW t \in Threads, UnlockExclusive(t)
       PROVE  Rest /\ Held /\ Lead /\ Claims
  <2> DEFINE l == Lock(t)
  <2>1. /\ rest[t] # << >> /\ Head(rest[t]).op = "unlock" /\ Head(rest[t]).lock = l
        /\ writer[l] = t /\ entered[l] /\ readers' = readers
        /\ writer' = [writer EXCEPT ![l] = NoThread]
        /\ entered' = [entered EXCEPT ![l] = FALSE] /\ Advance(t)
    BY <1>11 DEF UnlockExclusive, Due, Lock
  <2>2. l \in LockNames
    BY <2>1, Onward
  <2> HIDE DEF l
  <2>3. Held
    BY <1>2, <2>1, <2>2
  <2>4. After(Head(rest[t]), Guards(t)) = Guards(t) \ {l}
    BY <2>1 DEF After
  <2>5. Guards(t)' = Guards(t) \ {l} /\ \A u \in Threads \ {t} : Guards(u)' = Guards(u)
    BY <1>2, <1>4, <2>1, <2>2 DEF Guards
  <2>6. Rest /\ Lead /\ \A u \in Threads \ {t} : rest'[u] = rest[u]
    BY <2>1, <2>4, <2>5, Advancing
  <2>7. Claims
    <3> SUFFICES ASSUME NEW k \in LockNames, writer'[k] # NoThread, ~ entered'[k]
                 PROVE  /\ rest'[writer'[k]] # << >>
                        /\ Head(rest'[writer'[k]]).op = "write"
                        /\ Head(rest'[writer'[k]]).lock = k
      BY DEF ClaimsWait, Due, Lock
    <3>1. writer[k] = writer'[k] /\ writer[k] # NoThread /\ ~ entered[k]
      BY <1>2, <1>4, <2>1, <2>2
    <3>2. /\ rest[writer[k]] # << >> /\ Head(rest[writer[k]]).op = "write"
          /\ Head(rest[writer[k]]).lock = k
      BY <1>3, <3>1 DEF Due, Lock
    <3>3. writer[k] \in Threads \ {t}
      BY <1>2, <2>1, <3>1, <3>2
    <3> QED BY <2>6, <3>1, <3>2, <3>3
  <2> QED BY <2>3, <2>6, <2>7
<1>12. CASE UNCHANGED vars
  BY <1>2, <1>3, <1>12 DEF vars, Guards, ClaimsWait, Due, Lock
<1> HIDE DEF Rest, Held, Lead, Claims
<1> QED BY <1>5, <1>6, <1>7, <1>8, <1>9, <1>10, <1>11, <1>12 DEF Next, Step

(* Nobody has called anything.                                             *)
LEMMA LocksInvInit ==
  Init => LocksInv
<1> SUFFICES ASSUME Init  PROVE LocksInv
  OBVIOUS
<1>1. NoThread \notin Threads
  BY LocksAssumption DEF LocksAssumption
<1>2. TypeOK
  BY <1>1 DEF Init, TypeOK
<1>3. \A t \in Threads : Guards(t) = {} /\ rest[t] = << >>
  BY DEF Init, Guards
<1>4. \A t \in Threads : Leads(rest[t], Guards(t), {})
  BY <1>3, NothingLeads
<1>5. \A l \in LockNames : writer[l] = NoThread
  BY DEF Init
<1> QED BY <1>2, <1>4, <1>5 DEF LocksInv, Disciplined, ClaimsWait

(* LocksInv holds of the locks and guards of every call, of any number of  *)
(* threads (engine.rs:91-202, 371-425; tracker.rs:40-44).                  *)
THEOREM LocksInOrder ==
  Spec => []LocksInv
<1>1. Init => LocksInv
  BY LocksInvInit
<1>2. LocksInv /\ [Next]_vars => LocksInv'
  BY LocksInvStep
<1> QED BY <1>1, <1>2, PTL DEF Spec

(* The types of the locks: one writer or readers, and no guard outlives    *)
(* its call (engine.rs:105-200).                                           *)
THEOREM LockTypes ==
  Spec => []TypeOK
<1>1. LocksInv => TypeOK
  BY DEF LocksInv
<1> QED BY <1>1, LocksInOrder, PTL

-----------------------------------------------------------------------------
(* No circles.                                                             *)

(* What a thread waits for: the lock, and behind a claim its readers.      *)
Height(t) == 2 * Rank[Lock(t)] + (IF writer[Lock(t)] = t THEN 1 ELSE 0)

(* The locks are waited for upwards.                                       *)
LEMMA WaitsUpwards ==
  ASSUME LocksInv, NEW t \in Threads, NEW u \in Threads, NEW v \in Threads,
         WaitsFor(t, u), WaitsFor(u, v)
  PROVE  /\ Height(t) \in 0 .. 11 /\ Height(u) \in 0 .. 11
         /\ Height(t) < Height(u)
<1> DEFINE l == Lock(t)
           k == Lock(u)
<1>1. /\ rest[t] # << >> /\ (Due(t, "read") \/ Due(t, "write"))
      /\ rest[u] # << >> /\ Head(rest[u]).op \in {"read", "write"} /\ Head(rest[u]).lock = k
  BY DEF WaitsFor, Due, Lock
<1>2. l \in LockNames /\ k \in LockNames /\ Allowed(Head(rest[u]), Guards(u))
  BY <1>1, Onward
<1>3. Rank[l] \in 1 .. 5 /\ Rank[k] \in 1 .. 5
  BY <1>2, Ranks
<1>4. l \in Guards(u) => Rank[l] < Rank[k]
  BY <1>1, <1>2 DEF Allowed, Above
<1>5. /\ Height(t) = 2 * Rank[l] + (IF writer[l] = t THEN 1 ELSE 0)
      /\ Height(u) = 2 * Rank[k] + (IF writer[k] = u THEN 1 ELSE 0)
  BY DEF Height
<1>6. u # NoThread
  BY LocksAssumption DEF LocksAssumption
<1>7. writer[l] = u /\ ~ entered[l] => Due(u, "write") /\ k = l
  BY <1>2, <1>6 DEF LocksInv, Disciplined, ClaimsWait
<1> HIDE DEF l, k
<1>8. \/ writer[l] = u
      \/ u \in readers[l]
  BY DEF WaitsFor, l
<1>9. CASE l \in Guards(u)
  BY <1>3, <1>4, <1>5, <1>9
<1>10. CASE l \notin Guards(u)
  <2>1. writer[l] = u /\ ~ entered[l]
    BY <1>2, <1>8, <1>10 DEF Guards
  <2>2. k = l /\ t # u
    <3>1. k = l /\ Due(u, "write") /\ u \notin readers[l]
      BY <1>2, <1>7, <1>10, <2>1 DEF Guards
    <3>2. t = u => FALSE
      BY <2>1, <3>1 DEF WaitsFor, Due, l
    <3> QED BY <3>1, <3>2
  <2> QED BY <1>3, <1>5, <2>1, <2>2
<1> QED BY <1>9, <1>10

(* Among the threads that wait, the one that waits highest waits for a     *)
(* thread that can go on.                                                  *)
LEMMA NoCircle ==
  LocksInv => NoCircularWait
<1> SUFFICES ASSUME LocksInv, NEW S \in SUBSET Threads, S # {},
                    \A t \in S : \E u \in S : WaitsFor(t, u)
             PROVE  FALSE
  BY DEF NoCircularWait
<1> DEFINE Heights == {Height(t) : t \in S}
<1>1. \A t \in S : Height(t) \in 0 .. 11
  BY WaitsUpwards
<1>2. Heights \in SUBSET (0 .. 11) /\ Heights # {}
  BY <1>1
<1>3. PICK h \in Heights : \A n \in Heights : n <= h
  <2> HIDE DEF Heights
  <2> QED BY <1>2, Greatest
<1>4. PICK t \in S : Height(t) = h
  OBVIOUS
<1>5. PICK u \in S : WaitsFor(t, u)
  OBVIOUS
<1>6. PICK v \in S : WaitsFor(u, v)
  OBVIOUS
<1>7. Height(t) < Height(u) /\ Height(t) \in 0 .. 11 /\ Height(u) \in 0 .. 11
  BY <1>5, <1>6, WaitsUpwards
<1>8. Height(u) <= h
  BY <1>3
<1> QED BY <1>4, <1>7, <1>8

(* No set of threads waits for one another, whatever they call, however    *)
(* many there are and however many levels they sweep: the order of locks   *)
(* is kept on every path (engine.rs:105, 159, 355, 383, 400; tracker.rs:40).*)
THEOREM NoDeadlock ==
  Spec => []NoCircularWait
<1>1. LocksInv => NoCircularWait
  BY NoCircle
<1> QED BY <1>1, LocksInOrder, PTL
=============================================================================
