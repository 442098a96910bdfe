---------------------------- MODULE MetricsProofs ----------------------------
(***************************************************************************)
(* Proofs about the metrics, for any number of threads and of orders: what *)
(* is recorded is what is stored, and what a monitor may rely on although  *)
(* each field of an answer is read at a moment of its own.                 *)
(***************************************************************************)
EXTENDS Metrics, TotalsProofs

(* A record is owed by an idle task, and the recorder is one of those.     *)
RecordInv ==
  /\ unrecorded \subseteq {t \in Tasks : pc[t] = "idle"}
  /\ IsFiniteSet(unrecorded)
  /\ recorder \in unrecorded \cup {NoTask}
  /\ orders_processed \in Nat
  /\ EveryOrderIsRecordedOnce

(* What was read of a counter is not more than the counter has now, and no *)
(* sample was larger than it is now; what was read of the histogram was    *)
(* counted before the throughput is read, which is last.                   *)
ReadInv ==
  /\ DOMAIN metrics = EngineFields /\ DOMAIN samples = SampledFields
  /\ \A f \in Counters : metrics[f] \in Nat /\ metrics[f] <= Count(f)
  /\ \A f \in Latencies : samples[f] \in Nat /\ samples[f] <= orders_processed
  /\ \E i \in 1 .. Len(Fields) + 1 : reading = SubSeq(Fields, i, Len(Fields))
  /\ ThroughputCoversPercentiles

-----------------------------------------------------------------------------
(* The nine fields by name: throughput is the last.                        *)
LEMMA FieldNames ==
  /\ Fields \in Seq(ToSet(Fields)) /\ Len(Fields) = 9
  /\ \A i \in 1 .. 9 : Fields[i] \in ToSet(Fields)
  /\ \A i \in 1 .. 9 : Fields[i] = "throughput" <=> i = 9
  /\ ToSet(Fields) = EngineFields \cup SampledFields
  /\ EngineFields \cap SampledFields = {}
  /\ Counters \subseteq EngineFields
  /\ Latencies \subseteq SampledFields /\ "throughput" \in SampledFields \ Latencies
<1>1. Fields \in Seq({"orders_received", "orders_matched", "orders_cancelled",
                     "orders_in_book", "trades_executed", "latency_p50", "latency_p99",
                     "latency_p999", "throughput"})
      /\ Len(Fields) = 9 /\ DOMAIN Fields = 1 .. 9
  <2>1. Fields \in Seq({"orders_received", "orders_matched", "orders_cancelled",
                        "orders_in_book", "trades_executed", "latency_p50", "latency_p99",
                        "latency_p999", "throughput"})
    BY DEF Fields
  <2>2. Len(Fields) = 9
    BY DEF Fields
  <2> QED BY <2>1, <2>2
<1>2. ToSet(Fields) = {Fields[i] : i \in 1 .. 9}
  BY <1>1 DEF ToSet
<1>3. 1 .. 9 = {1, 2, 3, 4, 5, 6, 7, 8, 9}
  OBVIOUS
<1>4. /\ Fields[1] = "orders_received" /\ Fields[2] = "orders_matched"
      /\ Fields[3] = "orders_cancelled" /\ Fields[4] = "orders_in_book"
      /\ Fields[5] = "trades_executed" /\ Fields[6] = "latency_p50"
      /\ Fields[7] = "latency_p99" /\ Fields[8] = "latency_p999" /\ Fields[9] = "throughput"
  BY DEF Fields
<1>5. ToSet(Fields) = {"orders_received", "orders_matched", "orders_cancelled",
                       "orders_in_book", "trades_executed", "latency_p50", "latency_p99",
                       "latency_p999", "throughput"}
  BY <1>2, <1>3, <1>4
<1>6. \A i \in 1 .. 9 : Fields[i] = "throughput" <=> i = 9
  BY <1>3, <1>4
<1> QED BY <1>1, <1>2, <1>5, <1>6 DEF Counters, EngineFields, Latencies, SampledFields

(* What is left of a list of nine while it is read from its head.           *)
ReadInTurn(q) ==
  /\ SubSeq(q, 1, 9) = q /\ q # << >>
  /\ SubSeq(q, 10, 9) = << >>
  /\ \A i \in 1 .. 9 : /\ SubSeq(q, i, 9) # << >>
                       /\ Head(SubSeq(q, i, 9)) = q[i]
                       /\ Tail(SubSeq(q, i, 9)) = SubSeq(q, i + 1, 9)

(* SubSeq, Head and Tail of a list of nine.                                *)
LEMMA SuffixFacts ==
  ASSUME NEW S, NEW q \in Seq(S), Len(q) = 9
  PROVE  ReadInTurn(q)
<1>1. SubSeq(q, 1, 9) = q
  BY SubSeqFull
<1>2. SubSeq(q, 10, 9) = << >>
  BY SubSeqEmpty
<1>3. ASSUME NEW i \in 1 .. 9
      PROVE  /\ SubSeq(q, i, 9) # << >>
             /\ Head(SubSeq(q, i, 9)) = q[i]
             /\ Tail(SubSeq(q, i, 9)) = SubSeq(q, i + 1, 9)
  <2>1. i \in 1 .. Len(q) /\ 9 \in i .. Len(q)
    OBVIOUS
  <2>2. Head(SubSeq(q, i, 9)) = q[i] /\ Tail(SubSeq(q, i, 9)) = SubSeq(q, i + 1, 9)
    BY <2>1, HeadTailOfSubSeq
  <2>3. Len(SubSeq(q, i, 9)) = 9 - i + 1
    <3>1. \A j \in i .. 9 : q[j] \in S
      <4>1. \A j \in i .. 9 : j \in 1 .. Len(q)
        OBVIOUS
      <4> QED BY <4>1, ElementOfSeq
    <3> QED BY <3>1, SubSeqProperties
  <2> QED BY <2>2, <2>3
<1>4. q # << >>
  OBVIOUS
<1> QED BY <1>1, <1>2, <1>3, <1>4, Zenon DEF ReadInTurn

(* The same of Fields.                                                     *)
LEMMA FieldsLeft ==
  /\ SubSeq(Fields, 1, 9) = Fields /\ Fields # << >>
  /\ SubSeq(Fields, 10, 9) = << >>
  /\ \A i \in 1 .. 9 : /\ SubSeq(Fields, i, 9) # << >>
                       /\ Head(SubSeq(Fields, i, 9)) = Fields[i]
                       /\ Tail(SubSeq(Fields, i, 9)) = SubSeq(Fields, i + 1, 9)
<1>1. Fields \in Seq(ToSet(Fields)) /\ Len(Fields) = 9
  BY FieldNames
<1>2. ReadInTurn(Fields)
  BY <1>1, SuffixFacts, Zenon
<1> QED BY <1>2, Zenon DEF ReadInTurn

(* The steps of the composition are steps of the engine, or leave it alone.*)
LEMMA EngineWithin ==
  ASSUME MetricsNext \/ UNCHANGED metricsVars
  PROVE  [Next]_vars
BY DEF MetricsNext, EngineStep, RecordLatency, CountProcessed, GetMetrics, ReadField, Next,
  metricsVars

-----------------------------------------------------------------------------
(* The set of stored orders changes when a submission succeeds, by one.    *)
LEMMA StoredOnce ==
  ASSUME IInv, NEW t \in Tasks,
         Refuse(t) \/ SubmitOrder(t) \/ CancelCheck(t) \/ Acquire(t) \/ Proceed(t)
  PROVE  /\ Succeeds(t) => \E o \in Ids \ Received : Received' = Received \cup {o}
         /\ ~ Succeeds(t) => Received' = Received
<1>1. /\ TypeOK /\ orders \in [Ids -> Copy]
      /\ Received = {o \in Ids : orders[o] # Absent}
      /\ Received' = {o \in Ids : orders'[o] # Absent}
  BY DEF IInv, TypeInv, TypeOK, Received, Ids, Absent
<1>2. CASE Succeeds(t)
  <2>1. pc[t] = "store" /\ orders' = [orders EXCEPT ![work[t]] = incoming]
    BY <1>2 DEF Succeeds, StoreFilled, StoreResting, StoreOrder
  <2>2. work[t] \in Ids /\ orders[work[t]] = Absent
    BY <2>1, Storing
  <2>3. incoming # Absent
    BY <2>1 DEF IInv, IncomingInv, StatusOf, Absent
  <2>4. Received' = Received \cup {work[t]} /\ work[t] \notin Received
    BY <1>1, <2>1, <2>2, <2>3
  <2> QED BY <1>2, <2>2, <2>4
<1>3. CASE FinishLevel(t)
  <2>1. ASSUME NEW o \in Ids
        PROVE  orders'[o] = Absent <=> orders[o] = Absent
    <3>1. orders' = StoreFills
      BY <1>3 DEF FinishLevel
    <3>2. CASE filled_qty[o] > 0
      <4>1. o \in Created /\ orders[o] # Absent
        BY <3>2 DEF IInv, PendingInv, Active, Absent
      <4>2. orders'[o] = Fill(request[o], orders[o], filled_qty[o])
        BY <3>1, <3>2, <4>1 DEF StoreFills
      <4>3. orders'[o].status \in {"Filled", "PartialFill"}
        BY <1>1, <3>2, <4>1, <4>2, CreatedType, CopyType, FillEffect
      <4> QED BY <4>1, <4>3 DEF Absent
    <3>3. CASE ~ (filled_qty[o] > 0)
      BY <3>1, <3>3 DEF StoreFills
    <3> QED BY <3>2, <3>3
  <2>2. Received' = Received
    BY <1>1, <2>1
  <2>3. ~ Succeeds(t)
    BY <1>3 DEF Succeeds, FinishLevel, StoreFilled, StoreResting
  <2> QED BY <2>2, <2>3
<1>4. CASE CancelMark(t)
  <2>1. pc[t] = "mark" /\ orders' = [orders EXCEPT ![work[t]] = Cancel(@)]
    BY <1>4 DEF CancelMark
  <2>2. work[t] \in Ids /\ orders[work[t]].status # "Absent"
    BY <1>1, <2>1, OwnType DEF IInv, TasksInv
  <2>3. orders[work[t]] # Absent /\ Cancel(orders[work[t]]).status = "Cancelled"
    BY <1>1, <2>2 DEF Cancel, Copy, Absent
  <2>4. Received' = Received
    BY <1>1, <2>1, <2>2, <2>3 DEF Absent
  <2>5. ~ Succeeds(t)
    BY <2>1 DEF Succeeds, StoreFilled, StoreResting
  <2> QED BY <2>4, <2>5
<1>5. CASE \/ Refuse(t) \/ SubmitOrder(t) \/ CancelCheck(t) \/ Acquire(t)
           \/ Trade(t) \/ CountTrades(t) \/ PanicInAdd(t)
  <2>1. orders' = orders
    BY <1>5 DEF Refuse, SubmitOrder, CancelCheck, Acquire, StartMatching, RejectMarket,
      PanicInSum, CancelRemove, CancelMissed, Trade, CountTrades, PanicInAdd, vars
  <2>2. Received' = Received
    BY <1>1, <2>1
  <2> QED BY <1>2, <2>2
<1> QED BY <1>2, <1>3, <1>4, <1>5 DEF Proceed, Succeeds

(* The stored orders are finitely many.                                    *)
LEMMA Stored ==
  IsFiniteSet(Received) /\ Cardinality(Received) \in Nat
<1>1. IsFiniteSet(Ids)
  BY EngineAssumption, FS_Interval DEF Ids, EngineAssumption
<1>2. Received \in SUBSET Ids
  BY DEF Received
<1> QED BY <1>1, <1>2, FS_Subset, FS_CardinalityType

(* What the engine counts never falls.                                     *)
LEMMA CountsGrow ==
  ASSUME IInv, IInv', [Next]_vars
  PROVE  /\ Cardinality(Received)' >= Cardinality(Received)
         /\ Cardinality(Matched)' >= Cardinality(Matched)
         /\ Cardinality(CancelledOrders)' >= Cardinality(CancelledOrders)
         /\ trade_count' >= trade_count
         /\ Cardinality(Received) \in Nat /\ Cardinality(Matched) \in Nat
         /\ Cardinality(CancelledOrders) \in Nat /\ trade_count \in Nat
         /\ Cardinality(Received)' \in Nat /\ Cardinality(Matched)' \in Nat
         /\ Cardinality(CancelledOrders)' \in Nat /\ trade_count' \in Nat
<1>1. IsFiniteSet(Ids)
  BY EngineAssumption, FS_Interval DEF Ids, EngineAssumption
<1>2. ASSUME NEW S \in SUBSET Ids, NEW T \in SUBSET Ids, S \subseteq T
      PROVE  Cardinality(S) <= Cardinality(T) /\ Cardinality(S) \in Nat /\ Cardinality(T) \in Nat
  BY <1>1, <1>2, FS_Subset, FS_CardinalityType
<1>3. Received \subseteq Received'
  <2>1. CASE UNCHANGED vars
    BY <2>1 DEF vars, Received, Ids, Absent
  <2>2. CASE Next
    BY <2>2, StoredOnce DEF Next
  <2> QED BY <2>1, <2>2
<1>4. ASSUME NEW o \in Received
      PROVE  /\ orders[o].filled > 0 => orders'[o].filled > 0
             /\ orders[o].status = "Cancelled" => orders'[o].status = "Cancelled"
  <2>1. /\ o \in Ids /\ orders[o] # Absent /\ orders[o] \in Copy /\ orders[o].filled \in Nat
        /\ filled_qty[o] \in Nat
    BY CopyType DEF IInv, TypeInv, Received
  <2>2. Cancel(orders[o]).filled = orders[o].filled /\ Cancel(orders[o]).status = "Cancelled"
    BY <2>1 DEF Cancel, Copy
  <2>3. \/ orders'[o] = orders[o]
        \/ /\ orders[o].status \in Active
           /\ orders'[o].filled = orders[o].filled + filled_qty[o]
        \/ orders'[o] = Cancel(orders[o])
    BY <2>1, OrderSteps
  <2> QED BY <2>1, <2>2, <2>3 DEF Active
<1>5. Matched \subseteq Matched' /\ CancelledOrders \subseteq CancelledOrders'
  BY <1>3, <1>4 DEF Matched, CancelledOrders
<1>6. /\ Received \in SUBSET Ids /\ Received' \in SUBSET Ids
      /\ Matched \in SUBSET Ids /\ Matched' \in SUBSET Ids
      /\ CancelledOrders \in SUBSET Ids /\ CancelledOrders' \in SUBSET Ids
  BY DEF Matched, CancelledOrders, Received, Ids
<1>7. trade_count \in Nat /\ trade_count' \in Nat /\ trade_count' >= trade_count
  <2>1. trade_count \in Nat /\ trades \in Nat /\ trade_count' \in Nat
    BY DEF IInv, TypeInv, TypeOK
  <2>2. trade_count' = trade_count \/ trade_count' = trade_count + trades
    BY DEF Next, vars, Refuse, SubmitOrder, CancelCheck, Acquire, StartMatching, RejectMarket,
      PanicInSum, CancelRemove, CancelMissed, Proceed, Trade, FinishLevel, CountTrades,
      StoreFilled, StoreResting, PanicInAdd, CancelMark
  <2> QED BY <2>1, <2>2
<1>8. /\ Cardinality(Received)' = Cardinality(Received')
      /\ Cardinality(Matched)' = Cardinality(Matched')
      /\ Cardinality(CancelledOrders)' = Cardinality(CancelledOrders')
  OBVIOUS
<1> QED BY <1>2, <1>3, <1>5, <1>6, <1>7, <1>8

-----------------------------------------------------------------------------
(* The histogram takes every latency that is clamped.                      *)
LEMMA ClampIsRecordable ==
  ASSUME NEW micros \in Durations
  PROVE  Recordable(Clamp(micros))
<1>1. HighestLatency \in Nat /\ micros \in Int
  BY DEF Durations, HighestLatency
<1>2. PICK a \in Int : a = Max({micros, 1})
  <2>1. \E x \in {micros, 1} : \A y \in {micros, 1} : x >= y
    BY <1>1
  <2> QED BY <1>1, <2>1 DEF Max
<1>3. \E x \in {a, HighestLatency} : \A y \in {a, HighestLatency} : x <= y
  BY <1>1
<1>4. Min({a, HighestLatency}) <= HighestLatency
  BY <1>1, <1>3 DEF Min
<1> QED BY <1>2, <1>4 DEF Clamp, Recordable

(* The parts of the composition move one at a time.                        *)
LEMMA InitRecord ==
  ASSUME MetricsInit
  PROVE  RecordInv
<1>1. Received = {}
  BY DEF MetricsInit, Init, Received, Absent
<1> QED BY <1>1, FS_EmptySet DEF MetricsInit, Init, RecordInv, EveryOrderIsRecordedOnce

(* Every step keeps the account of what is recorded.                       *)
LEMMA NextRecord ==
  ASSUME IInv, RecordInv, MetricsNext \/ UNCHANGED metricsVars
  PROVE  RecordInv'
<1>1. NoTask \notin Tasks
  BY EngineAssumption DEF EngineAssumption
<1>2. /\ Cardinality(Received) \in Nat /\ IsFiniteSet(Received)
      /\ Cardinality(unrecorded) \in Nat /\ IsFiniteSet(unrecorded)
      /\ Cardinality(Received) = orders_processed + Cardinality(unrecorded)
      /\ latency_histogram = IF recorder = NoTask THEN orders_processed
                              ELSE orders_processed + 1
      /\ orders_processed \in Nat
  BY Stored, FS_CardinalityType DEF RecordInv, EveryOrderIsRecordedOnce
<1>3. ASSUME NEW t \in Tasks, EngineStep(t)
      PROVE  RecordInv'
  <2>1. /\ t \notin unrecorded /\ UNCHANGED tracker
        /\ Refuse(t) \/ SubmitOrder(t) \/ CancelCheck(t) \/ Acquire(t) \/ Proceed(t)
        /\ unrecorded' = IF Succeeds(t) THEN unrecorded \cup {t} ELSE unrecorded
    BY <1>3 DEF EngineStep, RecordSuccess
  <2>2. /\ \A u \in Tasks \ {t} : pc'[u] = pc[u]
        /\ Succeeds(t) => pc'[t] = "idle"
    <3>1. pc' = pc \/ \E place \in Places : pc' = [pc EXCEPT ![t] = place]
      BY <2>1 DEF Refuse, SubmitOrder, CancelCheck, Acquire, StartMatching, RejectMarket,
        PanicInSum, CancelRemove, CancelMissed, Proceed, Trade, FinishLevel, CountTrades,
        StoreFilled, StoreResting, PanicInAdd, CancelMark, Release, Return, Goto, vars, Places
    <3>2. Succeeds(t) => pc' = [pc EXCEPT ![t] = "idle"]
      BY DEF Succeeds, StoreFilled, StoreResting, Release, Return, Goto
    <3> QED BY <3>1, <3>2 DEF IInv, TypeInv, TypeOK
  <2>3. unrecorded' \subseteq {u \in Tasks : pc'[u] = "idle"}
    BY <2>1, <2>2 DEF RecordInv
  <2>4. /\ IsFiniteSet(unrecorded')
        /\ Cardinality(Received') = orders_processed + Cardinality(unrecorded')
    <3>1. CASE Succeeds(t)
      <4>1. PICK o : o \notin Received /\ Received' = Received \cup {o}
        BY <2>1, <3>1, StoredOnce
      <4>2. Cardinality(Received') = Cardinality(Received) + 1
        BY <1>2, <4>1, FS_AddElement
      <4>3. unrecorded' = unrecorded \cup {t}
        BY <2>1, <3>1
      <4>4. IsFiniteSet(unrecorded') /\ Cardinality(unrecorded') = Cardinality(unrecorded) + 1
        BY <1>2, <2>1, <4>3, FS_AddElement
      <4> QED BY <1>2, <4>2, <4>4
    <3>2. CASE ~ Succeeds(t)
      BY <1>2, <2>1, <3>2, StoredOnce
    <3> QED BY <3>1, <3>2
  <2>5. Cardinality(Received)' = Cardinality(Received')
        /\ Cardinality(unrecorded)' = Cardinality(unrecorded')
    OBVIOUS
  <2> QED BY <1>2, <2>1, <2>3, <2>4, <2>5
      DEF RecordInv, EveryOrderIsRecordedOnce, tracker
<1>4. ASSUME NEW t \in Tasks, RecordLatency(t)
      PROVE  RecordInv'
  <2>1. /\ t \in unrecorded /\ recorder = NoTask /\ recorder' = t
        /\ latency_histogram' = latency_histogram + 1
        /\ UNCHANGED <<vars, unrecorded, orders_processed>>
    BY <1>4, ClampIsRecordable DEF RecordLatency
  <2>2. Received' = Received
    BY <2>1 DEF vars, Received, Ids, Absent
  <2> QED BY <1>1, <1>2, <2>1, <2>2 DEF RecordInv, EveryOrderIsRecordedOnce, vars
<1>5. ASSUME NEW t \in Tasks, CountProcessed(t)
      PROVE  RecordInv'
  <2>1. /\ recorder = t /\ recorder' = NoTask /\ t \in unrecorded
        /\ orders_processed' = orders_processed + 1
        /\ unrecorded' = unrecorded \ {t}
        /\ UNCHANGED <<vars, latency_histogram>>
    BY <1>1, <1>5 DEF CountProcessed, RecordInv
  <2>2. Received' = Received
    BY <2>1 DEF vars, Received, Ids, Absent
  <2>3. IsFiniteSet(unrecorded') /\ Cardinality(unrecorded') = Cardinality(unrecorded) - 1
    BY <1>2, <2>1, FS_RemoveElement
  <2>4. Cardinality(Received)' = Cardinality(Received')
        /\ Cardinality(unrecorded)' = Cardinality(unrecorded')
    OBVIOUS
  <2>5. latency_histogram' = orders_processed'
    BY <1>1, <1>2, <2>1
  <2>6. unrecorded' \subseteq {u \in Tasks : pc'[u] = "idle"}
    BY <2>1 DEF RecordInv, vars
  <2> QED BY <1>2, <2>1, <2>2, <2>3, <2>4, <2>5, <2>6 DEF RecordInv, EveryOrderIsRecordedOnce
<1>6. CASE GetMetrics \/ ReadField \/ UNCHANGED metricsVars
  <2>1. UNCHANGED <<vars, unrecorded, tracker>>
    BY <1>6 DEF GetMetrics, ReadField, metricsVars
  <2>2. Received' = Received /\ pc' = pc
    BY <2>1 DEF vars, Received, Ids, Absent
  <2> QED BY <2>1, <2>2 DEF RecordInv, EveryOrderIsRecordedOnce, tracker
<1> QED BY <1>3, <1>4, <1>5, <1>6 DEF MetricsNext

-----------------------------------------------------------------------------
(* What is counted and recorded never becomes less.                        *)
LEMMA FieldsGrow ==
  ASSUME IInv, IInv', RecordInv, RecordInv', MetricsNext \/ UNCHANGED metricsVars
  PROVE  /\ \A f \in Counters : Count(f) \in Nat /\ Count(f)' \in Nat /\ Count(f) <= Count(f)'
         /\ orders_processed \in Nat /\ orders_processed' \in Nat
         /\ orders_processed <= orders_processed'
<1>1. [Next]_vars
  BY EngineWithin
<1>2. ASSUME NEW f \in Counters
      PROVE  Count(f) \in Nat /\ Count(f)' \in Nat /\ Count(f) <= Count(f)'
  <2>1. CASE f = "orders_received"
    BY <1>1, <2>1, CountsGrow DEF Count
  <2>2. CASE f = "orders_matched"
    BY <1>1, <2>2, CountsGrow DEF Count
  <2>3. CASE f = "orders_cancelled"
    BY <1>1, <2>3, CountsGrow DEF Count
  <2>4. CASE f = "trades_executed"
    BY <1>1, <2>4, CountsGrow DEF Count
  <2> QED BY <2>1, <2>2, <2>3, <2>4 DEF Counters
<1>3. \/ orders_processed' = orders_processed
      \/ orders_processed' = orders_processed + 1
  BY DEF MetricsNext, EngineStep, RecordLatency, CountProcessed, GetMetrics, ReadField,
    metricsVars, tracker
<1>4. orders_processed \in Nat
  BY DEF RecordInv
<1> QED BY <1>2, <1>3, <1>4

(* Nothing is read at first.                                               *)
LEMMA InitRead ==
  ASSUME MetricsInit
  PROVE  ReadInv
<1>1. /\ DOMAIN metrics = EngineFields /\ DOMAIN samples = SampledFields
      /\ \A f \in EngineFields : metrics[f] = 0
      /\ \A f \in SampledFields : samples[f] = 0
      /\ orders_processed = 0 /\ trade_count = 0 /\ reading = << >>
  BY DEF MetricsInit, Init
<1>2. Received = {} /\ Matched = {} /\ CancelledOrders = {}
  BY DEF MetricsInit, Init, Received, Matched, CancelledOrders, Absent
<1>3. \A f \in Counters : Count(f) = 0
  BY <1>1, <1>2, FS_EmptySet DEF Count, Counters
<1>4. reading = SubSeq(Fields, 10, 9)
  BY <1>1, FieldsLeft
<1>5. 10 \in 1 .. Len(Fields) + 1
  BY FieldNames
<1> QED BY <1>1, <1>3, <1>4, <1>5, FieldNames DEF ReadInv, ThroughputCoversPercentiles

(* Every step keeps what was read below what is there, and raises it.      *)
LEMMA NextRead ==
  ASSUME IInv, IInv', RecordInv, RecordInv', ReadInv, MetricsNext \/ UNCHANGED metricsVars
  PROVE  /\ ReadInv'
         /\ \A f \in Counters : metrics'[f] >= metrics[f]
<1>1. /\ \A f \in Counters : metrics[f] \in Nat /\ metrics[f] <= Count(f)'
      /\ \A f \in Latencies : samples[f] \in Nat /\ samples[f] <= orders_processed'
  BY FieldsGrow DEF ReadInv
<1>2. CASE UNCHANGED monitor
  <2>1. UNCHANGED <<reading, metrics, samples>>
    BY <1>2 DEF monitor
  <2>2. \A f \in Counters : metrics'[f] >= metrics[f]
    BY <1>1, <2>1
  <2> QED BY <1>1, <2>1, <2>2 DEF ReadInv, ThroughputCoversPercentiles
<1>3. CASE GetMetrics
  <2>1. UNCHANGED <<metrics, samples>> /\ reading' = Fields
    BY <1>3 DEF GetMetrics
  <2>2. reading' = SubSeq(Fields, 1, Len(Fields)) /\ reading' # << >>
        /\ 1 \in 1 .. Len(Fields) + 1
    BY <2>1, FieldNames, FieldsLeft
  <2>3. \A f \in Counters : metrics'[f] >= metrics[f]
    BY <1>1, <2>1
  <2> QED BY <1>1, <2>1, <2>2, <2>3 DEF ReadInv, ThroughputCoversPercentiles
<1>4. CASE ReadField
  <2>1. PICK i \in 1 .. 9 : reading = SubSeq(Fields, i, 9)
    <3>1. PICK i \in 1 .. 10 : reading = SubSeq(Fields, i, 9)
      <4>1. Len(Fields) = 9 /\ Len(Fields) + 1 = 10
        BY FieldNames
      <4> QED BY <4>1 DEF ReadInv
    <3>2. i # 10
      BY <1>4, <3>1, FieldsLeft DEF ReadField
    <3>3. i \in 1 .. 9
      BY <3>2
    <3> QED BY <3>1, <3>3
  <2>2. PICK g \in ToSet(Fields) : g = Fields[i]
    BY FieldNames
  <2>3. Head(reading) = g /\ Tail(reading) = SubSeq(Fields, i + 1, 9)
    BY <2>1, <2>2, FieldsLeft
  <2>4. /\ UNCHANGED <<orders_processed, latency_histogram, recorder>>
        /\ Readable(g)
        /\ reading' = SubSeq(Fields, i + 1, 9)
        /\ \/ /\ g \in EngineFields
              /\ metrics' = [metrics EXCEPT ![g] = Count(g)] /\ samples' = samples
           \/ /\ g \in SampledFields
              /\ samples' = [samples EXCEPT ![g] = Sample(g)] /\ metrics' = metrics
    BY <1>4, <2>3 DEF ReadField, tracker
  <2>5. DOMAIN metrics' = EngineFields /\ DOMAIN samples' = SampledFields
    BY <2>4 DEF ReadInv
  <2>6. \A f \in Counters : /\ metrics'[f] \in Nat /\ metrics'[f] <= Count(f)'
                            /\ metrics'[f] >= metrics[f]
    <3>1. CASE metrics' = metrics
      BY <1>1, <3>1
    <3>2. CASE g \in EngineFields /\ metrics' = [metrics EXCEPT ![g] = Count(g)]
      <4>1. SUFFICES ASSUME NEW f \in Counters
                     PROVE  /\ metrics'[f] \in Nat /\ metrics'[f] <= Count(f)'
                            /\ metrics'[f] >= metrics[f]
        OBVIOUS
      <4>2. /\ Count(f) \in Nat /\ Count(f)' \in Nat /\ Count(f) <= Count(f)'
            /\ metrics[f] \in Nat /\ metrics[f] <= Count(f)
        BY FieldsGrow DEF ReadInv
      <4>3. metrics'[f] = IF f = g THEN Count(f) ELSE metrics[f]
        BY <3>2, FieldNames DEF ReadInv
      <4> QED BY <1>1, <4>2, <4>3
    <3> QED BY <2>4, <3>1, <3>2
  <2>7. \A f \in SampledFields : samples'[f] = IF f = g THEN Sample(g) ELSE samples[f]
    <3>1. CASE samples' = samples /\ g \in EngineFields
      BY <3>1, FieldNames
    <3>2. CASE samples' = [samples EXCEPT ![g] = Sample(g)]
      BY <3>2 DEF ReadInv
    <3> QED BY <2>4, <3>1, <3>2
  <2>8. \A f \in Latencies : samples'[f] \in Nat /\ samples'[f] <= orders_processed'
    <3>1. SUFFICES ASSUME NEW f \in Latencies
                   PROVE  samples'[f] \in Nat /\ samples'[f] <= orders_processed'
      OBVIOUS
    <3>2. f \in SampledFields /\ f # "throughput"
      BY FieldNames
    <3>3. samples'[f] = IF f = g THEN Sample(f) ELSE samples[f]
      BY <2>7, <3>2
    <3>4. f = g => Sample(f) = orders_processed
      BY <2>4, <3>2 DEF Readable, RecordInv, EveryOrderIsRecordedOnce, Sample
    <3>5. orders_processed \in Nat /\ orders_processed' = orders_processed
      BY <2>4 DEF RecordInv
    <3> QED BY <1>1, <3>3, <3>4, <3>5
  <2>9. reading' = << >> => g = "throughput"
    <3>1. i # 9 => reading' # << >>
      <4>1. i # 9 => i + 1 \in 1 .. 9
        OBVIOUS
      <4> QED BY <2>4, <4>1, FieldsLeft
    <3> QED BY <2>2, <3>1, FieldNames
  <2>10. ThroughputCoversPercentiles'
    <3>1. ASSUME reading' = << >>
          PROVE  samples'["throughput"] = orders_processed'
      BY <2>4, <2>7, <2>9, <3>1, FieldNames DEF Sample
    <3> QED BY <2>8, <3>1 DEF ThroughputCoversPercentiles
  <2>11. i + 1 \in 1 .. Len(Fields) + 1 /\ reading' = SubSeq(Fields, i + 1, Len(Fields))
    BY <2>4, FieldNames
  <2> QED BY <2>5, <2>6, <2>8, <2>10, <2>11 DEF ReadInv
<1>5. UNCHANGED monitor \/ GetMetrics \/ ReadField
  BY DEF MetricsNext, EngineStep, RecordLatency, CountProcessed, metricsVars
<1> QED BY <1>2, <1>3, <1>4, <1>5

-----------------------------------------------------------------------------
(* The engine behaves under its metrics as it does without them, so all    *)
(* that is known of its states holds here.                                 *)
LEMMA EngineUnderMetrics == MetricsSpec => Spec /\ []IInv
<1>1. MetricsInit => Init
  BY DEF MetricsInit
<1>2. [MetricsNext]_metricsVars => [Next]_vars
  BY EngineWithin
<1>3. Init => IInv
  BY InitIInv
<1>4. IInv /\ [Next]_vars => IInv'
  BY NextIInv
<1> QED BY <1>1, <1>2, <1>3, <1>4, PTL DEF MetricsSpec, Spec

(* Whatever the number of threads and of orders, each stored order is      *)
(* recorded once and no other is (handlers.rs:27-30).                      *)
THEOREM RecordedOnce == MetricsSpec => []EveryOrderIsRecordedOnce
<1>1. MetricsInit => RecordInv
  BY InitRecord
<1>2. IInv /\ IInv' /\ RecordInv /\ [MetricsNext]_metricsVars => RecordInv'
  BY NextRecord
<1>3. RecordInv => EveryOrderIsRecordedOnce
  BY DEF RecordInv
<1> QED BY <1>1, <1>2, <1>3, EngineUnderMetrics, PTL DEF MetricsSpec

(* What a monitor may take from the answers, at all times.                 *)
LEMMA Reading == MetricsSpec => [](IInv /\ RecordInv /\ ReadInv)
<1>1. MetricsInit => RecordInv /\ ReadInv
  BY InitRecord, InitRead
<1>2. /\ IInv /\ IInv' /\ RecordInv /\ [MetricsNext]_metricsVars => RecordInv'
      /\ IInv /\ IInv' /\ RecordInv /\ RecordInv' /\ ReadInv /\ [MetricsNext]_metricsVars
           => ReadInv'
  BY NextRecord, NextRead
<1> QED BY <1>1, <1>2, EngineUnderMetrics, PTL DEF MetricsSpec

(* An answer that mixes moments never shows a throughput that counts fewer *)
(* orders than its percentiles are quantiles of (tracker.rs:108-111).      *)
THEOREM ThroughputCovers == MetricsSpec => []ThroughputCoversPercentiles
<1>1. ReadInv => ThroughputCoversPercentiles
  BY DEF ReadInv
<1> QED BY <1>1, Reading, PTL

(* Of the engine's counts, those a scraper takes for counters do not fall  *)
(* from one answer to the next (engine.rs:448-474).                        *)
THEOREM CountersGrow == MetricsSpec => CountersNeverFall
<1>1. ASSUME IInv, IInv', RecordInv, RecordInv', ReadInv, [MetricsNext]_metricsVars
      PROVE  [\A f \in Counters : metrics'[f] >= metrics[f]]_metricsVars
  BY <1>1, NextRead
<1> QED BY <1>1, Reading, PTL DEF MetricsSpec, CountersNeverFall

-----------------------------------------------------------------------------
(* What the fields can show.                                               *)

(* The sum over the books counts orders, each in the book of its symbol.   *)
LEMMA BookSize ==
  ASSUME IInv, LocationsInv, IsFiniteSet(Symbols)
  PROVE  OrdersInBook \in 0 .. MaxOrders
<1> DEFINE I == Symbols
           A == order_locations
           g == [s \in Symbols |-> Cardinality(order_locations[s])]
           f == [o \in Ids |-> 1]
           all == UNION {order_locations[s] : s \in Symbols}
           Is(h) == h = [s \in SUBSET Symbols |->
                           IF s = {} THEN 0
                           ELSE Cardinality(order_locations[Some(s)]) + h[Without(s)]]
<1>1. OrdersInBook = (CHOOSE h : Is(h))[Symbols]
  BY DEF OrdersInBook, MapThenSumSet, MapThenFoldSet, Some, Without
<1>2. ASSUME NEW h, NEW s \in SUBSET Symbols
      PROVE  (IF s = {} THEN 0 ELSE Cardinality(order_locations[Some(s)]) + h[Without(s)])
              = (IF s = {} THEN 0 ELSE g[Some(s)] + h[Without(s)])
  BY SomeIn
<1>3. \A h : IsSum(h, g, Symbols) <=> Is(h)
  BY <1>2 DEF IsSum
<1>4. (CHOOSE h : IsSum(h, g, Symbols)) = (CHOOSE h : Is(h))
  BY <1>3
<1>5. SumFunctionOnSet(g, Symbols) = (CHOOSE h : IsSum(h, g, Symbols))[Symbols]
  BY SumIs
<1>6. OrdersInBook = SumFunctionOnSet(g, I)
  BY <1>1, <1>4, <1>5
<1>7. /\ IsFiniteSet(Ids) /\ Cardinality(Ids) = MaxOrders /\ MaxOrders \in Nat
      /\ Created \subseteq Ids /\ order_locations \in [Symbols -> SUBSET Created]
  <2>1. MaxOrders \in Nat
    BY EngineAssumption DEF EngineAssumption
  <2>2. TypeOK
    BY DEF IInv, TypeInv
  <2>3. Created \subseteq Ids
    BY <2>2, CreatedType
  <2> QED BY <2>1, <2>2, <2>3, FS_Interval DEF Ids, TypeOK
<1>8. \A i \in I : A[i] \subseteq Ids /\ IsFiniteSet(A[i])
  BY <1>7, FS_Subset
<1>9. \A i, j \in I : i # j => A[i] \cap A[j] = {}
  BY DEF LocationsInv
<1>10. \A i \in I : \A x \in A[i] : f[x] = 1
  BY <1>8
<1>11. \A i \in I : g[i] = SumFunctionOnSet(f, A[i])
  <2> SUFFICES ASSUME NEW i \in I  PROVE g[i] = SumFunctionOnSet(f, A[i])
    OBVIOUS
  <2>1. IsFiniteSet(A[i]) /\ \A x \in A[i] : f[x] = 1
    BY <1>8, <1>10
  <2>2. g[i] = Cardinality(A[i])
    OBVIOUS
  <2> HIDE DEF A, f, g
  <2> QED BY <2>1, <2>2, SumOfOnes
<1>12. \A x : x \in all <=> \E i \in I : x \in A[i]
  OBVIOUS
<1>13. all \subseteq Ids
  BY <1>8
<1>14. \A i \in I : \A x \in A[i] : f[x] \in Nat
  BY <1>10
<1>15. \A x \in all : f[x] = 1
  BY <1>13
<1>16. IsFiniteSet(I) /\ \A i \in I : IsFiniteSet(A[i])
  BY <1>8
<1> HIDE DEF I, A, f, g, all
<1>17. IsFiniteSet(all) /\ SumFunctionOnSet(g, I) = SumFunctionOnSet(f, all)
  BY <1>9, <1>11, <1>12, <1>14, <1>16, SumOfSums
<1>18. SumFunctionOnSet(f, all) = Cardinality(all)
  BY <1>15, <1>17, SumOfOnes
<1>19. Cardinality(all) \in Nat /\ Cardinality(all) <= MaxOrders
  BY <1>7, <1>13, <1>17, FS_Subset, FS_CardinalityType
<1> QED BY <1>6, <1>7, <1>17, <1>18, <1>19

(* What is recorded is not more than what is stored.                       *)
LEMMA RecordBounds ==
  ASSUME RecordInv
  PROVE  orders_processed \in 0 .. MaxOrders /\ latency_histogram \in 0 .. MaxOrders
<1>1. /\ IsFiniteSet(Ids) /\ Cardinality(Ids) = MaxOrders /\ MaxOrders \in Nat
      /\ NoTask \notin Tasks
  <2>1. MaxOrders \in Nat /\ NoTask \notin Tasks
    BY EngineAssumption DEF EngineAssumption
  <2> QED BY <2>1, FS_Interval DEF Ids
<1>2. Cardinality(Received) <= MaxOrders /\ Cardinality(Received) \in Nat
  BY <1>1, Stored, FS_Subset DEF Received
<1>3. /\ IsFiniteSet(unrecorded) /\ Cardinality(unrecorded) \in Nat
      /\ orders_processed \in Nat
      /\ Cardinality(Received) = orders_processed + Cardinality(unrecorded)
      /\ latency_histogram = IF recorder = NoTask THEN orders_processed
                              ELSE orders_processed + 1
  BY FS_CardinalityType DEF RecordInv, EveryOrderIsRecordedOnce
<1>4. recorder # NoTask => Cardinality(unrecorded) # 0
  BY <1>3, FS_EmptySet DEF RecordInv
<1> QED BY <1>1, <1>2, <1>3, <1>4

(* No count shows more than the orders there are, and no field is of more. *)
LEMMA FieldBounds ==
  ASSUME IInv, LocationsInv, BoundInv, RecordInv, IsFiniteSet(Symbols)
  PROVE  /\ \A f \in EngineFields : Count(f) \in 0 .. MaxOrders
         /\ \A f \in SampledFields : Sample(f) \in 0 .. MaxOrders
<1>1. /\ IsFiniteSet(Ids) /\ Cardinality(Ids) = MaxOrders /\ MaxOrders \in Nat
  <2>1. MaxOrders \in Nat
    BY EngineAssumption DEF EngineAssumption
  <2> QED BY <2>1, FS_Interval DEF Ids
<1>2. \A S \in SUBSET Ids : Cardinality(S) \in 0 .. MaxOrders
  BY <1>1, FS_Subset, FS_CardinalityType
<1>3. /\ Received \in SUBSET Ids /\ Matched \in SUBSET Ids /\ CancelledOrders \in SUBSET Ids
  BY DEF Matched, CancelledOrders, Received
<1>4. trade_count \in 0 .. MaxOrders
  <2>1. TypeOK
    BY DEF IInv, TypeInv
  <2>2. DoneOrders \in SUBSET Ids
    BY <2>1, DoneFinite, CreatedType
  <2>3. trade_count \in Nat /\ trades \in Nat
    BY <2>1 DEF TypeOK
  <2>4. Cardinality(DoneOrders) \in 0 .. MaxOrders
    BY <1>2, <2>2
  <2> QED BY <1>1, <2>3, <2>4 DEF BoundInv
<1>5. ASSUME NEW f \in EngineFields
      PROVE  Count(f) \in 0 .. MaxOrders
  <2>1. CASE f = "orders_received"
    BY <1>2, <1>3, <2>1 DEF Count
  <2>2. CASE f = "orders_matched"
    BY <1>2, <1>3, <2>2 DEF Count
  <2>3. CASE f = "orders_cancelled"
    BY <1>2, <1>3, <2>3 DEF Count
  <2>4. CASE f = "trades_executed"
    BY <1>4, <2>4 DEF Count
  <2>5. CASE f = "orders_in_book"
    BY <2>5, BookSize DEF Count
  <2> QED BY <2>1, <2>2, <2>3, <2>4, <2>5 DEF EngineFields, Counters
<1>6. \A f \in SampledFields : Sample(f) \in 0 .. MaxOrders
  BY RecordBounds DEF Sample
<1> QED BY <1>5, <1>6

(* The fields as they were read.                                           *)
ReadTypes ==
  /\ metrics \in [EngineFields -> 0 .. MaxOrders]
  /\ samples \in [SampledFields -> 0 .. MaxOrders]

(* The types of the tracker and the monitor: a record is owed by a thread  *)
(* that is not in the engine, the engine's five counts never exceed the    *)
(* number of orders, orders_in_book included, which is a sum over the      *)
(* books, and no field is computed from more records than there are        *)
(* orders; also while the engine runs and for any finite set of symbols    *)
(* (tracker.rs:34-44, engine.rs:436-474).                                  *)
THEOREM MetricsTypes ==
  ASSUME IsFiniteSet(Symbols)
  PROVE  MetricsSpec => []MetricsTypeOK
<1>1. MetricsInit => ReadTypes
  <2>1. MaxOrders \in Nat
    BY EngineAssumption DEF EngineAssumption
  <2> QED BY <2>1 DEF MetricsInit, ReadTypes
<1>2. ASSUME IInv, LocationsInv, BoundInv, RecordInv, ReadTypes, [MetricsNext]_metricsVars
      PROVE  ReadTypes'
  <2>1. /\ \A f \in EngineFields : Count(f) \in 0 .. MaxOrders
        /\ \A f \in SampledFields : Sample(f) \in 0 .. MaxOrders
    BY <1>2, FieldBounds
  <2>2. \/ metrics' = metrics /\ samples' = samples
        \/ ReadField
    BY <1>2 DEF MetricsNext, EngineStep, RecordLatency, CountProcessed, GetMetrics, metricsVars,
      monitor
  <2>3. CASE ReadField
    <3>1. \/ /\ Head(reading) \in EngineFields
             /\ metrics' = [metrics EXCEPT ![Head(reading)] = Count(Head(reading))]
             /\ samples' = samples
          \/ /\ Head(reading) \in SampledFields
             /\ samples' = [samples EXCEPT ![Head(reading)] = Sample(Head(reading))]
             /\ metrics' = metrics
      BY <2>3 DEF ReadField
    <3>2. /\ metrics' \in [EngineFields -> 0 .. MaxOrders]
          /\ samples' \in [SampledFields -> 0 .. MaxOrders]
      BY <1>2, <2>1, <3>1 DEF ReadTypes
    <3> QED BY <3>2 DEF ReadTypes
  <2> QED BY <1>2, <2>2, <2>3 DEF ReadTypes
<1>3. ASSUME RecordInv, ReadInv, ReadTypes  PROVE MetricsTypeOK
  BY <1>3, RecordBounds DEF MetricsTypeOK, RecordInv, ReadInv, ReadTypes
<1>4. MetricsSpec => [](IInv /\ RecordInv /\ ReadInv)
  BY Reading
<1>5. MetricsSpec => [](LocationsInv /\ BoundInv)
  BY EngineUnderMetrics, Located, Bounded, PTL
<1> QED BY <1>1, <1>2, <1>3, <1>4, <1>5, PTL DEF MetricsSpec
=============================================================================
