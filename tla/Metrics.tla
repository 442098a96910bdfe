------------------------------ MODULE Metrics ------------------------------
(***************************************************************************)
(* The metrics of the running engine (src/src/metrics/tracker.rs and the   *)
(* handlers of src/src/api/handlers.rs).                                   *)
(*                                                                         *)
(* The handler of a submission that succeeded records its latency, under   *)
(* two nested locks, before its thread serves another request.  A monitor  *)
(* calls get_metrics, which reads nine fields one after the other, each    *)
(* under a lock of its own, while the engine runs.  Five of them are the   *)
(* engine's own counts.  The other four are computed from what the tracker *)
(* has recorded: a quantile of the latencies, or their number by the time  *)
(* since the start.  Durations and the clock are left out, so the values   *)
(* of these four, which go up and down, are left out too; what is kept of  *)
(* each is its sample, the number of records it is computed from.          *)
(***************************************************************************)
EXTENDS EngineProperties, Tracker

VARIABLES
  unrecorded,        \* tasks whose submission succeeded and is not recorded
  latency_histogram, \* the number of latencies recorded
  orders_processed,  \* the tracker's counter
  recorder,          \* who holds latency_histogram for writing
  reading,           \* get_metrics: the fields it has still to read
  metrics,           \* get_metrics: the engine's counts it has read, last
  samples            \* get_metrics: the samples of the other fields, as read

tracker == <<latency_histogram, orders_processed, recorder>>
monitor == <<reading, metrics, samples>>
metricsVars == <<vars, unrecorded, tracker, monitor>>

(* Mutant: the throughput is read before the percentiles.                  *)
ThroughputFirst ==
  << "orders_received", "orders_matched", "orders_cancelled", "orders_in_book",
     "trades_executed", "throughput", "latency_p50", "latency_p99", "latency_p999" >>

(* The fields of MetricsResponse in the order get_metrics reads them.      *)
Fields ==
  << "orders_received", "orders_matched", "orders_cancelled", "orders_in_book",
     "trades_executed", "latency_p50", "latency_p99", "latency_p999", "throughput" >>

Latencies == {"latency_p50", "latency_p99", "latency_p999"}
SampledFields == Latencies \cup {"throughput"}

(* The engine's own: what a scraper takes for counters, and a gauge.       *)
Counters == {"orders_received", "orders_matched", "orders_cancelled", "trades_executed"}
EngineFields == Counters \cup {"orders_in_book"}

MetricsInit ==
  /\ Init
  /\ unrecorded = {}
  /\ latency_histogram = 0
  /\ orders_processed = 0
  /\ recorder = NoTask
  /\ reading = << >>
  /\ metrics = [f \in EngineFields |-> 0]
  /\ samples = [f \in SampledFields |-> 0]

-----------------------------------------------------------------------------
(* The count the engine answers with for the field f.                      *)
Count(f) ==
  CASE f = "orders_received"  -> Cardinality(Received)
    [] f = "orders_matched"   -> Cardinality(Matched)
    [] f = "orders_cancelled" -> Cardinality(CancelledOrders)
    [] f = "orders_in_book"   -> OrdersInBook
    [] f = "trades_executed"  -> trade_count

(* How many records the tracker's field f is computed from.                *)
Sample(f) == IF f = "throughput" THEN orders_processed ELSE latency_histogram

(* The lock the reading of f needs, if anybody can hold it for long.       *)
Readable(f) ==
  /\ f = "orders_in_book" => writer = NoTask
  /\ f \in Latencies => recorder = NoTask

-----------------------------------------------------------------------------
(* The submission of t succeeds in this step.                              *)
Succeeds(t) == StoreFilled(t) \/ StoreResting(t)

(* Mutant: the handler records before it looks at the result.              *)
RecordEveryReturn(t) ==
  unrecorded' = IF pc[t] \in {"submit", "store"} /\ pc'[t] = "idle"
                THEN unrecorded \cup {t} ELSE unrecorded

(* submit_order of the handlers: `?` returns the error before the metrics. *)
RecordSuccess(t) ==
  unrecorded' = IF Succeeds(t) THEN unrecorded \cup {t} ELSE unrecorded

EngineStep(t) ==
  /\ t \notin unrecorded
  /\ Refuse(t) \/ SubmitOrder(t) \/ CancelCheck(t) \/ Acquire(t) \/ Proceed(t)
  /\ RecordSuccess(t)
  /\ UNCHANGED <<tracker, monitor>>

(* How long a call may take, in microseconds, rounded down to nothing and  *)
(* more than the histogram can hold included.                              *)
Durations == {0, 1, 2 * HighestLatency}

(* record_latency: the histogram, under its lock.                          *)
RecordLatency(t) ==
  /\ t \in unrecorded /\ recorder = NoTask
  /\ recorder' = t
  /\ \E micros \in Durations :
       latency_histogram' = latency_histogram + (IF Recordable(Clamp(micros)) THEN 1 ELSE 0)
  /\ UNCHANGED <<vars, unrecorded, orders_processed, monitor>>

(* Mutant: the thread does not know that it is done, and records again.    *)
CountProcessedAgain(t) ==
  /\ recorder = t
  /\ orders_processed' = orders_processed + 1
  /\ recorder' = NoTask
  /\ UNCHANGED <<vars, unrecorded, latency_histogram, monitor>>

(* Then the counter, under both; then both guards are dropped.             *)
CountProcessed(t) ==
  /\ recorder = t
  /\ orders_processed' = orders_processed + 1
  /\ recorder' = NoTask
  /\ unrecorded' = unrecorded \ {t}
  /\ UNCHANGED <<vars, latency_histogram, monitor>>

-----------------------------------------------------------------------------
(* get_metrics is called, and reads the next field.                        *)
GetMetrics ==
  /\ reading = << >>
  /\ reading' = Fields
  /\ UNCHANGED <<vars, unrecorded, tracker, metrics, samples>>

ReadField ==
  /\ reading # << >>
  /\ Readable(Head(reading))
  /\ reading' = Tail(reading)
  /\ \/ /\ Head(reading) \in EngineFields
        /\ metrics' = [metrics EXCEPT ![Head(reading)] = Count(Head(reading))]
        /\ UNCHANGED samples
     \/ /\ Head(reading) \in SampledFields
        /\ samples' = [samples EXCEPT ![Head(reading)] = Sample(Head(reading))]
        /\ UNCHANGED metrics
  /\ UNCHANGED <<vars, unrecorded, tracker>>

MetricsNext ==
  \/ \E t \in Tasks : EngineStep(t) \/ RecordLatency(t) \/ CountProcessed(t)
  \/ GetMetrics \/ ReadField

MetricsSpec == MetricsInit /\ [][MetricsNext]_metricsVars

-----------------------------------------------------------------------------
MetricsTypeOK ==
  /\ unrecorded \subseteq {t \in Tasks : pc[t] = "idle"}
  /\ latency_histogram \in 0 .. MaxOrders
  /\ orders_processed \in 0 .. MaxOrders
  /\ recorder \in unrecorded \cup {NoTask}
  /\ reading \in {SubSeq(Fields, i, Len(Fields)) : i \in 1 .. Len(Fields) + 1}
  /\ metrics \in [EngineFields -> 0 .. MaxOrders]
  /\ samples \in [SampledFields -> 0 .. MaxOrders]

(* Every stored order is recorded once, and no refused, rejected or        *)
(* panicking submission ever is: what is stored and not recorded is owed   *)
(* by a thread that has not yet answered (handlers.rs:27-30).              *)
EveryOrderIsRecordedOnce ==
  /\ Cardinality(Received) = orders_processed + Cardinality(unrecorded)
  /\ latency_histogram = IF recorder = NoTask THEN orders_processed ELSE orders_processed + 1

(* One answer of get_metrics mixes several moments, but the throughput it  *)
(* shows counts at least the orders its percentiles are quantiles of: the  *)
(* samples, not the values, which nothing orders (tracker.rs:40-44,        *)
(* 108-111).                                                               *)
ThroughputCoversPercentiles ==
  reading = << >> => \A f \in Latencies : samples[f] <= samples["throughput"]

(* Of the engine's counts, what a scraper takes for counters never falls   *)
(* from one answer to the next: an order that was matched stays matched    *)
(* when it is cancelled, and one that was cancelled stays cancelled        *)
(* (engine.rs:448-474).  orders_in_book falls, and so may the throughput   *)
(* and the percentiles, whose values are not modelled.                     *)
CountersNeverFall ==
  [][\A f \in Counters : metrics'[f] >= metrics[f]]_metricsVars
=============================================================================
