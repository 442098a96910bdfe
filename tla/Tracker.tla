------------------------------- MODULE Tracker -------------------------------
(***************************************************************************)
(* The data of the metrics tracker (src/src/metrics/tracker.rs).           *)
(*                                                                         *)
(* A tracker is the latencies its histogram holds, in microseconds, and    *)
(* its own counter.  The histogram (hdrhistogram, external) keeps three    *)
(* significant figures; here a percentile is exact.  Throughput, which     *)
(* divides the counter by the time since the start, is left out.           *)
(***************************************************************************)
EXTENDS Integers, Sequences, FiniteSets, FiniteSetsExt, SequencesExt

HighestLatency == 60000000

(* Mutant: the lower bound only.                                           *)
ClampBelow(micros) == Max({micros, 1})

Clamp(micros) == Min({Max({micros, 1}), HighestLatency})

(* Histogram::record fails above its bound; `let _ =` ignores the failure. *)
Recordable(micros) == micros <= HighestLatency

NewTracker == [latencies |-> << >>, orders_processed |-> 0]

(* record_latency, once for each duration of a list.                       *)
RecordAll(tracker, durations) ==
  LET micros == [i \in DOMAIN durations |-> Clamp(durations[i])]
  IN  [latencies |-> tracker.latencies \o SelectSeq(micros, Recordable),
       orders_processed |-> tracker.orders_processed + Len(durations)]

(* Histogram::value_at_percentile, of n thousandths: the least latency     *)
(* that so many of the latencies do not exceed.                            *)
ValueAtPercentile(latencies, n) ==
  LET Below(v) == Cardinality({i \in DOMAIN latencies : latencies[i] <= v})
  IN  Min({v \in ToSet(latencies) : 1000 * Below(v) >= n * Len(latencies)})

LatencyPercentile(tracker, n) ==
  IF tracker.latencies = << >> THEN 0 ELSE ValueAtPercentile(tracker.latencies, n)

(* reset, which has no caller but its test.                                *)
Reset(tracker) == NewTracker
=============================================================================
