SPECIFICATION MetricsSpec
CONSTANTS
  Symbols = {A}
  NoSymbol = NoSymbol
  Prices = {1}
  Quantities = {1, 2}
  U64Max = 2
  Tasks = {t1, t2}
  NoTask = NoTask
  MaxOrders = 2
  OverflowChecks = TRUE
SYMMETRY Symmetry
INVARIANTS
  MetricsTypeOK
  EveryOrderIsRecordedOnce
  ThroughputCoversPercentiles
PROPERTIES
  CountersNeverFall
