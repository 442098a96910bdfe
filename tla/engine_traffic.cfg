SPECIFICATION TrafficSpec
CONSTANTS
  Symbols = {A}
  NoSymbol = NoSymbol
  Prices = {1}
  Quantities = {1, 2}
  U64Max = 100
  Tasks = {t1, t2, t3}
  NoTask = NoTask
  MaxOrders = 2
  OverflowChecks = TRUE
PROPERTIES
  CallsReturn
  ArrivalsAreHandled
