SPECIFICATION Spec
CONSTANTS
  Symbols = {A}
  NoSymbol = NoSymbol
  Prices = {1}
  Quantities = {1}
  U64Max = 100
  Tasks = {t1, t2}
  NoTask = NoTask
  MaxOrders = 2
  OverflowChecks = TRUE
PROPERTIES
  FilledStaysFilled
