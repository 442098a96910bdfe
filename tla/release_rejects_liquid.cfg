SPECIFICATION Spec
CONSTANTS
  Symbols = {A}
  NoSymbol = NoSymbol
  Prices = {1}
  Quantities = {1, 3}
  U64Max = 3
  Tasks = {t1}
  NoTask = NoTask
  MaxOrders = 3
  OverflowChecks = FALSE
PROPERTIES
  RejectedOnlyWhenShort
