SPECIFICATION Spec
CONSTANTS
  Symbols = {A}
  NoSymbol = NoSymbol
  Prices = {1, 2}
  Quantities = {1, 3}
  U64Max = 3
  Tasks = {t1, t2}
  NoTask = NoTask
  MaxOrders = 3
  OverflowChecks = TRUE
SYMMETRY Symmetry
INVARIANTS
  LockDiscipline
  BookMirrorsStorage
PROPERTIES
  PanicLosesNoTrade
  RejectedOnlyWhenShort
  PriceTimePriority
