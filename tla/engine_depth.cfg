SPECIFICATION ApiSpec
CONSTANTS
  Symbols = {A}
  NoSymbol = NoSymbol
  Prices = {1, 2}
  Quantities = {1, 2}
  U64Max = 4
  Tasks = {t1}
  NoTask = NoTask
  MaxOrders = 4
  OverflowChecks = TRUE
INVARIANTS
  ApiTypeOK
  LedgerBalances
  ServedInTurn
  BookResponseShowsOpenOrders
PROPERTIES
  PriceTimePriority
