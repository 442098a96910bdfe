SPECIFICATION ApiSpec
CONSTANTS
  Symbols = {A}
  NoSymbol = NoSymbol
  Prices = {1, 2}
  Quantities = {1, 2}
  U64Max = 100
  Tasks = {t1, t2}
  NoTask = NoTask
  MaxOrders = 3
  OverflowChecks = TRUE
SYMMETRY Symmetry
INVARIANTS
  TypeOK
  IInv
  BookMirrorsStorage
  NothingLost
  LocationsMatchQueues
  LevelTotals
  Uncrossed
  Conservation
  MarketOrdersFill
  StatusIsBetween
  TradesAreFair
PROPERTIES
  CancelledIsFinal
  FillsOnlyGrow
  PriceTimePriority
  AnswersTellTheTruth
  SweepsEnd
  RemovedTradesNoMore
