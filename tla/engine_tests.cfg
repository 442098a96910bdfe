SPECIFICATION TestsSpec
CONSTANTS
  Symbols = {"AAPL", "BTC", "UNKNOWN"}
  NoSymbol = ""
  Prices = {9600, 9700, 9800, 9900, 9950, 10000, 10010, 10020, 10030, 10040, 10050, 10060, 10070, 10080, 10090, 10100, 10150, 10200, 14600, 14700, 14800, 14900, 15000, 15050, 15100, 50000}
  Quantities = {10, 25, 30, 40, 50, 75, 100}
  U64Max = 1000000000
  Tasks = {t1}
  NoTask = NoTask
  MaxOrders = 12
  OverflowChecks = TRUE
INVARIANTS
  TestsPass
