\* One symbol, three price levels and up to four orders.
CONSTANTS
  Symbols = {AAPL}
  EmptySymbol = EmptySymbol
  Prices <- MCDeepPrices
  Quantities <- MCQuantities
  MaxOrders = 4
  MaxRanks = 4
  UInt32Modulus = 5
SPECIFICATION Spec
INVARIANTS
  TypeOK
  BooksUncrossed
  PositionIsTimePriority
  FillsInPriceTimeOrder
  QuantityConserved
  AckAgrees
  EveryOrderAccounted
  OrderCountAgreesWithCallbacks
  SnapshotsShowBook
PROPERTIES
  NothingAfterTerminal
