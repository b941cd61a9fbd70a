\* Streams of four actions; the lowest draws fall below the first tick.
CONSTANTS
  Symbols = {AAPL}
  EmptySymbol = EmptySymbol
  Prices <- MCPrices
  Quantities <- MCQuantities
  MaxOrders = 4
  MaxRanks = 8
  FairValues <- MCFairValues
  AmendPrices <- MCAmendPrices
  SpreadWidth = 2
  Bias = 1
  Count = 4
SPECIFICATION StreamSpec
CHECK_DEADLOCK FALSE
INVARIANTS
  GuessedIdsAreReal
  RestingOrdersAreLive
PROPERTIES
  ReplayEnds
