\* Two symbols that share one id counter.
CONSTANTS
  Symbols = {AAPL, GOOG}
  EmptySymbol = EmptySymbol
  Prices <- MCPrices
  Quantities <- MCQuantities
  MaxOrders = 3
  MaxRanks = 3
  UInt32Modulus = 5
SPECIFICATION Spec
PROPERTIES
  ImplementsAuction
  ImplementsOrderLife
  CallReturns
