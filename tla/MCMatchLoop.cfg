CONSTANTS
  Symbols = {AAPL}
  EmptySymbol = EmptySymbol
  Prices <- MCPrices
  Quantities <- MCQuantities
  MaxOrders = 3
  MaxRanks = 4
SPECIFICATION LoopSpec
INVARIANTS
  ScanFindsBest
  ExhaustedOnlyWhileReported
PROPERTIES
  ImplementsEngine
  LoopTerminates
