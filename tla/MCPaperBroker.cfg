SPECIFICATION Spec
CONSTANTS
  eurusd = eurusd
  Symbols = {eurusd}
  Bars <- MCBars
  Requests <- MCRequests
  StopPrices <- MCStops
  HalfSpread <- U
  Slippage <- U
  ContractSize = 1
  Leverage = 2
  InitialBalance <- MCBalance
  Warmup = 1
  MaxBars = 3
  MaxOrders = 3
  NoPosition = NoPosition
  NoPrice = NoPrice
  NoExcursion = NoExcursion
INVARIANTS TypeOK BooksBalance ReduceOnlyNeverOpens ExcursionsAreTheTrades StopsBoundLosses
PROPERTIES StopsAndOrdersMoveOneWay
CHECK_DEADLOCK FALSE
