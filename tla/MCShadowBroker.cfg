SPECIFICATION Spec
CONSTANTS
  eurusd = eurusd
  Symbols = {eurusd}
  Bars <- MCBars
  EntryPrices = {2}
  ExitPrices = {3}
  StopPrices = {0, 2}
  Quantities = {1, 2}
  Stop <- MCStop
  Target <- MCTarget
  InitialBalance = 10
  MaxBars = 2
  MaxTrades = 2
  MaxStarts = 2
  NoFile = NoFile
  NoPosition = NoPosition
INVARIANTS TypeOK AccountAddsUp StopsAreExecuted RestartKeepsAccount
CHECK_DEADLOCK FALSE
