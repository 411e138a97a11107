SPECIFICATION Spec
CONSTANTS
  eurusd = eurusd
  Symbols <- MCSymbols
  Times <- MCTimes
  DayOf <- MCDayOf
  WeekOf <- MCWeekOf
  Requests <- MCRequests
  Pnls <- MCPnls
  PnlRange <- MCPnlRange
  Equities = {100}
  MaxDailyLoss = 3
  MaxWeeklyLoss = 6
  MaxRiskPerTrade = 1
  MaxMarginUsage = 30
  MaxOpenPositions = 1
  MaxPositionsPerSymbol = 1
  MaxDailyTrades = 2
  CooldownAfterLoss = 2
  RequireStopLoss = TRUE
  MaxSpread = 1
  AssumedLeverage = 1
  ContractSize = 1
  AtrSpikeMultiplier = 3
  MaxPlaced = 3
  NoFile = NoFile
  Corrupt = Corrupt
  None = None
INVARIANTS TypeOK LedgerKept EntriesCapped
PROPERTIES GateHolds CooldownHolds ImplementsLossGate
CHECK_DEADLOCK FALSE
CONSTRAINT WritesKept
