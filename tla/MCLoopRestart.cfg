SPECIFICATION Spec
CONSTANTS
  eurusd = eurusd
  usdjpy = usdjpy
  Symbols = {eurusd}
  SymbolOrder <- Single
  Times <- MCTimes
  DayOf <- MCDay
  WeekOf <- MCDay
  Now = 0
  ReferenceEquity = 200
  Directions <- Buys
  Terms <- OneUnit
  Pnls <- LossesAndProfits
  ReportsClosedTrades = TRUE
  PositionErrorsAreEmpty = FALSE
  ReduceOnlyIsKept = TRUE
  MaxOpenPositions = 1
  MaxTrades = 2
  MaxUnits = 1
  MaxStarts = 2
  MaxVanished = 0
  MaxDailyLoss = 3
  MaxWeeklyLoss = 6
  MaxRiskPerTrade = 1
  MaxMarginUsage = 30
  MaxPositionsPerSymbol = 1
  MaxDailyTrades = 2
  CooldownAfterLoss = 0
  RequireStopLoss = TRUE
  MaxSpread = 1
  AssumedLeverage = 1
  ContractSize = 1
  AtrSpikeMultiplier = 3
  SizingMethod = "fixed_fractional"
  FixedQuantity = 1
  MinQuantity = 1
  MaxQuantity = 10
  QuantityStep = 1
  None = None
INVARIANT NothingBookedTwice
CHECK_DEADLOCK FALSE
