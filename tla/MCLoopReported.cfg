SPECIFICATION FairSpec
CONSTANTS
  eurusd = eurusd
  usdjpy = usdjpy
  Symbols = {eurusd, usdjpy}
  SymbolOrder <- Pair
  Times <- MCTimes
  DayOf <- MCDay
  WeekOf <- MCDay
  Now = 0
  ReferenceEquity = 200
  Directions <- BuysAndSells
  Terms <- OneUnit
  Pnls <- LossesAndProfits
  ReportsClosedTrades = TRUE
  PositionErrorsAreEmpty = FALSE
  ReduceOnlyIsKept = TRUE
  MaxOpenPositions = 2
  MaxTrades = 3
  MaxUnits = 2
  MaxStarts = 1
  MaxVanished = 0
  MaxDailyLoss = 3
  MaxWeeklyLoss = 6
  MaxRiskPerTrade = 1
  MaxMarginUsage = 30
  MaxPositionsPerSymbol = 1
  MaxDailyTrades = 2
  CooldownAfterLoss = 0
  RequireStopLoss = TRUE
  MaxSpread = 1
  AssumedLeverage = 1
  ContractSize = 1
  AtrSpikeMultiplier = 3
  SizingMethod = "fixed_fractional"
  FixedQuantity = 1
  MinQuantity = 1
  MaxQuantity = 10
  QuantityStep = 1
  None = None
INVARIANT TypeOK
PROPERTIES LossesStopEntries ClosuresAreCounted EntriesOpenFlatSymbols
CHECK_DEADLOCK FALSE
