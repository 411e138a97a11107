SPECIFICATION BSpec
CONSTANTS
  eurusd = eurusd
  usdjpy = usdjpy
  Symbols = {eurusd, usdjpy}
  SymbolOrder <- MCOrder
  Bars <- MCBars
  Joint <- MCJoint
  Cases <- MCCases
  Sizes <- MCSizes
  MinSteps = 2
  Baseline = 2
  Spare = 1
  NoResult = NoResult
  ConfigError = ConfigError
  Requests = {}
  StopPrices = {}
  HalfSpread = 16
  Slippage = 0
  ContractSize = 1
  Leverage = 2
  InitialBalance <- MCBalance
  Warmup = 1
  MaxBars = 9
  MaxOrders = 99
  NoPosition = NoPosition
  NoPrice = NoPrice
  NoExcursion = NoExcursion
  EntryPeriod = 2
  ExitPeriod = 2
  TrendPeriod = 3
  UseTrendFilter = TRUE
  MinHour = NoHour
  MaxHour = 11
  NoHour = NoHour
  TrailAtrs = 1
  FastPeriod = 2
  SlowPeriod = 3
  RsiPeriod = 2
  Overbought = 90
  Oversold = 10
  TargetAtrs = 1
  EntryTime = 480
  ExitTime = 600
  FixSide = 1
  AtrPeriod = 2
  StopAtrs = 2
  AllowShort = TRUE
INVARIANTS PositionsAreWhole FixPositionsStayInTheWindow TradesReachTheStore ResultAddsUp
CHECK_DEADLOCK FALSE
