SPECIFICATION Spec
CONSTANTS
  eurusd = eurusd
  usdjpy = usdjpy
  Symbols = {eurusd, usdjpy}
  Listings <- MCListings
  Price <- MCPrice
  Spans = {4}
  Ends = {NoTime, 4}
  Brokers = {"ccxt", "oanda"}
  Chunk = 3
  MaxCount = 2
  MaxRequests = 3
  Interval = 2
  Exports <- MCExports
  FoldAt = NoTime
  SplitNum = 2
  SplitDen = 3
  MinBars = 1
  Horizon = 5
  MaxCommands = 2
  NoTime = NoTime
  NoFetch = NoFetch
  NoAnswer = NoAnswer
  NoFile = NoFile
  NoSeries = NoSeries
INVARIANTS TypeOK FetchIsComplete OnlyTheNewestIsUnfinished ImportedBarsAreWhole OneTimeAxis
PROPERTY FetchEnds
CHECK_DEADLOCK FALSE
