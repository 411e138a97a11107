SPECIFICATION Spec
CONSTANTS
  Brokers = {"ccxt", "bingx", "oanda"}
  Holdings <- Held
  MarketLists = {{}, {"spot"}, {"swap", "spot"}}
  DefaultType = "swap"
  ReadErrors = {"oanda"}
  NoAnswer = NoAnswer
  SETTLE_RETRIES = 2
INVARIANT DryRunSendsNothing
CHECK_DEADLOCK FALSE
