SPECIFICATION FairSpec
CONSTANTS
  Resting = {limit1, limit2}
  Stops = {stop1}
  None = None
PROPERTIES StopsWhenAsked NoStepOnceAsked OrdersSettle FoundOrdersCancelled
CHECK_DEADLOCK FALSE
