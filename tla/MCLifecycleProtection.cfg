SPECIFICATION Spec
CONSTANTS
  Resting = {limit1, limit2}
  Stops = {stop1}
  None = None
INVARIANT PositionsStayProtected
CHECK_DEADLOCK FALSE
