\* One connection, opened by either side, with loss and overtaking (no data is inspected:
\* the protocol only matters to the timeouts of established connections)
SPECIFICATION Spec
CONSTANTS
  Initiators = {"local", "remote"}
  MaxData = 1
  MaxLosses = 1
  MaxResends = 1
  MaxWire = 2
  MaxLag = 2
  Window = 2
  Apps = {}
  NoEntry = NoEntry
INVARIANTS TrackerTypeOK DirectionTruthful CloseIsReal FollowsActiveOpen
PROPERTIES PhaseMonotone ActiveOpenKept
CHECK_DEADLOCK FALSE
