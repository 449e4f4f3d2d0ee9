\* Two connections, one of them filtered out, hidden before they expire
SPECIFICATION ViewSpec
CONSTANTS
  Procs = {p1}
  Keys = {k1, k2}
  Cids = {}
  Timeouts = {2}
  MaxConnections = 2
  MaxQuicMappings = 1
  MaxHistoric = 1
  OverflowChecks = FALSE
  MaxCreated = 2
  ActiveAge = 1
  Filtered = {k2}
  NoConn = NoConn
  NoKey = NoKey
  NoCid = NoCid
VIEW SafetyView
INVARIANTS SteadyShown LinesMatchRemovals
CHECK_DEADLOCK FALSE
