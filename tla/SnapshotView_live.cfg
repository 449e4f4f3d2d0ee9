\* A clear reaches the screen; connections move to the pool while they are active
SPECIFICATION FairViewSpec
CONSTANTS
  Procs = {p1}
  Keys = {k1}
  Cids = {}
  Timeouts = {1}
  MaxConnections = 2
  MaxQuicMappings = 1
  MaxHistoric = 1
  OverflowChecks = FALSE
  MaxCreated = 2
  ActiveAge = 2
  Filtered = {}
  NoConn = NoConn
  NoKey = NoKey
  NoCid = NoCid
INVARIANT KnownShown
PROPERTY ClearedRowsLeave
CHECK_DEADLOCK FALSE
