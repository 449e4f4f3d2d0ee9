\* Removal, archival, eviction and clear of many connections
SPECIFICATION FairSpec
CONSTANTS
  Procs = {p1}
  Keys = {k1, k2}
  Cids = {}
  Timeouts = {1}
  MaxConnections = 2
  MaxQuicMappings = 1
  MaxHistoric = 1
  OverflowChecks = FALSE
  MaxCreated = 4
  NoConn = NoConn
  NoKey = NoKey
  NoCid = NoCid
PROPERTIES EvictsOldestFirst ImplementsLifecycle ExpiredEventuallyRemoved
CHECK_DEADLOCK FALSE
