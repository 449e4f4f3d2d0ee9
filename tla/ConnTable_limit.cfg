\* Two processors race for the last slot of the table
SPECIFICATION Spec
CONSTANTS
  Procs = {p1, p2}
  Keys = {k1, k2, k3}
  Cids = {}
  Timeouts = {1}
  MaxConnections = 1
  MaxQuicMappings = 1
  MaxHistoric = 1
  OverflowChecks = FALSE
  MaxCreated = 3
  NoConn = NoConn
  NoKey = NoKey
  NoCid = NoCid
SYMMETRY Symmetry
INVARIANTS TypeOK TableBounded OneHome HistoricBounded
CHECK_DEADLOCK FALSE
