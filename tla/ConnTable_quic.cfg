\* QUIC mapping against cleanup and clear; the table is never full
SPECIFICATION Spec
CONSTANTS
  Procs = {p1, p2}
  Keys = {k1, k2}
  Cids = {c1, c2}
  Timeouts = {1}
  MaxConnections = 2
  MaxQuicMappings = 1
  MaxHistoric = 1
  OverflowChecks = FALSE
  MaxCreated = 2
  NoConn = NoConn
  NoKey = NoKey
  NoCid = NoCid
SYMMETRY Symmetry
INVARIANTS MappingBacked
CHECK_DEADLOCK FALSE
