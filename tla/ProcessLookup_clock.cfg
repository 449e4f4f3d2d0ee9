\* The cleanup compares two clocks: an entry may live two ticks, boot was three ticks after the epoch.
SPECIFICATION Spec
CONSTANTS
    Sockets <- MCSockets
    desc <- MCdesc
    MaxOpens = 1
    MAX_ENTRIES = 2
    StaleThreshold = 2
    BootEpoch = 3
    MaxAge = 3
    MaxTracked = 1
    NoPid = NoPid
    NoFlow = NoFlow
PROPERTIES
    OnlyStaleMarked
