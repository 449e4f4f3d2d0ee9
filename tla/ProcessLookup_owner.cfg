\* Processes of tracked flows: any two of eight sockets, a map with room for two entries.
\* Every entry is stale to the cleanup whatever its age (BootEpoch), so ages are not followed.
SPECIFICATION LiveSpec
CONSTANTS
    Sockets <- OwnerSockets
    desc <- OwnerDesc
    MaxOpens = 2
    MAX_ENTRIES = 2
    StaleThreshold = 0
    BootEpoch = 1
    MaxAge = 0
    MaxTracked = 1
    NoPid = NoPid
    NoFlow = NoFlow
INVARIANTS
    SocketTypeOK
    TcpAnswerIsOwner
    AnswersAreUsers
    CalledIsFound
    ShownServed
PROPERTIES
    OpenFlowsIdentified
