\* A TCP connection whose sequence numbers wrap, or a QUIC handshake of four bytes
SPECIFICATION Spec
CONSTANTS
    Modulus = 8
    FirstPos = {5}
    MaxLen = 2
    MaxBack = 2
    MaxSegments = 5
    NoAck = NoAck
    NoSegment = NoSegment
    NoAnalytics = NoAnalytics
    max_buffer_size = 3
    StreamLen = 4
    HelloLen = 3
    NameAccepted = TRUE
    MaxFrames = 2
    MaxCoalesced = 2
    NoInfo = NoInfo
    NoReassembler = NoReassembler
INVARIANTS
    CountsReal
    ContiguousIsPrefix
    ClosedLeavesSoon
PROPERTIES
    NameSettles
CHECK_DEADLOCK FALSE
