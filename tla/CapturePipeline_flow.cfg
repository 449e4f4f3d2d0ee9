\* Four packets through a channel of two batches and two processors
SPECIFICATION FairSpec
CONSTANTS
  Procs = {p1, p2}
  BatchSize = 2
  MaxPacketQueue = 2
  MaxPackets = 4
  MaxKernelDrops = 1
INVARIANTS PipelineTypeOK OnePlace OrderKept DrainedBeforeExit CountersAgree
PROPERTIES EveryPacketSettled StopEndsThreads
CHECK_DEADLOCK FALSE
