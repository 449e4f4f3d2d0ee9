----------------------- MODULE CapturePipelineProofs -----------------------
(***************************************************************************)
(* Theorems about the capture pipeline, for every number of processors and *)
(* packets, every batch size and every capacity of the channel.            *)
(***************************************************************************)
EXTENDS CapturePipelineProps, FiniteSetTheorems, TLAPS

-----------------------------------------------------------------------------
(* Facts about the data.                                                   *)

LEMMA PacketsCounted ==
  ASSUME NEW S \in SUBSET Packets
  PROVE  IsFiniteSet(S) /\ Cardinality(S) \in Nat
<1>1. MaxPackets \in Int
  BY PipelineAssumption
<1>2. IsFiniteSet(Packets)
  BY <1>1, FS_Interval, 1 \in Int DEF Packets
<1>3. IsFiniteSet(S)
  BY <1>2, FS_Subset
<1> QED BY <1>3, FS_CardinalityType

(* No processor has a batch, or the capture thread one that is full.       *)
LEMMA EmptyBatch == Cardinality({}) = 0 /\ Cardinality({}) < BatchSize
BY FS_EmptySet, PipelineAssumption

(* A collected batch with one more packet.                                 *)
LEMMA ExtendedBatch ==
  ASSUME PipelineTypeOK, NEW n \in Packets
  PROVE  /\ batch \union {n} \in Batches
         /\ ~Full(batch \union {n}) => Cardinality(batch \union {n}) < BatchSize
<1>1. batch \in SUBSET Packets /\ Cardinality(batch) < BatchSize
  BY DEF PipelineTypeOK
<1>2. IsFiniteSet(batch) /\ Cardinality(batch) \in Nat /\ BatchSize \in Nat
  BY <1>1, PacketsCounted, PipelineAssumption
<1>3. Cardinality(batch \union {n}) \in {Cardinality(batch), Cardinality(batch) + 1}
  BY <1>2, FS_AddElement
<1>4. Cardinality(batch \union {n}) <= BatchSize
  BY <1>1, <1>2, <1>3
<1>5. ~(Cardinality(batch \union {n}) >= BatchSize)
        => Cardinality(batch \union {n}) < BatchSize
  BY <1>2, <1>3
<1> QED BY <1>1, <1>4, <1>5 DEF Batches, Full

LEMMA CollectedBatch ==
  ASSUME PipelineTypeOK, batch # {}
  PROVE  batch \in Batches
<1>1. batch \in SUBSET Packets /\ Cardinality(batch) < BatchSize
  BY DEF PipelineTypeOK
<1>2. Cardinality(batch) \in Nat /\ BatchSize \in Nat
  BY <1>1, PacketsCounted, PipelineAssumption
<1> QED BY <1>1, <1>2 DEF Batches

(* What the channel holds after a batch is appended.                       *)
LEMMA AppendQueued ==
  ASSUME queue \in Seq(Batches), NEW packets \in Batches, queue' = Append(queue, packets)
  PROVE  /\ DOMAIN queue' = DOMAIN queue \union {Len(queue) + 1}
         /\ \A i \in DOMAIN queue : queue'[i] = queue[i]
         /\ queue'[Len(queue) + 1] = packets
         /\ Queued' = Queued \union packets
<1>1. /\ DOMAIN queue = 1..Len(queue) /\ Len(queue) \in Nat
      /\ DOMAIN queue' = 1..(Len(queue) + 1)
  OBVIOUS
<1>2. DOMAIN queue' = DOMAIN queue \union {Len(queue) + 1}
  BY <1>1
<1>3. (\A i \in DOMAIN queue : queue'[i] = queue[i]) /\ queue'[Len(queue) + 1] = packets
  OBVIOUS
<1>4. Queued' = Queued \union packets
  BY <1>2, <1>3 DEF Queued
<1> QED BY <1>2, <1>3, <1>4

(* And after the oldest is taken out.                                      *)
LEMMA TailQueued ==
  ASSUME queue \in Seq(Batches), queue # <<>>, queue' = Tail(queue)
  PROVE  /\ \A i \in DOMAIN queue' : i + 1 \in DOMAIN queue /\ queue'[i] = queue[i + 1]
         /\ Queued = Head(queue) \union Queued'
<1>1. /\ DOMAIN queue = 1..Len(queue) /\ Len(queue) \in Nat \ {0}
      /\ DOMAIN queue' = 1..(Len(queue) - 1)
      /\ Head(queue) = queue[1]
  OBVIOUS
<1>2. \A i \in DOMAIN queue' : i + 1 \in DOMAIN queue /\ queue'[i] = queue[i + 1]
  BY <1>1
<1>3. \A i \in DOMAIN queue : i = 1 \/ (i - 1 \in DOMAIN queue' /\ queue'[i - 1] = queue[i])
  BY <1>1
<1>4. Queued \subseteq Head(queue) \union Queued'
  <2> SUFFICES ASSUME NEW i \in DOMAIN queue, NEW n \in queue[i]
               PROVE  n \in Head(queue) \union Queued'
    BY DEF Queued
  <2>1. CASE i = 1
    BY <2>1, <1>1
  <2>2. CASE i # 1
    BY <2>2, <1>3 DEF Queued
  <2> QED BY <2>1, <2>2
<1>5. Head(queue) \union Queued' \subseteq Queued
  BY <1>1, <1>2 DEF Queued
<1> QED BY <1>2, <1>4, <1>5

-----------------------------------------------------------------------------
(* Type correctness.                                                       *)

LEMMA InitTypeOK == Init => PipelineTypeOK
<1> SUFFICES ASSUME Init PROVE PipelineTypeOK
  OBVIOUS
<1>1. captured \in 0..MaxPackets /\ kernel_dropped \in 0..MaxKernelDrops
  BY PipelineAssumption DEF Init
<1>2. queue \in Seq(Batches) /\ Len(queue) <= MaxPacketQueue
  BY PipelineAssumption DEF Init
<1>3. /\ pc \in [Procs -> {"linktype", "loop", "recv", "work", "exited"}]
      /\ work \in [Procs -> SUBSET Packets] /\ applied \in [Procs -> SUBSET Packets]
      /\ \A p \in Procs : pc[p] # "work" /\ work[p] = {} /\ applied[p] = {}
  BY DEF Init
<1> QED BY <1>1, <1>2, <1>3, EmptyBatch DEF Init, PipelineTypeOK

(* Sending a batch from the state the capture thread reads in.             *)
LEMMA TrySendTypeOK ==
  ASSUME PipelineTypeOK, capture = "read", NEW packets \in Batches,
         NEW next \in {"loop", "stats"}, TrySend(packets, next),
         captured' \in 0..MaxPackets,
         UNCHANGED <<linktype, processor_vars, packets_processed, reset_vars,
                     kernel_dropped, should_stop>>
  PROVE  PipelineTypeOK'
<1> USE EmptyBatch DEF reset_vars
<1>1. CASE Receivers = {}
  BY <1>1 DEF PipelineTypeOK, TrySend, Exit, channel_vars, processor_vars, Batches
<1>2. CASE Receivers # {} /\ Len(queue) < MaxPacketQueue
  <2>1. queue' \in Seq(Batches) /\ Len(queue') <= MaxPacketQueue
    BY <1>2, PipelineAssumption DEF TrySend, Enqueued, PipelineTypeOK, Batches
  <2> QED BY <1>2, <2>1 DEF PipelineTypeOK, TrySend, processor_vars, Batches
<1>3. CASE Receivers # {} /\ ~(Len(queue) < MaxPacketQueue)
  <2>1. packets_dropped' \in Nat
    BY <1>3, PacketsCounted DEF TrySend, PipelineTypeOK, Batches
  <2> QED BY <1>3, <2>1 DEF PipelineTypeOK, TrySend, Refused, processor_vars, Batches
<1> QED BY <1>1, <1>2, <1>3

LEMMA CaptureTypeOK == PipelineTypeOK /\ Capture => PipelineTypeOK'
<1> SUFFICES ASSUME PipelineTypeOK, Capture PROVE PipelineTypeOK'
  OBVIOUS
<1> USE DEF channel_vars, processor_vars, stats_vars, reset_vars
<1>1. CASE SetupSucceeds
  BY <1>1 DEF PipelineTypeOK, SetupSucceeds
<1>2. CASE SetupFails
  BY <1>2 DEF PipelineTypeOK, SetupFails
<1>3. CASE CaptureCheck
  BY <1>3, EmptyBatch DEF PipelineTypeOK, CaptureCheck, Exit
<1>4. CASE ReadPacket
  <2> DEFINE packets == batch \union {captured'}
  <2>1. /\ capture = "read" /\ linktype
        /\ captured' \in 0..MaxPackets /\ captured' \in Packets
    BY <1>4, PipelineAssumption DEF ReadPacket, PipelineTypeOK, Packets
  <2>2. packets \in Batches /\ (~Full(packets) => Cardinality(packets) < BatchSize)
    BY <2>1, ExtendedBatch
  <2>3. CASE Full(packets)
    BY <1>4, <2>1, <2>2, <2>3, TrySendTypeOK DEF ReadPacket
  <2>4. CASE ~Full(packets)
    BY <1>4, <2>1, <2>2, <2>4 DEF ReadPacket, PipelineTypeOK, Batches
  <2> QED BY <2>3, <2>4
<1>5. CASE TimeoutFlush
  <2>1. batch \in Batches /\ captured' \in 0..MaxPackets
    BY <1>5, CollectedBatch DEF TimeoutFlush, Overdue, PipelineTypeOK
  <2> QED BY <1>5, <2>1, TrySendTypeOK DEF TimeoutFlush
<1>6. CASE TimeoutIdle
  BY <1>6 DEF PipelineTypeOK, TimeoutIdle
<1>7. CASE ReadStats
  BY <1>7 DEF PipelineTypeOK, ReadStats
<1>8. CASE ReadError
  BY <1>8, EmptyBatch DEF PipelineTypeOK, ReadError, Exit
<1> QED BY <1>1, <1>2, <1>3, <1>4, <1>5, <1>6, <1>7, <1>8 DEF Capture

LEMMA ProcessorTypeOK ==
  ASSUME PipelineTypeOK, NEW p \in Procs, Processor(p)
  PROVE  PipelineTypeOK'
<1> USE DEF capture_vars, channel_vars, stats_vars, reset_vars
<1>1. CASE LinktypeSet(p)
  BY <1>1 DEF PipelineTypeOK, LinktypeSet
<1>2. CASE ProcessorCheck(p)
  BY <1>2 DEF PipelineTypeOK, ProcessorCheck
<1>3. CASE Receive(p)
  <2>1. Head(queue) \in Batches
    BY <1>3 DEF Receive, PipelineTypeOK, Batches
  <2>2. queue' \in Seq(Batches) /\ Len(queue') <= MaxPacketQueue
    BY <1>3, PipelineAssumption DEF Receive, PipelineTypeOK, Batches
  <2>3. /\ pc' = [pc EXCEPT ![p] = "work"]
        /\ work' = [work EXCEPT ![p] = Head(queue)] /\ applied' = applied
        /\ work'[p] \union applied'[p] = Head(queue)
        /\ \A q \in Procs \ {p} : pc'[q] = pc[q] /\ work'[q] = work[q] /\ applied'[q] = applied[q]
    BY <1>3 DEF Receive, PipelineTypeOK
  <2>4. Head(queue) \in SUBSET Packets
    BY <2>1 DEF Batches
  <2>5. \A q \in Procs :
          \/ pc'[q] = "work" /\ work'[q] \union applied'[q] \in Batches
          \/ pc'[q] # "work" /\ work'[q] = {} /\ applied'[q] = {}
    BY <2>1, <2>3 DEF PipelineTypeOK
  <2>6. /\ pc' \in [Procs -> {"linktype", "loop", "recv", "work", "exited"}]
        /\ work' \in [Procs -> SUBSET Packets] /\ applied' \in [Procs -> SUBSET Packets]
    BY <2>3, <2>4 DEF PipelineTypeOK
  <2> QED BY <1>3, <2>2, <2>5, <2>6 DEF Receive, PipelineTypeOK
<1>4. CASE ReceiveNothing(p)
  BY <1>4 DEF PipelineTypeOK, ReceiveNothing
<1>5. CASE ApplyPacket(p)
  <2>1. PICK n \in work[p] :
          /\ work' = [work EXCEPT ![p] = @ \ {n}]
          /\ applied' = [applied EXCEPT ![p] = @ \union {n}]
          /\ finished' = finished \union {n}
    BY <1>5 DEF ApplyPacket
  <2>2. pc' = pc /\ pc[p] = "work" /\ n \in Packets
    BY <1>5 DEF ApplyPacket, PipelineTypeOK
  <2>3. work' \in [Procs -> SUBSET Packets] /\ applied' \in [Procs -> SUBSET Packets]
    BY <2>1, <2>2 DEF PipelineTypeOK
  <2>4. work'[p] \union applied'[p] = work[p] \union applied[p]
    BY <2>1 DEF PipelineTypeOK
  <2>5. \A q \in Procs \ {p} : work'[q] = work[q] /\ applied'[q] = applied[q]
    BY <2>1 DEF PipelineTypeOK
  <2>6. \A q \in Procs :
          \/ pc'[q] = "work" /\ work'[q] \union applied'[q] \in Batches
          \/ pc'[q] # "work" /\ work'[q] = {} /\ applied'[q] = {}
    BY <2>2, <2>4, <2>5 DEF PipelineTypeOK
  <2> QED BY <1>5, <2>1, <2>2, <2>3, <2>6 DEF ApplyPacket, PipelineTypeOK
<1>6. CASE CountBatch(p)
  <2>1. packets_processed' \in Nat
    BY <1>6, PacketsCounted DEF CountBatch, PacketCount, PipelineTypeOK
  <2>2. /\ pc' = [pc EXCEPT ![p] = "loop"] /\ applied' = [applied EXCEPT ![p] = {}]
        /\ work' = work /\ work[p] = {}
    BY <1>6 DEF CountBatch
  <2>3. /\ pc' \in [Procs -> {"linktype", "loop", "recv", "work", "exited"}]
        /\ applied' \in [Procs -> SUBSET Packets]
        /\ \A q \in Procs :
             \/ pc'[q] = "work" /\ work'[q] \union applied'[q] \in Batches
             \/ pc'[q] # "work" /\ work'[q] = {} /\ applied'[q] = {}
    BY <2>2 DEF PipelineTypeOK
  <2> QED BY <1>6, <2>1, <2>3 DEF CountBatch, PipelineTypeOK
<1> QED BY <1>1, <1>2, <1>3, <1>4, <1>5, <1>6 DEF Processor

LEMMA StepTypeOK == PipelineTypeOK /\ [Next]_vars => PipelineTypeOK'
<1> SUFFICES ASSUME PipelineTypeOK, [Next]_vars PROVE PipelineTypeOK'
  OBVIOUS
<1> USE DEF capture_vars, channel_vars, processor_vars, stats_vars, reset_vars
<1>1. CASE Capture
  BY <1>1, CaptureTypeOK
<1>2. ASSUME NEW p \in Procs, Processor(p) PROVE PipelineTypeOK'
  BY <1>2, ProcessorTypeOK
<1>3. CASE DeadlinePasses
  BY <1>3 DEF PipelineTypeOK, DeadlinePasses
<1>4. CASE KernelDrops
  <2>1. kernel_dropped' \in 0..MaxKernelDrops
    BY <1>4, PipelineAssumption DEF PipelineTypeOK, KernelDrops
  <2>2. UNCHANGED <<capture_vars, channel_vars, processor_vars, stats_vars, should_stop>>
    BY <1>4 DEF KernelDrops
  <2> QED BY <2>1, <2>2 DEF PipelineTypeOK
<1>5. CASE ClearProcessed
  <2>1. Uncounted \in SUBSET Packets
    BY DEF PipelineTypeOK, Uncounted
  <2>2. cleared' \in Nat /\ straddling' \in Nat
    BY <1>5, <2>1, PacketsCounted DEF PipelineTypeOK, ClearProcessed
  <2> QED BY <1>5, <2>2 DEF PipelineTypeOK, ClearProcessed
<1>6. CASE ClearDropped
  BY <1>6 DEF PipelineTypeOK, ClearDropped
<1>7. CASE Stop
  BY <1>7 DEF PipelineTypeOK, Stop
<1>8. CASE UNCHANGED vars
  BY <1>8 DEF PipelineTypeOK, vars
<1> QED BY <1>1, <1>2, <1>3, <1>4, <1>5, <1>6, <1>7, <1>8 DEF Next

(* Every variable of the pipeline keeps its type; batches in the channel   *)
(* are neither empty nor too large, a processor holds one while it works.  *)
THEOREM PipelineTypeCorrect == Spec => []PipelineTypeOK
<1> QED BY InitTypeOK, StepTypeOK, PTL DEF Spec

-----------------------------------------------------------------------------
(* No processor ends before the channel is drained.                        *)

LEMMA ChannelClosed ==
  ASSUME PipelineTypeOK, capture = "exited", Next
  PROVE  capture' = "exited" /\ (queue = <<>> => queue' = <<>>)
<1> USE DEF capture_vars, channel_vars
<1>1. ~Capture
  BY DEF Capture, SetupSucceeds, SetupFails, CaptureCheck, ReadPacket, TimeoutFlush,
         TimeoutIdle, ReadStats, ReadError
<1>2. ASSUME NEW p \in Procs, Processor(p)
      PROVE  capture' = "exited" /\ (queue = <<>> => queue' = <<>>)
  BY <1>2 DEF Processor, LinktypeSet, ProcessorCheck, Receive, ReceiveNothing, ApplyPacket,
     CountBatch
<1>3. CASE DeadlinePasses \/ KernelDrops \/ ClearProcessed \/ ClearDropped \/ Stop
  BY <1>3 DEF DeadlinePasses, KernelDrops, ClearProcessed, ClearDropped, Stop
<1> QED BY <1>1, <1>2, <1>3 DEF Next

LEMMA StepDrained ==
  PipelineTypeOK /\ DrainedBeforeExit /\ [Next]_vars => DrainedBeforeExit'
<1> SUFFICES ASSUME PipelineTypeOK, DrainedBeforeExit, [Next]_vars,
                    ~should_stop', NEW q \in Procs, pc'[q] = "exited"
             PROVE  capture' = "exited" /\ queue' = <<>>
  BY DEF DrainedBeforeExit
<1>1. CASE UNCHANGED vars
  BY <1>1 DEF DrainedBeforeExit, vars, capture_vars, channel_vars, processor_vars
<1>2. CASE Next
  <2>1. ~should_stop
    BY <1>2 DEF Next, Capture, SetupSucceeds, SetupFails, CaptureCheck, ReadPacket, TimeoutFlush,
         TimeoutIdle, ReadStats, ReadError, Processor, LinktypeSet, ProcessorCheck, Receive,
         ReceiveNothing, ApplyPacket, CountBatch, DeadlinePasses, KernelDrops, ClearProcessed,
         ClearDropped, Stop
  <2>2. CASE pc[q] = "exited"
    <3>1. capture = "exited" /\ queue = <<>>
      BY <2>1, <2>2 DEF DrainedBeforeExit
    <3> QED BY <3>1, <1>2, ChannelClosed
  <2>3. CASE pc[q] # "exited"
    <3>1. PICK p \in Procs : Processor(p)
      BY <1>2, <2>3 DEF Next, Capture, SetupSucceeds, SetupFails, CaptureCheck, ReadPacket,
         TimeoutFlush, TimeoutIdle, ReadStats, ReadError, DeadlinePasses, KernelDrops,
         ClearProcessed, ClearDropped, Stop, processor_vars
    <3>2. ReceiveNothing(p) /\ Disconnected
      BY <3>1, <2>1, <2>3 DEF PipelineTypeOK, Processor, LinktypeSet, ProcessorCheck, Receive,
         ReceiveNothing, ApplyPacket, CountBatch
    <3> QED BY <3>2 DEF ReceiveNothing, Disconnected, capture_vars, channel_vars
  <2> QED BY <2>2, <2>3
<1> QED BY <1>1, <1>2

(* As long as the user does not stop the program, a processor ends only    *)
(* when the capture thread has ended and the channel is empty for good: no *)
(* queued batch is left behind.                                            *)
THEOREM ProcessorsDrain == Spec => []DrainedBeforeExit
<1>1. Init => DrainedBeforeExit
  BY DEF Init, DrainedBeforeExit
<1> QED BY <1>1, InitTypeOK, StepTypeOK, StepDrained, PTL DEF Spec

-----------------------------------------------------------------------------
(* Every packet is in one place.                                           *)

(* OnePlace at the moment the capture thread has n packets read and these  *)
(* collected.                                                              *)
Elsewhere == Queued \union InWork \union finished \union refused \union discarded
OnePlaceWith(packets, n) ==
  /\ 1..n = packets \union Elsewhere
  /\ packets \intersect Elsewhere = {}
  /\ Queued \intersect (InWork \union finished \union refused \union discarded) = {}
  /\ InWork \intersect (finished \union refused \union discarded) = {}
  /\ finished \intersect (refused \union discarded) = {}
  /\ refused \intersect discarded = {}
  /\ \A i, j \in DOMAIN queue : i # j => queue[i] \intersect queue[j] = {}
  /\ \A p, q \in Procs : p # q => work[p] \intersect work[q] = {}

LEMMA OnePlaceIs == OnePlace <=> OnePlaceWith(batch, captured)
BY DEF OnePlace, OnePlaceWith, Elsewhere

(* The capture thread ends with these packets at hand.                     *)
LEMMA ExitOnePlace ==
  ASSUME NEW packets, OnePlaceWith(packets, captured'), Exit(packets),
         UNCHANGED <<channel_vars, processor_vars>>
  PROVE  OnePlace'
<1>1. UNCHANGED <<Queued, InWork, queue, work, finished, refused>>
  BY DEF Queued, InWork, channel_vars, processor_vars
<1>2. batch' = {} /\ discarded' = discarded \union packets
  BY DEF Exit
<1> QED BY <1>1, <1>2 DEF OnePlace, OnePlaceWith, Elsewhere

LEMMA TrySendOnePlace ==
  ASSUME PipelineTypeOK, NEW packets \in Batches, OnePlaceWith(packets, captured'),
         NEW next, TrySend(packets, next), UNCHANGED processor_vars
  PROVE  OnePlace'
<1>1. CASE Receivers = {}
  BY <1>1, ExitOnePlace DEF TrySend
<1>2. CASE Receivers # {} /\ Len(queue) < MaxPacketQueue
  <2>1. /\ queue' = Append(queue, packets) /\ queue \in Seq(Batches)
        /\ batch' = {}
        /\ UNCHANGED <<InWork, work, finished, refused, discarded>>
    BY <1>2 DEF TrySend, Enqueued, PipelineTypeOK, InWork, processor_vars
  <2>2. Queued' = Queued \union packets
    BY <2>1, AppendQueued
  <2>3. packets \intersect Queued = {}
    BY DEF OnePlaceWith, Elsewhere
  <2>4. \A i, j \in DOMAIN queue' : i # j => queue'[i] \intersect queue'[j] = {}
    <3>1. \A i \in DOMAIN queue : queue[i] \intersect packets = {}
      BY <2>3 DEF Queued
    <3>2. \A i \in DOMAIN queue' :
            \/ i \in DOMAIN queue /\ queue'[i] = queue[i]
            \/ i = Len(queue) + 1 /\ queue'[i] = packets
      BY <2>1, AppendQueued
    <3> QED BY <3>1, <3>2 DEF OnePlaceWith
  <2> QED BY <2>1, <2>2, <2>4 DEF OnePlace, OnePlaceWith, Elsewhere
<1>3. CASE Receivers # {} /\ ~(Len(queue) < MaxPacketQueue)
  <2>1. /\ refused' = refused \union packets
        /\ batch' = {}
        /\ UNCHANGED <<Queued, InWork, queue, work, finished, discarded>>
    BY <1>3 DEF TrySend, Refused, Queued, InWork, processor_vars
  <2> QED BY <2>1 DEF OnePlace, OnePlaceWith, Elsewhere
<1> QED BY <1>1, <1>2, <1>3

LEMMA CaptureOnePlace == PipelineTypeOK /\ OnePlace /\ Capture => OnePlace'
<1> SUFFICES ASSUME PipelineTypeOK, OnePlace, Capture PROVE OnePlace'
  OBVIOUS
<1> USE OnePlaceIs
<1>1. CASE SetupSucceeds \/ SetupFails \/ TimeoutIdle \/ ReadStats
  BY <1>1 DEF OnePlace, Queued, InWork, SetupSucceeds, SetupFails, TimeoutIdle, ReadStats,
              channel_vars, processor_vars
<1>2. CASE CaptureCheck
  <2>1. CASE Stopping
    BY <1>2, <2>1, ExitOnePlace DEF CaptureCheck
  <2>2. CASE ~Stopping
    BY <1>2, <2>2 DEF CaptureCheck, OnePlace, Queued, InWork, channel_vars, processor_vars
  <2> QED BY <2>1, <2>2
<1>3. CASE ReadPacket
  <2> DEFINE packets == batch \union {captured'}
  <2>1. captured \in Nat /\ captured' = captured + 1 /\ captured' \in Packets
    BY <1>3, PipelineAssumption DEF ReadPacket, PipelineTypeOK, Packets
  <2>2. packets \in Batches
    BY <2>1, ExtendedBatch
  <2>3. 1..captured' = (1..captured) \union {captured'} /\ captured' \notin 1..captured
    BY <2>1
  <2>4. OnePlaceWith(packets, captured')
    BY <2>3 DEF OnePlaceWith, Elsewhere
  <2>5. CASE Full(packets)
    BY <1>3, <2>2, <2>4, <2>5, TrySendOnePlace DEF ReadPacket
  <2>6. CASE ~Full(packets)
    <3>1. batch' = packets /\ UNCHANGED <<Queued, InWork, queue, work, finished, refused, discarded>>
      BY <1>3, <2>6 DEF ReadPacket, Queued, InWork, channel_vars, processor_vars
    <3> QED BY <3>1, <2>4 DEF OnePlace, OnePlaceWith, Elsewhere
  <2> QED BY <2>5, <2>6
<1>4. CASE TimeoutFlush
  <2>1. batch \in Batches /\ captured' = captured
    BY <1>4, CollectedBatch DEF TimeoutFlush, Overdue
  <2> QED BY <1>4, <2>1, TrySendOnePlace DEF TimeoutFlush
<1>5. CASE ReadError
  BY <1>5, ExitOnePlace DEF ReadError
<1> QED BY <1>1, <1>2, <1>3, <1>4, <1>5 DEF Capture

LEMMA ProcessorOnePlace ==
  ASSUME PipelineTypeOK, OnePlace, NEW p \in Procs, Processor(p)
  PROVE  OnePlace'
<1> USE DEF capture_vars, channel_vars, stats_vars
<1>1. CASE LinktypeSet(p) \/ ProcessorCheck(p) \/ ReceiveNothing(p) \/ CountBatch(p)
  BY <1>1 DEF OnePlace, Queued, InWork, LinktypeSet, ProcessorCheck, ReceiveNothing, CountBatch
<1>2. CASE Receive(p)
  <2> DEFINE received == Head(queue)
  <2>1. /\ queue \in Seq(Batches) /\ queue # <<>> /\ queue' = Tail(queue)
        /\ work[p] = {} /\ work' = [work EXCEPT ![p] = received]
        /\ work \in [Procs -> SUBSET Packets]
        /\ UNCHANGED <<captured, batch, finished, refused, discarded>>
    BY <1>2 DEF Receive, PipelineTypeOK
  <2>2. /\ Queued = received \union Queued'
        /\ \A i \in DOMAIN queue' : i + 1 \in DOMAIN queue /\ queue'[i] = queue[i + 1]
    BY <2>1, TailQueued
  <2>3. \A i \in DOMAIN queue' : i \in Nat /\ i + 1 # 1
    BY <2>1
  <2>4. received \intersect Queued' = {}
    <3>1. 1 \in DOMAIN queue /\ received = queue[1]
      BY <2>1
    <3>2. \A i \in DOMAIN queue' : received \intersect queue'[i] = {}
      BY <2>2, <2>3, <3>1 DEF OnePlace
    <3> QED BY <3>2 DEF Queued
  <2>5. InWork' = InWork \union received
    BY <2>1 DEF InWork
  <2>6. \A i, j \in DOMAIN queue' : i # j => queue'[i] \intersect queue'[j] = {}
    BY <2>2, <2>3 DEF OnePlace
  <2>7. \A q \in Procs : received \intersect work[q] = {}
    BY <2>2 DEF OnePlace, InWork
  <2>8. \A q, r \in Procs : q # r => work'[q] \intersect work'[r] = {}
    BY <2>1, <2>7 DEF OnePlace
  <2> QED BY <2>1, <2>2, <2>4, <2>5, <2>6, <2>8 DEF OnePlace
<1>3. CASE ApplyPacket(p)
  <2>1. PICK n \in work[p] :
          /\ work' = [work EXCEPT ![p] = @ \ {n}]
          /\ finished' = finished \union {n}
          /\ UNCHANGED <<captured, batch, queue, Queued, refused, discarded>>
    BY <1>3 DEF ApplyPacket, Queued
  <2>2. work \in [Procs -> SUBSET Packets]
    BY DEF PipelineTypeOK
  <2>3. InWork = InWork' \union {n} /\ n \notin InWork'
    BY <2>1, <2>2 DEF InWork, OnePlace
  <2>4. \A q, r \in Procs : q # r => work'[q] \intersect work'[r] = {}
    BY <2>1, <2>2 DEF OnePlace
  <2> QED BY <2>1, <2>3, <2>4 DEF OnePlace
<1> QED BY <1>1, <1>2, <1>3 DEF Processor

LEMMA StepOnePlace == PipelineTypeOK /\ OnePlace /\ [Next]_vars => OnePlace'
<1> SUFFICES ASSUME PipelineTypeOK, OnePlace, [Next]_vars PROVE OnePlace'
  OBVIOUS
<1>1. CASE Capture
  BY <1>1, CaptureOnePlace
<1>2. ASSUME NEW p \in Procs, Processor(p) PROVE OnePlace'
  BY <1>2, ProcessorOnePlace
<1>3. CASE DeadlinePasses \/ KernelDrops \/ ClearProcessed \/ ClearDropped \/ Stop
           \/ UNCHANGED vars
  BY <1>3 DEF OnePlace, Queued, InWork, DeadlinePasses, KernelDrops, ClearProcessed,
              ClearDropped, Stop, vars,
              capture_vars, channel_vars, processor_vars
<1> QED BY <1>1, <1>2, <1>3 DEF Next

(* Every packet read is in exactly one place: collected by the capture     *)
(* thread, in one batch of the channel, in the hands of one processor,     *)
(* processed, refused, or discarded at the end of the capture.  No packet  *)
(* is lost between the threads or processed twice.                         *)
THEOREM PacketsInOnePlace == Spec => []OnePlace
<1>1. Init => OnePlace
  BY DEF Init, OnePlace, Queued, InWork
<1> QED BY <1>1, InitTypeOK, StepTypeOK, StepOnePlace, PTL DEF Spec

-----------------------------------------------------------------------------
(* The order of capture.                                                   *)

(* OrderKept with these packets collected.                                 *)
OrderWith(packets) ==
  /\ Earlier(InWork \union finished, Queued \union packets)
  /\ Earlier(Queued, packets)
  /\ \A i, j \in DOMAIN queue : i < j => Earlier(queue[i], queue[j])

LEMMA OrderIs == OrderKept <=> OrderWith(batch)
BY DEF OrderKept, OrderWith

(* Steps that move nothing but what is collected, and drop that or keep it.*)
LEMMA OrderOfLess ==
  ASSUME NEW packets, OrderWith(packets), batch' \subseteq packets,
         UNCHANGED <<queue, work, finished>>
  PROVE  OrderKept'
<1>1. UNCHANGED <<Queued, InWork, finished, queue>>
  BY DEF Queued, InWork
<1> QED BY <1>1 DEF OrderKept, OrderWith, Earlier

LEMMA TrySendOrder ==
  ASSUME PipelineTypeOK, NEW packets \in Batches, OrderWith(packets),
         NEW next, TrySend(packets, next), UNCHANGED processor_vars
  PROVE  OrderKept'
<1>1. CASE ~(Receivers # {} /\ Len(queue) < MaxPacketQueue)
  <2>1. batch' = {} /\ UNCHANGED queue
    BY <1>1 DEF TrySend, Exit, Refused, channel_vars
  <2> QED BY <2>1, OrderOfLess DEF processor_vars
<1>2. CASE Receivers # {} /\ Len(queue) < MaxPacketQueue
  <2>1. /\ queue' = Append(queue, packets) /\ queue \in Seq(Batches)
        /\ batch' = {}
        /\ UNCHANGED <<InWork, finished>>
    BY <1>2 DEF TrySend, Enqueued, PipelineTypeOK, InWork, processor_vars
  <2>2. Queued' = Queued \union packets
    BY <2>1, AppendQueued
  <2>3. \A i, j \in DOMAIN queue' : i < j => Earlier(queue'[i], queue'[j])
    <3> SUFFICES ASSUME NEW i \in DOMAIN queue', NEW j \in DOMAIN queue', i < j
                 PROVE  Earlier(queue'[i], queue'[j])
      OBVIOUS
    <3>1. /\ DOMAIN queue' = DOMAIN queue \union {Len(queue) + 1}
          /\ \A k \in DOMAIN queue : queue'[k] = queue[k]
          /\ queue'[Len(queue) + 1] = packets
      BY <2>1, AppendQueued
    <3>2. i \in DOMAIN queue
      <4>1. DOMAIN queue = 1..Len(queue) /\ Len(queue) \in Nat
        BY <2>1
      <4> QED BY <3>1, <4>1
    <3>3. CASE j \in DOMAIN queue
      BY <3>1, <3>2, <3>3 DEF OrderWith
    <3>4. CASE j = Len(queue) + 1
      BY <3>1, <3>2, <3>4 DEF OrderWith, Earlier, Queued
    <3> QED BY <3>1, <3>3, <3>4
  <2> QED BY <2>1, <2>2, <2>3 DEF OrderKept, OrderWith, Earlier
<1> QED BY <1>1, <1>2

(* The packet just read comes after all others.                            *)
LEMMA NextIsLast ==
  ASSUME PipelineTypeOK, OnePlace, OrderKept
  PROVE  OrderWith(batch \union {captured + 1})
<1>1. captured \in Nat
  BY PipelineAssumption DEF PipelineTypeOK
<1>2. InWork \union finished \union Queued \subseteq 1..captured
  BY DEF OnePlace
<1>3. \A m \in 1..captured : m < captured + 1
  BY <1>1
<1> QED BY <1>2, <1>3 DEF OrderKept, OrderWith, Earlier

LEMMA CaptureOrder == PipelineTypeOK /\ OnePlace /\ OrderKept /\ Capture => OrderKept'
<1> SUFFICES ASSUME PipelineTypeOK, OnePlace, OrderKept, Capture PROVE OrderKept'
  OBVIOUS
<1> USE OrderIs
<1>1. CASE SetupSucceeds \/ SetupFails \/ TimeoutIdle \/ ReadStats \/ CaptureCheck \/ ReadError
  <2>1. batch' \subseteq batch /\ UNCHANGED <<queue, work, finished>>
    BY <1>1 DEF SetupSucceeds, SetupFails, TimeoutIdle, ReadStats, CaptureCheck, ReadError, Exit,
                channel_vars, processor_vars
  <2> QED BY <2>1, OrderOfLess
<1>2. CASE ReadPacket
  <2> DEFINE packets == batch \union {captured'}
  <2>1. captured \in Nat /\ captured' = captured + 1 /\ captured' \in Packets
    BY <1>2, PipelineAssumption DEF ReadPacket, PipelineTypeOK, Packets
  <2>2. packets \in Batches
    BY <2>1, ExtendedBatch
  <2>3. OrderWith(packets)
    BY <2>1, NextIsLast
  <2>4. CASE Full(packets)
    BY <1>2, <2>2, <2>3, <2>4, TrySendOrder DEF ReadPacket
  <2>5. CASE ~Full(packets)
    <3>1. batch' = packets /\ UNCHANGED <<queue, work, finished>>
      BY <1>2, <2>5 DEF ReadPacket, channel_vars, processor_vars
    <3> QED BY <2>3, <3>1, OrderOfLess
  <2> QED BY <2>4, <2>5
<1>3. CASE TimeoutFlush
  <2>1. batch \in Batches
    BY <1>3, CollectedBatch DEF TimeoutFlush, Overdue
  <2> QED BY <1>3, <2>1, TrySendOrder DEF TimeoutFlush
<1> QED BY <1>1, <1>2, <1>3 DEF Capture

LEMMA ProcessorOrder ==
  ASSUME PipelineTypeOK, OrderKept, NEW p \in Procs, Processor(p)
  PROVE  OrderKept'
<1> USE DEF capture_vars, channel_vars
<1>1. CASE LinktypeSet(p) \/ ProcessorCheck(p) \/ ReceiveNothing(p) \/ CountBatch(p)
  BY <1>1, OrderOfLess, OrderIs DEF LinktypeSet, ProcessorCheck, ReceiveNothing, CountBatch
<1>2. CASE Receive(p)
  <2> DEFINE received == Head(queue)
  <2>1. /\ queue \in Seq(Batches) /\ queue # <<>> /\ queue' = Tail(queue)
        /\ work' = [work EXCEPT ![p] = received]
        /\ UNCHANGED <<batch, finished>>
    BY <1>2 DEF Receive, PipelineTypeOK
  <2>2. /\ Queued = received \union Queued'
        /\ \A i \in DOMAIN queue' : i + 1 \in DOMAIN queue /\ queue'[i] = queue[i + 1]
    BY <2>1, TailQueued
  <2>3. \A i \in DOMAIN queue' : i \in Nat /\ 1 < i + 1
    BY <2>1
  <2>4. Earlier(received, Queued')
    <3>1. 1 \in DOMAIN queue /\ received = queue[1]
      BY <2>1
    <3>2. \A i \in DOMAIN queue' : Earlier(received, queue'[i])
      BY <2>2, <2>3, <3>1 DEF OrderKept
    <3> QED BY <3>2 DEF Queued, Earlier
  <2>5. InWork' \subseteq InWork \union received
    BY <2>1 DEF InWork, PipelineTypeOK
  <2>6. \A i, j \in DOMAIN queue' : i < j => Earlier(queue'[i], queue'[j])
    <3>1. \A i, j \in DOMAIN queue' : i < j => i + 1 < j + 1
      BY <2>3
    <3> QED BY <2>2, <3>1 DEF OrderKept
  <2>7. Earlier(InWork' \union finished', Queued' \union batch')
    <3>1. Earlier(received, batch)
      BY <2>2 DEF OrderKept, Earlier
    <3> QED BY <2>1, <2>2, <2>4, <2>5, <3>1 DEF OrderKept, Earlier
  <2>8. Earlier(Queued', batch')
    BY <2>1, <2>2 DEF OrderKept, Earlier
  <2> QED BY <2>6, <2>7, <2>8 DEF OrderKept
<1>3. CASE ApplyPacket(p)
  <2>1. PICK n \in work[p] :
          work' = [work EXCEPT ![p] = @ \ {n}] /\ finished' = finished \union {n}
    BY <1>3 DEF ApplyPacket
  <2>2. InWork' \union finished' \subseteq InWork \union finished
    BY <2>1 DEF PipelineTypeOK, InWork
  <2>3. UNCHANGED <<Queued, queue, batch>>
    BY <1>3 DEF ApplyPacket, Queued
  <2> QED BY <2>2, <2>3 DEF OrderKept, Earlier
<1> QED BY <1>1, <1>2, <1>3 DEF Processor

LEMMA StepOrder == PipelineTypeOK /\ OnePlace /\ OrderKept /\ [Next]_vars => OrderKept'
<1>1. OrderKept /\ (DeadlinePasses \/ KernelDrops \/ ClearProcessed \/ ClearDropped \/ Stop
                     \/ UNCHANGED vars)
        => OrderKept'
  BY OrderOfLess, OrderIs
  DEF DeadlinePasses, KernelDrops, ClearProcessed, ClearDropped, Stop, vars, capture_vars,
      channel_vars, processor_vars
<1> QED BY <1>1, CaptureOrder, ProcessorOrder DEF Next

(* Nothing overtakes a packet on its way to a processor, whatever the      *)
(* channel refuses and however the processors take turns.                  *)
THEOREM CaptureOrderKept == Spec => []OrderKept
<1>1. Init => OrderKept
  BY DEF Init, OrderKept, Earlier, Queued, InWork
<1> QED BY <1>1, InitTypeOK, StepTypeOK, PacketsInOnePlace, StepOrder, PTL DEF Spec

-----------------------------------------------------------------------------
(* The counters.                                                           *)

(* The size of what grows by a batch that is new to it.                    *)
LEMMA NewBatchCounted ==
  ASSUME NEW S \in SUBSET Packets, NEW T \in SUBSET Packets, S \intersect T = {}
  PROVE  /\ Cardinality(S \union T) = Cardinality(S) + Cardinality(T)
         /\ Cardinality(S) \in Nat /\ Cardinality(T) \in Nat
<1>1. IsFiniteSet(Packets)
  BY PipelineAssumption, FS_Interval, 1 \in Int DEF Packets
<1>2. IsFiniteSet(S) /\ IsFiniteSet(T)
  BY <1>1, FS_Subset
<1>3. Cardinality(S \union T) = Cardinality(S) + Cardinality(T) - Cardinality({})
  BY <1>2, FS_Union
<1> QED BY <1>3, PacketsCounted, FS_EmptySet

(* Packets that await their count are applied, and one processor's each.   *)
AppliedApart ==
  /\ \A p \in Procs : applied[p] \subseteq finished
  /\ \A p, q \in Procs : p # q => applied[p] \intersect applied[q] = {}

Counted ==
  packets_processed + Cardinality(Uncounted) = (Cardinality(finished) - cleared) + straddling
StraddlingBounded == straddling <= Cardinality(Procs) * BatchSize
DropsCounted == packets_dropped <= Cardinality(refused) + kernel_dropped

LEMMA TrySendCounts ==
  ASSUME PipelineTypeOK, DropsCounted, NEW packets \in Batches,
         packets \intersect refused = {}, NEW next, TrySend(packets, next),
         UNCHANGED kernel_dropped
  PROVE  DropsCounted'
<1>1. CASE UNCHANGED <<refused, packets_dropped>>
  BY <1>1 DEF DropsCounted
<1>2. CASE /\ packets_dropped' = packets_dropped + Cardinality(packets)
           /\ refused' = refused \union packets
  <2>1. packets \in SUBSET Packets /\ refused \in SUBSET Packets
    BY DEF Batches, PipelineTypeOK
  <2>2. /\ Cardinality(refused') = Cardinality(refused) + Cardinality(packets)
        /\ Cardinality(refused) \in Nat /\ Cardinality(packets) \in Nat
    BY <1>2, <2>1, NewBatchCounted
  <2>3. packets_dropped \in Nat /\ kernel_dropped \in Nat
    BY PipelineAssumption DEF PipelineTypeOK
  <2> QED BY <1>2, <2>2, <2>3 DEF DropsCounted
<1> QED BY <1>1, <1>2 DEF TrySend, channel_vars

LEMMA StepDropsCounted == PipelineTypeOK /\ OnePlace /\ DropsCounted /\ [Next]_vars => DropsCounted'
<1> SUFFICES ASSUME PipelineTypeOK, OnePlace, DropsCounted, [Next]_vars PROVE DropsCounted'
  OBVIOUS
<1> USE DEF channel_vars, stats_vars
<1>1. Cardinality(refused) \in Nat /\ kernel_dropped \in Nat
  BY PacketsCounted, PipelineAssumption DEF PipelineTypeOK
<1>2. CASE UNCHANGED <<refused, packets_dropped, kernel_dropped>>
  BY <1>2 DEF DropsCounted
<1>3. CASE ReadPacket
  <2> DEFINE packets == batch \union {captured'}
  <2>1. captured \in Nat /\ captured' = captured + 1 /\ captured' \in Packets
    BY <1>3, PipelineAssumption DEF ReadPacket, PipelineTypeOK, Packets
  <2>2. packets \in Batches
    BY <2>1, ExtendedBatch
  <2>3. captured' \notin 1..captured /\ refused \subseteq 1..captured
    BY <2>1 DEF OnePlace
  <2>4. packets \intersect refused = {}
    BY <2>3 DEF OnePlace
  <2> QED BY <1>2, <1>3, <2>2, <2>4, TrySendCounts DEF ReadPacket
<1>4. CASE TimeoutFlush
  <2>1. batch \in Batches /\ batch \intersect refused = {}
    BY <1>4, CollectedBatch DEF TimeoutFlush, Overdue, OnePlace
  <2> QED BY <1>4, <2>1, TrySendCounts DEF TimeoutFlush
<1>5. CASE ReadStats
  <2>1. /\ packets_dropped' \in {packets_dropped, kernel_dropped}
        /\ UNCHANGED <<refused, kernel_dropped>>
    BY <1>5 DEF ReadStats
  <2> QED BY <1>1, <2>1 DEF DropsCounted
<1>6. CASE KernelDrops
  <2>1. packets_dropped \in Nat
    BY DEF PipelineTypeOK
  <2> QED BY <1>1, <1>6, <2>1 DEF KernelDrops, DropsCounted
<1>7. CASE ClearDropped
  BY <1>1, <1>7 DEF ClearDropped, DropsCounted
<1>8. CASE SetupSucceeds \/ SetupFails \/ CaptureCheck \/ TimeoutIdle \/ ReadError
           \/ DeadlinePasses \/ ClearProcessed \/ Stop \/ UNCHANGED vars
  BY <1>2, <1>8 DEF SetupSucceeds, SetupFails, CaptureCheck, TimeoutIdle, ReadError,
     DeadlinePasses, ClearProcessed, Stop, vars
<1>9. ASSUME NEW p \in Procs, Processor(p) PROVE DropsCounted'
  BY <1>2, <1>9 DEF Processor, LinktypeSet, ProcessorCheck, Receive, ReceiveNothing, ApplyPacket,
     CountBatch
<1> QED BY <1>3, <1>4, <1>5, <1>6, <1>7, <1>8, <1>9 DEF Next, Capture

LEMMA StepAppliedApart ==
  PipelineTypeOK /\ OnePlace /\ AppliedApart /\ [Next]_vars => AppliedApart'
<1> SUFFICES ASSUME PipelineTypeOK, OnePlace, AppliedApart, [Next]_vars PROVE AppliedApart'
  OBVIOUS
<1> USE DEF processor_vars
<1>1. CASE UNCHANGED <<finished, applied>>
  BY <1>1 DEF AppliedApart
<1>2. ASSUME NEW p \in Procs, ApplyPacket(p) PROVE AppliedApart'
  <2>1. PICK n \in work[p] :
          applied' = [applied EXCEPT ![p] = @ \union {n}] /\ finished' = finished \union {n}
    BY <1>2 DEF ApplyPacket
  <2>2. applied \in [Procs -> SUBSET Packets]
    BY DEF PipelineTypeOK
  <2>3. n \notin finished
    BY DEF OnePlace, InWork
  <2>4. \A q \in Procs : n \notin applied[q]
    BY <2>3 DEF AppliedApart
  <2> QED BY <2>1, <2>2, <2>4 DEF AppliedApart
<1>3. ASSUME NEW p \in Procs, CountBatch(p) PROVE AppliedApart'
  <2>1. applied' = [applied EXCEPT ![p] = {}] /\ finished' = finished
    BY <1>3 DEF CountBatch
  <2> QED BY <2>1 DEF AppliedApart, PipelineTypeOK
<1>4. ASSUME NEW p \in Procs, Processor(p) PROVE AppliedApart'
  BY <1>1, <1>2, <1>3, <1>4 DEF Processor, LinktypeSet, ProcessorCheck, Receive, ReceiveNothing
<1>5. CASE Capture \/ DeadlinePasses \/ KernelDrops \/ ClearProcessed \/ ClearDropped \/ Stop
           \/ UNCHANGED vars
  BY <1>1, <1>5 DEF Capture, SetupSucceeds, SetupFails, CaptureCheck, ReadPacket, TimeoutFlush,
     TimeoutIdle, ReadStats, ReadError, DeadlinePasses, KernelDrops, ClearProcessed,
     ClearDropped, Stop, vars
<1> QED BY <1>4, <1>5 DEF Next

(* Each processor has at most a batch between the table and the counter:   *)
(* the packets of one are numbered, a packet is reached from its processor *)
(* and its number.                                                         *)
LEMMA UncountedBounded ==
  ASSUME PipelineTypeOK
  PROVE  /\ Uncounted \in SUBSET Packets
         /\ Cardinality(Uncounted) <= Cardinality(Procs) * BatchSize
<1> DEFINE size(p) == Cardinality(applied[p])
           Slots == Procs \X (1..BatchSize)
           Used == {s \in Slots : s[2] <= size(s[1])}
<1>1. \A p \in Procs : applied[p] \in SUBSET Packets /\ IsFiniteSet(applied[p]) /\ size(p) \in Nat
  BY PacketsCounted DEF PipelineTypeOK
<1>2. \A p \in Procs : size(p) <= BatchSize
  <2> SUFFICES ASSUME NEW p \in Procs PROVE size(p) <= BatchSize
    OBVIOUS
  <2>1. CASE pc[p] = "work"
    <3> DEFINE whole == work[p] \union applied[p]
    <3>1. whole \in Batches /\ applied[p] \in SUBSET whole
      BY <2>1 DEF PipelineTypeOK
    <3>2. whole \in SUBSET Packets /\ Cardinality(whole) <= BatchSize
      BY <3>1 DEF Batches
    <3>3. IsFiniteSet(whole) /\ Cardinality(whole) \in Nat
      BY <3>2, PacketsCounted
    <3>4. size(p) <= Cardinality(whole)
      BY <3>1, <3>3, FS_Subset
    <3> HIDE DEF whole
    <3> QED BY <3>2, <3>3, <3>4, <1>1, PipelineAssumption
  <2>2. CASE pc[p] # "work"
    <3>1. applied[p] = {}
      BY <2>2 DEF PipelineTypeOK
    <3> QED BY <3>1, EmptyBatch, PipelineAssumption
  <2> QED BY <2>1, <2>2
<1>3. Uncounted \in SUBSET Packets
  BY <1>1 DEF Uncounted
<1> DEFINE Numberings(p) == Surjection(1..size(p), applied[p])
           numbering == [p \in Procs |-> CHOOSE b : b \in Numberings(p)]
           packet == [s \in Used |-> numbering[s[1]][s[2]]]
<1>4. \A p \in Procs : numbering[p] \in Numberings(p)
  <2> SUFFICES ASSUME NEW p \in Procs PROVE \E b : b \in Numberings(p)
    OBVIOUS
  <2>1. ExistsBijection(1..size(p), applied[p])
    BY <1>1, FS_CardinalityType
  <2> QED BY <2>1 DEF ExistsBijection, Bijection
<1>5. packet \in [Used -> Uncounted]
  <2> SUFFICES ASSUME NEW s \in Used PROVE numbering[s[1]][s[2]] \in Uncounted
    OBVIOUS
  <2>1. s[1] \in Procs /\ s[2] \in 1..size(s[1])
    BY <1>1
  <2>2. numbering[s[1]] \in [1..size(s[1]) -> applied[s[1]]]
    BY <1>4, <2>1 DEF Surjection
  <2> QED BY <2>1, <2>2 DEF Uncounted
<1>6. \A n \in Uncounted : \E s \in Used : packet[s] = n
  <2> SUFFICES ASSUME NEW n \in Uncounted PROVE \E s \in Used : packet[s] = n
    OBVIOUS
  <2>0. PICK p \in Procs : n \in applied[p]
    BY DEF Uncounted
  <2>1. PICK i \in 1..size(p) : numbering[p][i] = n
    BY <1>4, <2>0 DEF Surjection
  <2>2. i \in 1..BatchSize
    BY <1>1, <1>2, PipelineAssumption
  <2>3. <<p, i>> \in Used
    BY <2>2, <1>1
  <2> QED BY <2>1, <2>3
<1>7. packet \in Surjection(Used, Uncounted)
  BY <1>5, <1>6 DEF Surjection
<1>8. /\ IsFiniteSet(Slots)
      /\ Cardinality(Slots) = Cardinality(Procs) * BatchSize
  <2>1. IsFiniteSet(1..BatchSize) /\ Cardinality(1..BatchSize) = BatchSize
    BY FS_Interval, PipelineAssumption, 1 \in Int
  <2> QED BY <2>1, FS_Product, PipelineAssumption
<1>9. Used \in SUBSET Slots
  OBVIOUS
<1>10. IsFiniteSet(Used) /\ Cardinality(Used) <= Cardinality(Slots)
  BY <1>8, <1>9, FS_Subset
<1>11. Cardinality(Uncounted) <= Cardinality(Used)
  BY <1>7, <1>10, FS_Surjection
<1>12. Cardinality(Uncounted) \in Nat /\ Cardinality(Used) \in Nat /\ Cardinality(Slots) \in Nat
  BY <1>3, <1>8, <1>10, PacketsCounted, FS_CardinalityType
<1> HIDE DEF Slots, Used
<1> QED BY <1>3, <1>8, <1>10, <1>11, <1>12

LEMMA StepStraddling ==
  PipelineTypeOK /\ StraddlingBounded /\ [Next]_vars => StraddlingBounded'
<1> SUFFICES ASSUME PipelineTypeOK, StraddlingBounded, [Next]_vars PROVE StraddlingBounded'
  OBVIOUS
<1>1. CASE ClearProcessed
  BY <1>1, UncountedBounded DEF ClearProcessed, StraddlingBounded
<1>2. CASE UNCHANGED straddling
  BY <1>2 DEF StraddlingBounded
<1>3. ASSUME NEW p \in Procs, Processor(p) PROVE UNCHANGED straddling
  BY <1>3 DEF Processor, LinktypeSet, ProcessorCheck, Receive, ReceiveNothing, ApplyPacket,
     CountBatch, stats_vars, reset_vars
<1>4. CASE Capture \/ DeadlinePasses \/ KernelDrops \/ ClearDropped \/ Stop \/ UNCHANGED vars
  BY <1>2, <1>4 DEF Capture, SetupSucceeds, SetupFails, CaptureCheck, ReadPacket, TimeoutFlush,
     TimeoutIdle, ReadStats, ReadError, DeadlinePasses, KernelDrops, ClearDropped, Stop, vars,
     stats_vars, reset_vars
<1> QED BY <1>1, <1>2, <1>3, <1>4 DEF Next

(* A packet moves into the table and not yet into the counter, or a batch  *)
(* into the counter; a reset restarts the equation.                        *)
LEMMA ApplyCounted ==
  ASSUME PipelineTypeOK, OnePlace, AppliedApart, Counted, NEW p \in Procs, ApplyPacket(p)
  PROVE  Counted'
<1>1. PICK n \in work[p] :
        applied' = [applied EXCEPT ![p] = @ \union {n}] /\ finished' = finished \union {n}
  BY DEF ApplyPacket
<1>2. applied \in [Procs -> SUBSET Packets] /\ finished \in SUBSET Packets
  BY DEF PipelineTypeOK
<1>3. n \notin finished /\ n \notin Uncounted
  BY DEF OnePlace, InWork, AppliedApart, Uncounted
<1>4. Uncounted' = Uncounted \union {n}
  BY <1>1, <1>2 DEF Uncounted
<1>5. Uncounted \in SUBSET Packets
  BY <1>2 DEF Uncounted
<1>6. /\ Cardinality(finished') = Cardinality(finished) + 1
      /\ Cardinality(Uncounted') = Cardinality(Uncounted) + 1
      /\ Cardinality(finished) \in Nat /\ Cardinality(Uncounted) \in Nat
  BY <1>1, <1>2, <1>3, <1>4, <1>5, PacketsCounted, FS_AddElement
<1>7. /\ packets_processed \in Nat /\ cleared \in Nat /\ straddling \in Nat
      /\ UNCHANGED <<packets_processed, cleared, straddling>>
  BY DEF PipelineTypeOK, ApplyPacket, stats_vars, reset_vars
<1> QED BY <1>6, <1>7 DEF Counted

LEMMA BatchCounted ==
  ASSUME PipelineTypeOK, AppliedApart, Counted, NEW p \in Procs, CountBatch(p)
  PROVE  Counted'
<1>1. /\ applied' = [applied EXCEPT ![p] = {}]
      /\ packets_processed' = packets_processed + Cardinality(applied[p])
      /\ UNCHANGED <<finished, cleared, straddling>>
  BY DEF CountBatch, PacketCount, reset_vars
<1>2. applied \in [Procs -> SUBSET Packets]
  BY DEF PipelineTypeOK
<1>3. /\ Uncounted = Uncounted' \union applied[p]
      /\ Uncounted' \intersect applied[p] = {}
  BY <1>1, <1>2 DEF Uncounted, AppliedApart
<1>4. Uncounted' \in SUBSET Packets /\ applied[p] \in SUBSET Packets
  BY <1>1, <1>2 DEF Uncounted
<1>5. /\ Cardinality(Uncounted) = Cardinality(Uncounted') + Cardinality(applied[p])
      /\ Cardinality(Uncounted') \in Nat /\ Cardinality(applied[p]) \in Nat
  BY <1>3, <1>4, NewBatchCounted
<1>6. packets_processed \in Nat /\ cleared \in Nat /\ straddling \in Nat
      /\ Cardinality(finished) \in Nat
  BY PacketsCounted DEF PipelineTypeOK
<1> QED BY <1>1, <1>5, <1>6 DEF Counted

LEMMA StepCounted ==
  PipelineTypeOK /\ OnePlace /\ AppliedApart /\ Counted /\ [Next]_vars => Counted'
<1> SUFFICES ASSUME PipelineTypeOK, OnePlace, AppliedApart, Counted, [Next]_vars PROVE Counted'
  OBVIOUS
<1> USE DEF processor_vars, stats_vars, reset_vars
<1>1. CASE UNCHANGED <<finished, applied, packets_processed, cleared, straddling>>
  BY <1>1 DEF Counted, Uncounted
<1>2. CASE ClearProcessed
  <2>1. /\ packets_processed' = 0 /\ cleared' = Cardinality(finished)
        /\ straddling' = Cardinality(Uncounted)
        /\ UNCHANGED <<finished, Uncounted>>
    BY <1>2 DEF ClearProcessed, Uncounted
  <2>2. Cardinality(finished) \in Nat /\ Cardinality(Uncounted) \in Nat
    BY UncountedBounded, PacketsCounted DEF PipelineTypeOK
  <2> QED BY <2>1, <2>2 DEF Counted
<1>3. ASSUME NEW p \in Procs, Processor(p) PROVE Counted'
  BY <1>1, <1>3, ApplyCounted, BatchCounted
  DEF Processor, LinktypeSet, ProcessorCheck, Receive, ReceiveNothing
<1>4. CASE Capture \/ DeadlinePasses \/ KernelDrops \/ ClearDropped \/ Stop \/ UNCHANGED vars
  BY <1>1, <1>4 DEF Capture, SetupSucceeds, SetupFails, CaptureCheck, ReadPacket, TimeoutFlush,
     TimeoutIdle, ReadStats, ReadError, DeadlinePasses, KernelDrops, ClearDropped, Stop, vars
<1> QED BY <1>2, <1>3, <1>4 DEF Next

(* Together with the packets on the way into it packets_processed counts   *)
(* each packet applied since the last reset once.  A reset that falls      *)
(* between a batch's packets and their count leaves it too high, by at     *)
(* most a batch for each processor; and no packet is counted as dropped    *)
(* that was not.                                                           *)
THEOREM CountersAreRight == Spec => []CountersAgree
<1> DEFINE CountInv == AppliedApart /\ StraddlingBounded /\ Counted /\ DropsCounted
<1>1. Init => CountInv
  <2> SUFFICES ASSUME Init PROVE CountInv
    OBVIOUS
  <2>1. Uncounted = {} /\ finished = {} /\ refused = {}
    BY DEF Init, Uncounted
  <2>2. Cardinality(Procs) \in Nat /\ 0 <= Cardinality(Procs) * BatchSize
    BY PipelineAssumption, FS_CardinalityType
  <2> QED BY <2>1, <2>2, FS_EmptySet
          DEF Init, AppliedApart, StraddlingBounded, Counted, DropsCounted
<1>2. PipelineTypeOK /\ OnePlace /\ CountInv /\ [Next]_vars => CountInv'
  BY StepAppliedApart, StepStraddling, StepCounted, StepDropsCounted
<1>3. CountInv => CountersAgree
  BY DEF Counted, StraddlingBounded, DropsCounted, CountersAgree
<1> QED
  BY <1>1, <1>2, <1>3, InitTypeOK, StepTypeOK, PacketsInOnePlace, PTL DEF Spec

=============================================================================
