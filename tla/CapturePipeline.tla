--------------------------- MODULE CapturePipeline ---------------------------
(***************************************************************************)
(* The way of a packet from libpcap to the connection table (src/app.rs):  *)
(* the capture thread reads packets, collects them in batches and hands    *)
(* full or overdue batches to a bounded channel; the processor threads     *)
(* take batches from the channel and process them.  The channel refuses a  *)
(* batch when it is full; it is disconnected when the capture thread or    *)
(* all processors are gone.                                                *)
(*                                                                         *)
(* Packets are numbered in the order of their capture.  What processing    *)
(* does to the table is in ConnTable.                                      *)
(***************************************************************************)
EXTENDS Naturals, Sequences, FiniteSets

CONSTANTS
  Procs,            \* the packet processor threads
  BatchSize,        \* packets in a full batch: 100
  MaxPacketQueue,   \* MAX_PACKET_QUEUE, the capacity of the channel in batches
  MaxPackets,       \* bound of the model: packets captured
  MaxKernelDrops    \* bound of the model: packets the kernel drops

ASSUME PipelineAssumption ==
  /\ IsFiniteSet(Procs)
  /\ BatchSize \in Nat \ {0}
  /\ MaxPacketQueue \in Nat \ {0}
  /\ MaxPackets \in Nat /\ MaxKernelDrops \in Nat

VARIABLES
  capture,          \* program counter of the capture thread
  linktype,         \* whether linktype_storage is set
  captured,         \* packets read so far
  batch,            \* packets of the batch being collected
  deadline,         \* batch_deadline has passed
  queue,            \* the channel: batches in order
  pc,               \* program counter of each processor
  work,             \* packets of the batch each processor has still to apply
  applied,          \* and those of it that it has applied but not counted
  packets_processed, packets_dropped,   \* AppStats
  kernel_dropped,   \* libpcap's own count of dropped packets
  clearing,         \* the UI thread is between the stores of a reset
  should_stop,
  finished,         \* history: packets applied to the table, or skipped
  refused,          \* history: packets of batches the full channel refused
  discarded,        \* history: packets lost with the capture thread's batch
  cleared,          \* history: how many were when packets_processed was last reset
  straddling        \* history: how many of these had not been counted then

capture_vars == <<capture, linktype, captured, batch, deadline, discarded>>
channel_vars == <<queue, refused>>
processor_vars == <<pc, work, applied, finished>>
reset_vars == <<clearing, cleared, straddling>>
stats_vars == <<packets_processed, packets_dropped, reset_vars>>
vars == <<capture_vars, channel_vars, processor_vars, stats_vars, kernel_dropped, should_stop>>

Packets == 1..MaxPackets

Init ==
  /\ capture = "setup"
  /\ linktype = FALSE
  /\ captured = 0
  /\ batch = {}
  /\ deadline = FALSE
  /\ queue = <<>>
  /\ pc = [p \in Procs |-> "linktype"]
  /\ work = [p \in Procs |-> {}]
  /\ applied = [p \in Procs |-> {}]
  /\ packets_processed = 0 /\ packets_dropped = 0
  /\ kernel_dropped = 0
  /\ clearing = FALSE
  /\ should_stop = FALSE
  /\ finished = {} /\ refused = {} /\ discarded = {}
  /\ cleared = 0 /\ straddling = 0

-----------------------------------------------------------------------------
(* Capture thread.                                                         *)

(* setup_packet_capture opens the device.                                  *)
SetupSucceeds ==
  /\ capture = "setup"
  /\ capture' = "loop"
  /\ linktype' = TRUE
  /\ UNCHANGED <<captured, batch, deadline, discarded, channel_vars, processor_vars,
                 stats_vars, kernel_dropped, should_stop>>

(* It cannot: "Application will run in process-only mode".                 *)
SetupFails ==
  /\ capture = "setup"
  /\ capture' = "exited"
  /\ UNCHANGED <<linktype, captured, batch, deadline, discarded, channel_vars,
                 processor_vars, stats_vars, kernel_dropped, should_stop>>

(* The thread ends: the sender is dropped, and with it what is in packets. *)
Exit(packets) ==
  /\ capture' = "exited"
  /\ batch' = {}
  /\ discarded' = discarded \union packets

(* Mutant: should_stop is only looked at with packets at hand.             *)
StoppingWithPackets == should_stop /\ batch # {}

Stopping == should_stop

(* The top of the loop: should_stop is read.                               *)
CaptureCheck ==
  /\ capture = "loop"
  /\ IF Stopping THEN Exit(batch)
                 ELSE capture' = "read" /\ UNCHANGED <<batch, discarded>>
  /\ UNCHANGED <<linktype, captured, deadline, channel_vars, processor_vars, stats_vars,
                 kernel_dropped, should_stop>>

Receivers == {p \in Procs : pc[p] # "exited"}

(* Mutant: a refused batch is kept, and sent again with the next one.      *)
RefusedKept(packets) == packets

(* What is left in the batch after the channel refused it.                 *)
Refused(packets) == {}

(* Mutant: the newest batch comes first.                                   *)
EnqueuedFirst(packets) == <<packets>> \o queue

Enqueued(packets) == Append(queue, packets)

(* packet_tx.try_send(to_send); the thread goes on at next.                *)
TrySend(packets, next) ==
  IF Receivers = {}
    THEN /\ Exit(packets)
         /\ UNCHANGED <<deadline, channel_vars, packets_dropped>>
    ELSE /\ IF Len(queue) < MaxPacketQueue
              THEN /\ queue' = Enqueued(packets)
                   /\ batch' = {}
                   /\ UNCHANGED <<refused, packets_dropped>>
              ELSE /\ packets_dropped' = packets_dropped + Cardinality(packets)
                   /\ refused' = refused \union packets
                   /\ batch' = Refused(packets)
                   /\ UNCHANGED queue
         /\ deadline' = FALSE
         /\ capture' = next
         /\ UNCHANGED discarded

Full(packets) == Cardinality(packets) >= BatchSize \/ deadline

(* next_packet returns a packet; a full or overdue batch is sent.          *)
ReadPacket ==
  /\ capture = "read"
  /\ captured < MaxPackets
  /\ captured' = captured + 1
  /\ LET packets == batch \union {captured'} IN
     IF Full(packets)
       THEN TrySend(packets, "loop")
       ELSE /\ batch' = packets
            /\ capture' = "loop"
            /\ UNCHANGED <<deadline, discarded, channel_vars, packets_dropped>>
  /\ UNCHANGED <<linktype, processor_vars, packets_processed, reset_vars, kernel_dropped,
                 should_stop>>

(* Mutants: the partial batch waits for more packets; an empty one is sent.*)
NeverOverdue == FALSE
OverdueEmpty == deadline

Overdue == batch # {} /\ deadline

(* next_packet times out with an overdue batch, which is sent.             *)
TimeoutFlush ==
  /\ capture = "read"
  /\ Overdue
  /\ TrySend(batch, "stats")
  /\ UNCHANGED <<linktype, captured, processor_vars, packets_processed, reset_vars,
                 kernel_dropped, should_stop>>

(* next_packet times out with nothing to send.                             *)
TimeoutIdle ==
  /\ capture = "read"
  /\ ~Overdue
  /\ capture' = "stats"
  /\ UNCHANGED <<linktype, captured, batch, deadline, discarded, channel_vars,
                 processor_vars, stats_vars, kernel_dropped, should_stop>>

(* A second or more after the last reading of the statistics libpcap's     *)
(* count replaces the counter, refused batches and all.                    *)
ReadStats ==
  /\ capture = "stats"
  /\ packets_dropped' \in {packets_dropped, kernel_dropped}
  /\ capture' = "loop"
  /\ UNCHANGED <<linktype, captured, batch, deadline, discarded, channel_vars,
                 processor_vars, packets_processed, reset_vars, kernel_dropped, should_stop>>

(* next_packet fails, for instance because the interface goes down.        *)
ReadError ==
  /\ capture = "read"
  /\ Exit(batch)
  /\ UNCHANGED <<linktype, captured, deadline, channel_vars, processor_vars, stats_vars,
                 kernel_dropped, should_stop>>

Capturing == capture \in {"loop", "read", "stats"}

(* 100 ms have passed since the last batch was sent.                       *)
DeadlinePasses ==
  /\ Capturing
  /\ ~deadline
  /\ deadline' = TRUE
  /\ UNCHANGED <<capture, linktype, captured, batch, discarded, channel_vars,
                 processor_vars, stats_vars, kernel_dropped, should_stop>>

KernelDrops ==
  /\ Capturing
  /\ kernel_dropped < MaxKernelDrops
  /\ kernel_dropped' = kernel_dropped + 1
  /\ UNCHANGED <<capture_vars, channel_vars, processor_vars, stats_vars, should_stop>>

-----------------------------------------------------------------------------
(* Processor threads.                                                      *)

(* The processor polls linktype_storage until it is set.                   *)
LinktypeSet(p) ==
  /\ pc[p] = "linktype"
  /\ linktype
  /\ pc' = [pc EXCEPT ![p] = "loop"]
  /\ UNCHANGED <<capture_vars, channel_vars, work, applied, finished, stats_vars,
                 kernel_dropped, should_stop>>

ProcessorCheck(p) ==
  /\ pc[p] = "loop"
  /\ pc' = [pc EXCEPT ![p] = IF should_stop THEN "exited" ELSE "recv"]
  /\ UNCHANGED <<capture_vars, channel_vars, work, applied, finished, stats_vars,
                 kernel_dropped, should_stop>>

(* packet_rx.recv_timeout delivers the oldest batch.                       *)
Receive(p) ==
  /\ pc[p] = "recv"
  /\ queue # <<>>
  /\ work' = [work EXCEPT ![p] = Head(queue)]
  /\ queue' = Tail(queue)
  /\ pc' = [pc EXCEPT ![p] = "work"]
  /\ UNCHANGED <<capture_vars, refused, applied, finished, stats_vars, kernel_dropped,
                 should_stop>>

(* Mutant: the disconnection is noticed before the queue is empty.         *)
DisconnectedEarly == capture = "exited"

(* The channel reports the loss of its sender only when it is empty.       *)
Disconnected == capture = "exited" /\ queue = <<>>

ReceiveNothing(p) ==
  /\ pc[p] = "recv"
  /\ \/ /\ Disconnected
        /\ pc' = [pc EXCEPT ![p] = "exited"]
     \/ /\ queue = <<>>
        /\ capture # "exited"
        /\ pc' = [pc EXCEPT ![p] = "loop"]
  /\ UNCHANGED <<capture_vars, channel_vars, work, applied, finished, stats_vars,
                 kernel_dropped, should_stop>>

(* The packets of the batch are parsed and applied to the table one after  *)
(* the other; one that panics in the parser is skipped.                    *)
ApplyPacket(p) ==
  /\ pc[p] = "work"
  /\ \E n \in work[p] :
       /\ \A m \in work[p] : n <= m
       /\ work' = [work EXCEPT ![p] = @ \ {n}]
       /\ applied' = [applied EXCEPT ![p] = @ \union {n}]
       /\ finished' = finished \union {n}
  /\ UNCHANGED <<capture_vars, channel_vars, pc, stats_vars, kernel_dropped, should_stop>>

(* Mutant: batches are counted.                                            *)
BatchCount(p) == 1

PacketCount(p) == Cardinality(applied[p])

(* Only then the counter moves, once for the whole batch.                  *)
CountBatch(p) ==
  /\ pc[p] = "work"
  /\ work[p] = {}
  /\ packets_processed' = packets_processed + PacketCount(p)
  /\ applied' = [applied EXCEPT ![p] = {}]
  /\ pc' = [pc EXCEPT ![p] = "loop"]
  /\ UNCHANGED <<capture_vars, channel_vars, work, finished, packets_dropped, reset_vars,
                 kernel_dropped, should_stop>>

-----------------------------------------------------------------------------
(* UI thread.                                                              *)

(* Applied, and on the way into the counter.                               *)
Uncounted == UNION {applied[p] : p \in Procs}

(* clear_all_connections resets the counters one after the other.          *)
ClearProcessed ==
  /\ ~should_stop
  /\ ~clearing
  /\ packets_processed' = 0
  /\ clearing' = TRUE
  /\ cleared' = Cardinality(finished)
  /\ straddling' = Cardinality(Uncounted)
  /\ UNCHANGED <<capture_vars, channel_vars, processor_vars, packets_dropped, kernel_dropped,
                 should_stop>>

ClearDropped ==
  /\ clearing
  /\ packets_dropped' = 0
  /\ clearing' = FALSE
  /\ UNCHANGED <<capture_vars, channel_vars, processor_vars, packets_processed, cleared,
                 straddling, kernel_dropped, should_stop>>

Stop ==
  /\ ~should_stop
  /\ ~clearing
  /\ should_stop' = TRUE
  /\ UNCHANGED <<capture_vars, channel_vars, processor_vars, stats_vars, kernel_dropped>>

-----------------------------------------------------------------------------
Capture ==
  \/ SetupSucceeds \/ SetupFails
  \/ CaptureCheck \/ ReadPacket \/ TimeoutFlush \/ TimeoutIdle \/ ReadStats \/ ReadError

Processor(p) ==
  \/ LinktypeSet(p) \/ ProcessorCheck(p) \/ Receive(p) \/ ReceiveNothing(p)
  \/ ApplyPacket(p) \/ CountBatch(p)

Next ==
  \/ Capture
  \/ \E p \in Procs : Processor(p)
  \/ DeadlinePasses \/ KernelDrops
  \/ ClearProcessed \/ ClearDropped \/ Stop

Spec == Init /\ [][Next]_vars

(* Every thread keeps running, and time passes.  next_packet returns at    *)
(* the latest after the read timeout of the capture handle.                *)
FairSpec ==
  /\ Spec
  /\ WF_vars(Capture)
  /\ \A p \in Procs : WF_vars(Processor(p))
  /\ WF_vars(DeadlinePasses)

=============================================================================
