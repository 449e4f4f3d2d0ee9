------------------------ MODULE CapturePipelineProps ------------------------
(***************************************************************************)
(* What must hold of the capture pipeline, and what the repository says of *)
(* it that does not.                                                       *)
(***************************************************************************)
EXTENDS CapturePipeline

(* The batches that may be sent.                                           *)
Batches == {S \in SUBSET Packets : S # {} /\ Cardinality(S) <= BatchSize}

Queued == UNION {queue[i] : i \in DOMAIN queue}
InWork == UNION {work[p] : p \in Procs}

-----------------------------------------------------------------------------
(* Types; batches are neither empty nor too large, a processor holds one   *)
(* only while it works, the capture thread none after its end.             *)
PipelineTypeOK ==
  /\ capture \in {"setup", "loop", "read", "stats", "exited"}
  /\ linktype \in BOOLEAN
  /\ captured \in 0..MaxPackets
  /\ batch \in SUBSET Packets /\ Cardinality(batch) < BatchSize
  /\ deadline \in BOOLEAN
  /\ queue \in Seq(Batches)
  /\ Len(queue) <= MaxPacketQueue
  /\ pc \in [Procs -> {"linktype", "loop", "recv", "work", "exited"}]
  /\ work \in [Procs -> SUBSET Packets] /\ applied \in [Procs -> SUBSET Packets]
  /\ packets_processed \in Nat /\ packets_dropped \in Nat
  /\ kernel_dropped \in 0..MaxKernelDrops
  /\ should_stop \in BOOLEAN
  /\ finished \subseteq Packets /\ refused \subseteq Packets /\ discarded \subseteq Packets
  /\ clearing \in BOOLEAN
  /\ cleared \in Nat /\ straddling \in Nat
  /\ capture \in {"loop", "read", "stats"} => linktype
  /\ capture \in {"setup", "exited"} => batch = {}
  /\ \A p \in Procs :
       \/ pc[p] = "work" /\ work[p] \union applied[p] \in Batches
       \/ pc[p] # "work" /\ work[p] = {} /\ applied[p] = {}

(* Every packet read is in one place: collected, queued, in work, finished,*)
(* refused by the full channel, or discarded with the capture thread's     *)
(* batch; none is lost between two threads and none processed twice.       *)
OnePlace ==
  /\ 1..captured = batch \union Queued \union InWork \union finished
                     \union refused \union discarded
  /\ batch \intersect (Queued \union InWork \union finished \union refused \union discarded) = {}
  /\ Queued \intersect (InWork \union finished \union refused \union discarded) = {}
  /\ InWork \intersect (finished \union refused \union discarded) = {}
  /\ finished \intersect (refused \union discarded) = {}
  /\ refused \intersect discarded = {}
  /\ \A i, j \in DOMAIN queue : i # j => queue[i] \intersect queue[j] = {}
  /\ \A p, q \in Procs : p # q => work[p] \intersect work[q] = {}

(* Before a packet reaches a processor nothing overtakes it: batches are   *)
(* received in the order of capture.                                       *)
Earlier(S, T) == \A m \in S, n \in T : m < n
OrderKept ==
  /\ Earlier(InWork \union finished, Queued \union batch)
  /\ Earlier(Queued, batch)
  /\ \A i, j \in DOMAIN queue : i < j => Earlier(queue[i], queue[j])

(* Until the user stops the program the processors outlive the capture:    *)
(* when a processor has ended, the channel is empty for good.              *)
DrainedBeforeExit ==
  ~should_stop /\ (\E p \in Procs : pc[p] = "exited") => capture = "exited" /\ queue = <<>>

(* The statistics and what happened.  With what is on the way into it      *)
(* packets_processed counts every packet applied since the last reset      *)
(* once.  A reset between the packets of a batch and their count           *)
(* (app.rs:977, 1006, 1929) leaves it too high, by the packets applied     *)
(* before and counted after: for good, and by no more than a batch for     *)
(* each processor.  packets_dropped counts no packet that was not dropped. *)
CountersAgree ==
  /\ packets_processed + Cardinality(Uncounted) = (Cardinality(finished) - cleared) + straddling
  /\ straddling <= Cardinality(Procs) * BatchSize
  /\ packets_dropped <= Cardinality(refused) + kernel_dropped

(* When no further packet comes, every packet read has been processed, or  *)
(* refused by the full channel, or lost when reading fails, unless the     *)
(* program is stopping: no partial batch waits for ever for a later packet *)
(* (the model lets any capture fall quiet, MaxPackets ends each of them).  *)
Settled(n) == n \in finished \union refused \union discarded
EveryPacketSettled == <>[]((\A n \in 1..captured : Settled(n)) \/ should_stop)

(* Once a capture has started, stop ends the capture thread and all        *)
(* processors.                                                             *)
AllExited == capture = "exited" /\ \A p \in Procs : pc[p] = "exited"
StopEndsThreads == should_stop /\ linktype ~> AllExited

=============================================================================
