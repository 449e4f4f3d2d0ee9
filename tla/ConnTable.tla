----------------------------- MODULE ConnTable -----------------------------
(***************************************************************************)
(* The connection table of rustnet (src/app.rs) and the threads that       *)
(* change it:                                                              *)
(*                                                                         *)
(*   - up to four packet processors, which run update_connection for every *)
(*     parsed packet: look up the QUIC connection-ID mapping, check the    *)
(*     limit on tracked connections, then merge into or create the entry;  *)
(*   - the cleanup thread, which removes expired entries with retain,      *)
(*     archives them in the historic pool, evicts the oldest of that pool  *)
(*     and then drops the QUIC mappings of the removed keys;               *)
(*   - the UI thread, which clears everything (clear_all_connections) and  *)
(*     finally raises should_stop.                                         *)
(*                                                                         *)
(* Each step that takes its own lock (a DashMap shard, the mapping's       *)
(* mutex) is an action of its own, so the threads interleave between them. *)
(* A connection is identified by the order of its creation, which stands   *)
(* for created_at; what a packet says about the connection is abstracted   *)
(* to the timeout class that get_timeout derives from it.                  *)
(***************************************************************************)
EXTENDS Naturals, FiniteSets

CONSTANTS
  Procs,            \* the packet processor threads
  Keys,             \* connection keys (protocol and both addresses)
  Cids,             \* QUIC connection IDs
  Timeouts,         \* timeout classes, in units of the coarse clock of Tick
  MaxConnections,   \* MAX_CONNECTIONS
  MaxQuicMappings,  \* MAX_QUIC_MAPPINGS
  MaxHistoric,      \* MAX_HISTORIC_CONNECTIONS
  OverflowChecks,   \* debug builds panic on usize underflow, release builds wrap
  MaxCreated,       \* bound of the model: connections ever created
  NoConn,           \* no entry under a key
  NoKey,            \* no key
  NoCid             \* a packet that carries no QUIC connection ID

ASSUME ProcsAssumption == IsFiniteSet(Procs) /\ Procs # {}
ASSUME KeysAssumption == IsFiniteSet(Keys) /\ NoKey \notin Keys
ASSUME CidsAssumption == NoCid \notin Cids
ASSUME TimeoutsAssumption == Timeouts \subseteq Nat /\ Timeouts # {}
ASSUME LimitsAssumption ==
  /\ MaxConnections \in Nat \ {0}
  /\ MaxQuicMappings \in Nat \ {0}
  /\ MaxHistoric \in Nat
  /\ MaxCreated \in Nat
  /\ OverflowChecks \in BOOLEAN

VARIABLES
  connections,      \* DashMap: key -> entry
  nextId,           \* identity of the next connection created
  quic_mapping,     \* QUIC_CONNECTION_MAPPING: connection ID -> key
  historic,         \* historic_connections
  pc,               \* program counter of each processor
  pkey,             \* the key a processor works on, after the QUIC lookup
  pown,             \* the key of the packet itself
  cpc,              \* program counter of the cleanup thread
  scan,             \* keys the current retain pass has not visited
  removed_keys,     \* keys removed by this cleanup pass
  to_archive,       \* connections removed but not archived yet
  entries,          \* candidates collected for eviction
  now,              \* rank of the cleanup pass, stands for closed_at
  upc,              \* program counter of the UI thread
  should_stop

table_vars == <<connections, nextId>>
proc_vars == <<pc, pkey, pown>>
cleanup_vars == <<cpc, scan, removed_keys, to_archive, entries, now>>
ui_vars == <<upc, should_stop>>
vars == <<table_vars, quic_mapping, historic, proc_vars, cleanup_vars, ui_vars>>

Ids == 1..MaxCreated

(* id: which connection; own: the key its first packet carried, what       *)
(* Connection::key() returns; age: time since last_activity.               *)
Connection ==
  [id : Ids, own : Keys, age : Nat, timeout : Timeouts]
ASSUME NoConnAssumption == NoConn \notin Connection

(* An entry of the historic pool: the key it had in the table, the key of  *)
(* its own addresses, created_at and closed_at.                            *)
Historic == [key : Keys, own : Keys, id : Ids, closed : Nat]

Tracked == {k \in Keys : connections[k] # NoConn}
LiveIds == {connections[k].id : k \in Tracked}

(* The connection IDs with a mapping, and the empty mapping.               *)
Mapped == {c \in Cids : quic_mapping[c] # NoKey}
NoMapping == [c \in Cids |-> NoKey]

(* should_cleanup *)
Expired(conn) == conn.age >= conn.timeout

(* Mutant: the historic pool keyed like the table.                         *)
HistoricKeyTableOnly(h) == <<h.key>>

(* The DashMap key of the historic pool: table key and created_at.         *)
HistoricKey(h) == <<h.key, h.id>>

-----------------------------------------------------------------------------
Init ==
  /\ connections = [k \in Keys |-> NoConn]
  /\ nextId = 1
  /\ quic_mapping = NoMapping
  /\ historic = {}
  /\ pc = [p \in Procs |-> "recv"]
  /\ pkey = [p \in Procs |-> NoKey]
  /\ pown = [p \in Procs |-> NoKey]
  /\ cpc = "sleep"
  /\ scan = {}
  /\ removed_keys = {}
  /\ to_archive = {}
  /\ entries = {}
  /\ now = 1
  /\ upc = "run"
  /\ should_stop = FALSE

-----------------------------------------------------------------------------
(* Packet processors: update_connection.                                   *)

MappingFull == Cardinality(Mapped) >= MaxQuicMappings

(* The mapping after connection ID c has been looked up for key k: an      *)
(* existing mapping is kept, a full map is cleared before the insertion.   *)
MapCid(c, k) ==
  IF c \in Mapped
    THEN quic_mapping
    ELSE [IF MappingFull THEN NoMapping ELSE quic_mapping EXCEPT ![c] = k]

(* A processor takes the next parsed packet and resolves its key: a QUIC   *)
(* packet with a known connection ID is redirected to the mapped key.      *)
ResolveKey(p, k, c) ==
  /\ pc[p] = "recv"
  /\ pown' = [pown EXCEPT ![p] = k]
  /\ IF c = NoCid
       THEN /\ pkey' = [pkey EXCEPT ![p] = k]
            /\ UNCHANGED quic_mapping
       ELSE /\ pkey' = [pkey EXCEPT ![p] = MapCid(c, k)[c]]
            /\ quic_mapping' = MapCid(c, k)
  /\ pc' = [pc EXCEPT ![p] = "contains"]
  /\ UNCHANGED <<table_vars, historic, cleanup_vars, ui_vars>>

(* connections.contains_key(&key): a known key skips the limit check.      *)
CheckContains(p) ==
  /\ pc[p] = "contains"
  /\ pc' = [pc EXCEPT ![p] = IF pkey[p] \in Tracked THEN "entry" ELSE "len"]
  /\ UNCHANGED <<table_vars, quic_mapping, historic, pkey, pown, cleanup_vars, ui_vars>>

(* Mutant: the limit compared with > instead of >=.                        *)
TableFullLate == Cardinality(Tracked) > MaxConnections

TableFull == Cardinality(Tracked) >= MaxConnections

(* The processor is done with its packet; its locals go out of scope.      *)
PacketDone(p) ==
  /\ pc' = [pc EXCEPT ![p] = "recv"]
  /\ pkey' = [pkey EXCEPT ![p] = NoKey]
  /\ pown' = [pown EXCEPT ![p] = NoKey]

(* connections.len() >= MAX_CONNECTIONS: the packet is dropped, but what   *)
(* it did to the QUIC mapping stays.                                       *)
CheckLimit(p) ==
  /\ pc[p] = "len"
  /\ IF TableFull
       THEN PacketDone(p)
       ELSE /\ pc' = [pc EXCEPT ![p] = "entry"]
            /\ UNCHANGED <<pkey, pown>>
  /\ UNCHANGED <<table_vars, quic_mapping, historic, cleanup_vars, ui_vars>>

(* connections.entry(key).and_modify(..).or_insert_with(..), under the     *)
(* lock of the key's shard.                                                *)
UpsertEntry(p) ==
  /\ pc[p] = "entry"
  /\ \E t \in Timeouts :
       LET k == pkey[p] IN
       \/ /\ k \in Tracked
          /\ connections' = [connections EXCEPT ![k].age = 0, ![k].timeout = t]
          /\ UNCHANGED nextId
       \/ /\ k \notin Tracked
          /\ nextId <= MaxCreated
          /\ connections' = [connections EXCEPT
                ![k] = [id |-> nextId, own |-> pown[p], age |-> 0, timeout |-> t]]
          /\ nextId' = nextId + 1
  /\ PacketDone(p)
  /\ UNCHANGED <<quic_mapping, historic, cleanup_vars, ui_vars>>

(* Time passes without a packet for the connection under k.                *)
Tick(k) ==
  /\ k \in Tracked
  /\ ~Expired(connections[k])
  /\ connections' = [connections EXCEPT ![k].age = @ + 1]
  /\ UNCHANGED <<nextId, quic_mapping, historic, proc_vars, cleanup_vars, ui_vars>>

-----------------------------------------------------------------------------
(* Cleanup thread.                                                         *)

CleanupBegin ==
  /\ cpc = "sleep"
  /\ ~should_stop
  /\ cpc' = "retain"
  /\ scan' = Keys
  /\ UNCHANGED <<table_vars, quic_mapping, historic, proc_vars, ui_vars,
                 removed_keys, to_archive, entries, now>>

(* Mutant: the retain closure archives the entry and keeps it.             *)
RetainedAfterArchival(k) == connections

(* The table without the entry the retain closure rejects.                 *)
Retained(k) == [connections EXCEPT ![k] = NoConn]

Removes(k) == k \in Tracked /\ Expired(connections[k])

(* The retain closure for one key, under the lock of its shard.            *)
CleanupVisit(k) ==
  /\ cpc = "retain"
  /\ k \in scan
  /\ scan' = scan \ {k}
  /\ IF Removes(k)
       THEN /\ connections' = Retained(k)
            /\ removed_keys' = removed_keys \union {k}
            /\ to_archive' = to_archive \union
                 {[key |-> k, own |-> connections[k].own, id |-> connections[k].id,
                   closed |-> now]}
       ELSE UNCHANGED <<connections, removed_keys, to_archive>>
  /\ UNCHANGED <<nextId, quic_mapping, historic, proc_vars, ui_vars, cpc, entries, now>>

CleanupScanned ==
  /\ cpc = "retain"
  /\ scan = {}
  /\ cpc' = "archive"
  /\ UNCHANGED <<table_vars, quic_mapping, historic, proc_vars, ui_vars,
                 scan, removed_keys, to_archive, entries, now>>

(* The pool after the insertion of h, which replaces an entry of the same  *)
(* key.                                                                    *)
InsertHistoric(h) ==
  {g \in historic : HistoricKey(g) # HistoricKey(h)} \union {h}

Archive(h) ==
  /\ cpc = "archive"
  /\ h \in to_archive
  /\ historic' = InsertHistoric(h)
  /\ to_archive' = to_archive \ {h}
  /\ UNCHANGED <<table_vars, quic_mapping, proc_vars, ui_vars,
                 cpc, scan, removed_keys, entries, now>>

(* Mutant: eviction does not wait for the archiving loop.                  *)
ArchivingNotAwaited == TRUE

AllArchived == to_archive = {}

(* historic_connections.len() > MAX_HISTORIC_CONNECTIONS: collect the      *)
(* pool's entries for sorting.                                             *)
CollectForEviction ==
  /\ cpc = "archive"
  /\ AllArchived
  /\ IF Cardinality(historic) > MaxHistoric
       THEN cpc' = "evict" /\ entries' = historic
       ELSE cpc' = "mapping" /\ UNCHANGED entries
  /\ UNCHANGED <<table_vars, quic_mapping, historic, proc_vars, ui_vars,
                 scan, removed_keys, to_archive, now>>

(* Mutant: the most recently closed first.                                 *)
IsNewest(V, n, S) ==
  /\ Cardinality(V) = n
  /\ \A v \in V, g \in S \ V : v.closed >= g.closed

(* The first n of S by closed_at; ties in any order.                       *)
IsOldest(V, n, S) ==
  /\ Cardinality(V) = n
  /\ \A v \in V, g \in S \ V : v.closed <= g.closed

(* Mutant: one entry too few.                                              *)
ExcessShort ==
  IF Cardinality(historic) = MaxHistoric THEN 0 ELSE Cardinality(historic) - MaxHistoric - 1

Excess == Cardinality(historic) - MaxHistoric

(* to_remove = historic_connections.len() - MAX_HISTORIC_CONNECTIONS, with *)
(* the length read anew; then the removal of the first to_remove entries.  *)
EvictOldest ==
  /\ cpc = "evict"
  /\ Cardinality(historic) >= MaxHistoric
  /\ \E V \in SUBSET entries :
       /\ IsOldest(V, Excess, entries)
       /\ historic' = historic \ V
  /\ entries' = {}
  /\ cpc' = "mapping"
  /\ UNCHANGED <<table_vars, quic_mapping, proc_vars, ui_vars,
                 scan, removed_keys, to_archive, now>>

(* Mutant: a release build with overflow checks.                           *)
PanicsAlways == TRUE

UnderflowPanics == OverflowChecks

(* A clear came between the two reads of the length: the subtraction       *)
(* underflows. A debug build panics and the thread is gone; a release      *)
(* build wraps, and take(to_remove) then removes every entry collected.    *)
EvictUnderflow ==
  /\ cpc = "evict"
  /\ Cardinality(historic) < MaxHistoric
  /\ IF UnderflowPanics
       THEN cpc' = "panicked" /\ UNCHANGED historic
       ELSE cpc' = "mapping" /\ historic' = historic \ entries
  /\ entries' = {}
  /\ UNCHANGED <<table_vars, quic_mapping, proc_vars, ui_vars,
                 scan, removed_keys, to_archive, now>>

(* Mutant: the mappings of removed connections stay.                       *)
MappingUncleaned == quic_mapping

MappingCleaned ==
  [c \in Cids |-> IF quic_mapping[c] \in removed_keys THEN NoKey ELSE quic_mapping[c]]

(* mapping.retain(|_, conn_key| !removed_keys.contains(conn_key)), under   *)
(* the mapping's lock; then the thread sleeps.                             *)
CleanMapping ==
  /\ cpc = "mapping"
  /\ quic_mapping' = MappingCleaned
  /\ now' = IF removed_keys = {} THEN now ELSE now + 1
  /\ removed_keys' = {}
  /\ cpc' = "sleep"
  /\ UNCHANGED <<table_vars, historic, proc_vars, ui_vars, scan, to_archive, entries>>

CleanupExit ==
  /\ cpc = "sleep"
  /\ should_stop
  /\ cpc' = "stopped"
  /\ UNCHANGED <<table_vars, quic_mapping, historic, proc_vars, ui_vars,
                 scan, removed_keys, to_archive, entries, now>>

-----------------------------------------------------------------------------
(* UI thread: clear_all_connections, in the order of its statements, and   *)
(* stop.                                                                   *)

ClearConnections ==
  /\ upc = "run"
  /\ connections' = [k \in Keys |-> NoConn]
  /\ upc' = "historic"
  /\ UNCHANGED <<nextId, quic_mapping, historic, proc_vars, cleanup_vars, should_stop>>

ClearHistoric ==
  /\ upc = "historic"
  /\ historic' = {}
  /\ upc' = "view"
  /\ UNCHANGED <<table_vars, quic_mapping, proc_vars, cleanup_vars, should_stop>>

(* The toggle, the snapshot, the traffic history and the RTT tracker,      *)
(* which this module does not hold.                                        *)
ClearView ==
  /\ upc = "view"
  /\ upc' = "mapping"
  /\ UNCHANGED <<table_vars, quic_mapping, historic, proc_vars, cleanup_vars, should_stop>>

ClearMapping ==
  /\ upc = "mapping"
  /\ quic_mapping' = NoMapping
  /\ upc' = "run"
  /\ UNCHANGED <<table_vars, historic, proc_vars, cleanup_vars, should_stop>>

Stop ==
  /\ upc = "run"
  /\ should_stop' = TRUE
  /\ upc' = "stopped"
  /\ UNCHANGED <<table_vars, quic_mapping, historic, proc_vars, cleanup_vars>>

-----------------------------------------------------------------------------
Processor(p) ==
  \/ \E k \in Keys, c \in Cids \union {NoCid} : ResolveKey(p, k, c)
  \/ CheckContains(p)
  \/ CheckLimit(p)
  \/ UpsertEntry(p)

Cleanup ==
  \/ CleanupBegin
  \/ \E k \in Keys : CleanupVisit(k)
  \/ CleanupScanned
  \/ \E h \in to_archive : Archive(h)
  \/ CollectForEviction
  \/ EvictOldest
  \/ EvictUnderflow
  \/ CleanMapping
  \/ CleanupExit

Ui == ClearConnections \/ ClearHistoric \/ ClearView \/ ClearMapping \/ Stop

Next ==
  \/ \E p \in Procs : Processor(p)
  \/ \E k \in Keys : Tick(k)
  \/ Cleanup
  \/ Ui

Spec == Init /\ [][Next]_vars

(* The cleanup thread is a loop of bounded passes with a five second       *)
(* sleep: it is scheduled again and again.                                 *)
FairSpec == Spec /\ WF_vars(Cleanup)

=============================================================================
