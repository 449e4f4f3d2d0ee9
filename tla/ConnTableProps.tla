--------------------------- MODULE ConnTableProps ---------------------------
(***************************************************************************)
(* What must hold of the connection table, and what the repository says of *)
(* it that does not.                                                       *)
(***************************************************************************)
EXTENDS ConnTable

-----------------------------------------------------------------------------
(* Types, and what is pending in the cleanup thread between its steps: the *)
(* local collections of a pass are empty while the thread sleeps, and only *)
(* the archiving step starts with connections to archive.                  *)
TypeOK ==
  /\ connections \in [Keys -> Connection \union {NoConn}]
  /\ nextId \in 1..(MaxCreated + 1)
  /\ quic_mapping \in [Cids -> Keys \union {NoKey}]
  /\ historic \in SUBSET Historic
  /\ pc \in [Procs -> {"recv", "contains", "len", "entry"}]
  /\ pkey \in [Procs -> Keys \union {NoKey}]
  /\ pown \in [Procs -> Keys \union {NoKey}]
  /\ \A p \in Procs : pc[p] # "recv" <=> pkey[p] # NoKey /\ pown[p] # NoKey
  /\ cpc \in {"sleep", "retain", "archive", "evict", "mapping", "stopped", "panicked"}
  /\ scan \in SUBSET Keys
  /\ removed_keys \in SUBSET Keys
  /\ to_archive \in SUBSET Historic
  /\ entries \in SUBSET Historic
  /\ now \in Nat \ {0}
  /\ upc \in {"run", "historic", "view", "mapping", "stopped", "stopped once", "exited"}
  /\ should_stop \in BOOLEAN
  /\ cpc \in {"sleep", "stopped"} => removed_keys = {}
  /\ cpc \notin {"retain", "archive"} => to_archive = {}
  /\ cpc # "evict" => entries = {}

(* The limit check and the insertion of update_connection (app.rs:2030,    *)
(* 2038) are two steps.  Processors that passed the check together may all *)
(* insert, and no more: the table exceeds MAX_CONNECTIONS by at most one   *)
(* entry for each processor but one.                                       *)
TableBounded ==
  Cardinality(Tracked) <= MaxConnections + Cardinality(Procs) - 1

(* What the table is committed to: its keys and those of the processors    *)
(* that have passed the limit check.  The bound holds of them inductively. *)
Inserting == {p \in Procs : pc[p] = "entry"}
Pending == {pkey[p] : p \in Inserting}
Committed == Tracked \union Pending
TableInv == Cardinality(Committed) <= MaxConnections + Cardinality(Procs) - 1

InFlight(p) == pc[p] \in {"contains", "len", "entry"}

(* As long as no new connection is refused for the limit, a QUIC mapping   *)
(* never outlives its connection: it leads to a tracked key, to the key a  *)
(* processor is about to insert, to a key whose mappings the running       *)
(* cleanup pass still has to drop, or a clear is under way that will drop  *)
(* all mappings.                                                           *)
MappingBacked ==
  \A c \in Mapped :
    \/ quic_mapping[c] \in Tracked
    \/ \E p \in Procs : InFlight(p) /\ pkey[p] = quic_mapping[c]
    \/ quic_mapping[c] \in removed_keys
    \/ upc \in {"historic", "view", "mapping"}

(* A connection has one home: it is tracked under one key, or waits to be  *)
(* archived, or has one entry in the historic pool, never two of these.    *)
OneHome ==
  /\ \A k, l \in Tracked : connections[k].id = connections[l].id => k = l
  /\ \A g, h \in to_archive \union historic : g.id = h.id => g = h
  /\ to_archive \intersect historic = {}
  /\ \A h \in to_archive \union historic : h.id \notin LiveIds

(* Outside a pass's archive-and-evict steps the historic pool respects     *)
(* MAX_HISTORIC_CONNECTIONS.                                               *)
HistoricBounded ==
  cpc \in {"sleep", "retain", "mapping", "stopped"} =>
    Cardinality(historic) <= MaxHistoric

(* Eviction removes the connections that were closed first: nothing that   *)
(* stays was closed before something that goes, and it stops at the limit. *)
EvictsOldestFirst ==
  [][cpc = "evict" /\ historic' # {} =>
       /\ \A h \in historic \ historic', g \in historic' : h.closed <= g.closed
       /\ Cardinality(historic') >= MaxHistoric]_historic

(* An expired connection does not stay in the table: it is removed, or a   *)
(* packet revives it, unless the program is stopping.                      *)
ExpiredId(i) == \E k \in Tracked : connections[k].id = i /\ Expired(connections[k])
ExpiredEventuallyRemoved ==
  \A i \in Ids : ExpiredId(i) ~> (~ExpiredId(i) \/ should_stop)

(* The table and the pool together implement the connection lifecycle.     *)
Stage(i) ==
  IF i \in LiveIds THEN "live"
  ELSE IF \E h \in to_archive : h.id = i THEN "closed"
  ELSE IF \E h \in historic : h.id = i THEN "historic"
  ELSE IF i >= nextId THEN "unborn" ELSE "gone"

Lifecycle == INSTANCE ConnLifecycle WITH Ids <- Ids, stage <- [i \in Ids |-> Stage(i)]
ImplementsLifecycle == Lifecycle!Spec

=============================================================================
