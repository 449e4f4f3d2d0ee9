-------------------------- MODULE ConnTableProofs --------------------------
(***************************************************************************)
(* Theorems about the connection table, for every number of processors,    *)
(* keys and connection IDs and every value of the limits.                  *)
(***************************************************************************)
EXTENDS ConnTableProps, FiniteSetTheorems, TLAPS

-----------------------------------------------------------------------------
(* Type correctness.                                                       *)

LEMMA InitTypeOK == Init => TypeOK
<1> SUFFICES ASSUME Init PROVE TypeOK
  OBVIOUS
<1> USE DEF Init
<1>1. connections \in [Keys -> Connection \union {NoConn}] /\ nextId \in 1..(MaxCreated + 1)
  BY LimitsAssumption
<1>2. quic_mapping \in [Cids -> Keys \union {NoKey}]
  BY DEF NoMapping
<1>3. /\ pc \in [Procs -> {"recv", "contains", "len", "entry"}]
      /\ pkey \in [Procs -> Keys \union {NoKey}]
      /\ pown \in [Procs -> Keys \union {NoKey}]
      /\ \A p \in Procs : pc[p] # "recv" <=> pkey[p] # NoKey /\ pown[p] # NoKey
  OBVIOUS
<1>4. /\ historic \in SUBSET Historic /\ to_archive \in SUBSET Historic
      /\ entries \in SUBSET Historic
      /\ scan \in SUBSET Keys /\ removed_keys \in SUBSET Keys
      /\ now \in Nat \ {0}
  OBVIOUS
<1> QED BY <1>1, <1>2, <1>3, <1>4 DEF TypeOK

(* The mapping after a lookup stays a mapping, and the lookup finds a key. *)
LEMMA MapCidType ==
  ASSUME TypeOK, NEW c \in Cids, NEW k \in Keys
  PROVE  /\ MapCid(c, k) \in [Cids -> Keys \union {NoKey}]
         /\ MapCid(c, k)[c] \in Keys
BY DEF TypeOK, MapCid, Mapped, NoMapping

(* What a packet does to the table: it replaces the entry under its key,   *)
(* keeping the identity, or adds one with the next identity.               *)
LEMMA EntryWritten ==
  ASSUME TypeOK, NEW p \in Procs, UpsertEntry(p)
  PROVE  /\ pkey[p] \in Keys
         /\ \E e \in Connection :
              /\ connections' = [connections EXCEPT ![pkey[p]] = e]
              /\ \/ /\ pkey[p] \in Tracked
                    /\ e.id = connections[pkey[p]].id
                    /\ nextId' = nextId
                 \/ /\ pkey[p] \notin Tracked
                    /\ e.id = nextId
                    /\ nextId <= MaxCreated
                    /\ nextId' = nextId + 1
<1> DEFINE k == pkey[p]
<1>1. k \in Keys /\ pown[p] \in Keys
  BY DEF TypeOK, UpsertEntry
<1>2. /\ nextId \in 1..(MaxCreated + 1)
      /\ connections \in [Keys -> Connection \union {NoConn}]
  BY DEF TypeOK
<1>3. PICK t \in Timeouts :
        \/ /\ k \in Tracked
           /\ connections' = [connections EXCEPT ![k].age = 0, ![k].timeout = t]
           /\ UNCHANGED nextId
        \/ /\ k \notin Tracked
           /\ nextId <= MaxCreated
           /\ connections' = [connections EXCEPT
                 ![k] = [id |-> nextId, own |-> pown[p], age |-> 0, timeout |-> t]]
           /\ nextId' = nextId + 1
  BY DEF UpsertEntry
<1>4. CASE k \in Tracked
  <2> DEFINE e == [connections[k] EXCEPT !.age = 0, !.timeout = t]
  <2>1. connections[k] \in Connection
    BY <1>1, <1>2, <1>4 DEF Tracked
  <2>2. e \in Connection /\ e.id = connections[k].id
    BY <2>1 DEF Connection
  <2>3. connections' = [connections EXCEPT ![k] = e]
    BY <1>1, <1>2, <1>3, <1>4
  <2> QED BY <1>1, <1>3, <1>4, <2>2, <2>3
<1>5. CASE k \notin Tracked
  <2> DEFINE e == [id |-> nextId, own |-> pown[p], age |-> 0, timeout |-> t]
  <2>1. e \in Connection
    BY <1>1, <1>2, <1>3, <1>5, LimitsAssumption DEF Connection, Ids
  <2> QED BY <1>1, <1>3, <1>5, <2>1
<1> QED BY <1>4, <1>5

(* What time does to the table.                                            *)
LEMMA EntryAged ==
  ASSUME TypeOK, NEW k \in Keys, Tick(k)
  PROVE  /\ k \in Tracked
         /\ \E e \in Connection : /\ connections' = [connections EXCEPT ![k] = e]
                                 /\ e.id = connections[k].id
<1>1. connections[k] \in Connection /\ k \in Tracked
  BY DEF TypeOK, Tick, Tracked
<1>2. /\ [connections[k] EXCEPT !.age = @ + 1] \in Connection
      /\ [connections[k] EXCEPT !.age = @ + 1].id = connections[k].id
  BY <1>1 DEF Connection
<1>3. connections' = [connections EXCEPT ![k] = [connections[k] EXCEPT !.age = @ + 1]]
  BY DEF TypeOK, Tick
<1> QED BY <1>1, <1>2, <1>3

(* A key under which an entry is written is tracked.                       *)
LEMMA WrittenIsTracked ==
  ASSUME TypeOK, NEW k \in Keys, NEW e \in Connection,
         connections' = [connections EXCEPT ![k] = e]
  PROVE  /\ Tracked' = Tracked \union {k}
         /\ connections'[k] = e
         /\ \A l \in Keys \ {k} : connections'[l] = connections[l]
<1>1. connections \in [Keys -> Connection \union {NoConn}]
  BY DEF TypeOK
<1> QED BY <1>1, NoConnAssumption DEF Tracked

LEMMA ProcessorTypeOK ==
  ASSUME TypeOK, NEW p \in Procs, Processor(p)
  PROVE  TypeOK'
<1>1. ASSUME NEW k \in Keys, NEW c \in Cids \union {NoCid}, ResolveKey(p, k, c)
      PROVE  TypeOK'
  <2>1. CASE c = NoCid
    <3>1. /\ pown' = [pown EXCEPT ![p] = k] /\ pkey' = [pkey EXCEPT ![p] = k]
          /\ pc' = [pc EXCEPT ![p] = "contains"]
          /\ UNCHANGED <<quic_mapping, table_vars, historic, cleanup_vars, ui_vars>>
      BY <1>1, <2>1 DEF ResolveKey
    <3>2. /\ pc \in [Procs -> {"recv", "contains", "len", "entry"}]
          /\ pkey \in [Procs -> Keys \union {NoKey}]
          /\ pown \in [Procs -> Keys \union {NoKey}]
          /\ \A q \in Procs : pc[q] # "recv" <=> pkey[q] # NoKey /\ pown[q] # NoKey
      BY DEF TypeOK
    <3>3. /\ pc' \in [Procs -> {"recv", "contains", "len", "entry"}]
          /\ pkey' \in [Procs -> Keys \union {NoKey}]
          /\ pown' \in [Procs -> Keys \union {NoKey}]
      BY <3>1, <3>2
    <3>4. \A q \in Procs : pc'[q] # "recv" <=> pkey'[q] # NoKey /\ pown'[q] # NoKey
      BY <3>1, <3>2, KeysAssumption
    <3> QED BY <3>1, <3>3, <3>4 DEF TypeOK, table_vars, cleanup_vars, ui_vars
  <2>2. CASE c \in Cids
    <3>1. /\ quic_mapping' \in [Cids -> Keys \union {NoKey}]
          /\ pkey' = [pkey EXCEPT ![p] = quic_mapping'[c]]
          /\ quic_mapping'[c] \in Keys
      BY <1>1, <2>2, MapCidType, CidsAssumption DEF ResolveKey
    <3> QED BY <1>1, <3>1, KeysAssumption
        DEF TypeOK, ResolveKey, table_vars, cleanup_vars, ui_vars
  <2> QED BY <2>1, <2>2
<1>2. CASE CheckContains(p)
  BY <1>2 DEF TypeOK, CheckContains, table_vars, cleanup_vars, ui_vars
<1>3. CASE CheckLimit(p)
  BY <1>3 DEF TypeOK, CheckLimit, PacketDone, table_vars, cleanup_vars, ui_vars
<1>4. CASE UpsertEntry(p)
  <2>1. connections \in [Keys -> Connection \union {NoConn}] /\ nextId \in 1..(MaxCreated + 1)
    BY DEF TypeOK
  <2>2. /\ connections' \in [Keys -> Connection \union {NoConn}]
        /\ nextId' \in 1..(MaxCreated + 1)
    BY <1>4, <2>1, EntryWritten, LimitsAssumption
  <2> QED
    BY <1>4, <2>2 DEF TypeOK, UpsertEntry, PacketDone, cleanup_vars, ui_vars
<1> QED BY <1>1, <1>2, <1>3, <1>4 DEF Processor

LEMMA TickTypeOK ==
  ASSUME TypeOK, NEW k \in Keys, Tick(k)
  PROVE  TypeOK'
<1>1. connections' \in [Keys -> Connection \union {NoConn}]
  BY EntryAged DEF TypeOK
<1> QED BY <1>1 DEF TypeOK, Tick, proc_vars, cleanup_vars, ui_vars

LEMMA CleanupTypeOK ==
  ASSUME TypeOK, Cleanup
  PROVE  TypeOK'
<1> USE DEF TypeOK, table_vars, proc_vars, ui_vars
<1>1. CASE CleanupBegin
  BY <1>1 DEF CleanupBegin
<1>2. ASSUME NEW k \in Keys, CleanupVisit(k) PROVE TypeOK'
  <2>1. CASE Removes(k)
    <3>1. [key |-> k, own |-> connections[k].own, id |-> connections[k].id, closed |-> now]
             \in Historic
      BY <2>1 DEF Removes, Tracked, Connection, Historic
    <3> QED BY <1>2, <2>1, <3>1 DEF CleanupVisit, Retained
  <2>2. CASE ~Removes(k)
    BY <1>2, <2>2 DEF CleanupVisit
  <2> QED BY <2>1, <2>2
<1>3. CASE CleanupScanned
  BY <1>3 DEF CleanupScanned
<1>4. ASSUME NEW h \in to_archive, Archive(h) PROVE TypeOK'
  BY <1>4 DEF Archive, InsertHistoric
<1>5. CASE CollectForEviction
  BY <1>5 DEF CollectForEviction, AllArchived
<1>6. CASE EvictOldest
  BY <1>6 DEF EvictOldest
<1>7. CASE EvictUnderflow
  BY <1>7 DEF EvictUnderflow
<1>8. CASE CleanMapping
  <2>1. quic_mapping' \in [Cids -> Keys \union {NoKey}]
    BY <1>8 DEF CleanMapping, MappingCleaned
  <2>2. now' \in Nat \ {0}
    <3>1. now \in Nat \ {0}
      OBVIOUS
    <3>2. now' = now \/ now' = now + 1
      BY <1>8 DEF CleanMapping
    <3> HIDE DEF TypeOK
    <3> QED BY <3>1, <3>2
  <2> QED BY <1>8, <2>1, <2>2 DEF CleanMapping
<1>9. CASE CleanupExit
  BY <1>9 DEF CleanupExit
<1> QED BY <1>1, <1>2, <1>3, <1>4, <1>5, <1>6, <1>7, <1>8, <1>9 DEF Cleanup

LEMMA UiTypeOK ==
  ASSUME TypeOK, Ui
  PROVE  TypeOK'
BY DEF TypeOK, Ui, ClearConnections, ClearHistoric, ClearView, ClearMapping, Stop,
       NoMapping, table_vars, proc_vars, cleanup_vars

LEMMA StepTypeOK == TypeOK /\ [Next]_vars => TypeOK'
<1> SUFFICES ASSUME TypeOK, [Next]_vars PROVE TypeOK'
  OBVIOUS
<1>1. CASE UNCHANGED vars
  BY <1>1 DEF TypeOK, vars, table_vars, proc_vars, cleanup_vars, ui_vars
<1> QED
  BY <1>1, ProcessorTypeOK, TickTypeOK, CleanupTypeOK, UiTypeOK DEF Next

(* Whatever the interleaving of processors, cleanup and clear, every       *)
(* variable keeps its type, and the cleanup thread keeps nothing from one  *)
(* pass to the next.                                                       *)
THEOREM TypeCorrect == Spec => []TypeOK
BY InitTypeOK, StepTypeOK, PTL DEF Spec

-----------------------------------------------------------------------------
(* The size of the table.  TableBounded is not inductive: what matters is  *)
(* not only what is tracked but what the processors that have passed the   *)
(* limit check are still going to insert.  Both together never exceed the  *)
(* limit by more than one entry for each processor but one: the check      *)
(* passes only below the limit, and the processors together hold at most   *)
(* one key each.                                                           *)

LEMMA KeysFinite ==
  ASSUME NEW S \in SUBSET Keys
  PROVE  IsFiniteSet(S) /\ Cardinality(S) \in Nat
BY KeysAssumption, FS_Subset, FS_CardinalityType

LEMMA SubsetSmaller ==
  ASSUME NEW T \in SUBSET Keys, NEW S \in SUBSET T
  PROVE  Cardinality(S) <= Cardinality(T)
BY KeysFinite, FS_Subset

LEMMA UnionSmaller ==
  ASSUME NEW S \in SUBSET Keys, NEW T \in SUBSET Keys
  PROVE  Cardinality(S \union T) <= Cardinality(S) + Cardinality(T)
<1>1. S \intersect T \in SUBSET Keys
  OBVIOUS
<1>2. Cardinality(S \union T) = Cardinality(S) + Cardinality(T) - Cardinality(S \intersect T)
  BY KeysFinite, FS_Union
<1>3. /\ Cardinality(S) \in Nat /\ Cardinality(T) \in Nat
      /\ Cardinality(S \intersect T) \in Nat
  BY <1>1, KeysFinite
<1> QED BY <1>2, <1>3

(* The keys that the processors in Q work on are no more than Q.           *)
LEMMA HeldBounded ==
  ASSUME NEW Q \in SUBSET Procs, NEW f \in [Procs -> Keys \union {NoKey}],
         \A p \in Q : f[p] \in Keys
  PROVE  /\ {f[p] : p \in Q} \in SUBSET Keys
         /\ Cardinality({f[p] : p \in Q}) <= Cardinality(Procs)
<1> DEFINE T == {f[p] : p \in Q}
           g == [p \in Q |-> f[p]]
<1>1. T \in SUBSET Keys
  OBVIOUS
<1>2. IsFiniteSet(Q) /\ Cardinality(Q) <= Cardinality(Procs)
  BY ProcsAssumption, FS_Subset
<1>3. g \in Surjection(Q, T)
  BY DEF Surjection
<1>4. Cardinality(T) <= Cardinality(Q)
  BY <1>2, <1>3, FS_Surjection
<1>5. /\ Cardinality(T) \in Nat /\ Cardinality(Q) \in Nat /\ Cardinality(Procs) \in Nat
  BY <1>1, <1>2, KeysFinite, ProcsAssumption, FS_CardinalityType
<1> QED BY <1>1, <1>2, <1>4, <1>5

LEMMA ProcsNat == Cardinality(Procs) \in Nat /\ Cardinality(Procs) >= 1
<1>1. Cardinality(Procs) \in Nat
  BY ProcsAssumption, FS_CardinalityType
<1>2. Cardinality(Procs) # 0
  BY ProcsAssumption, FS_EmptySet
<1> QED BY <1>1, <1>2

LEMMA TrackedKeys == Tracked \in SUBSET Keys /\ Tracked' \in SUBSET Keys
BY DEF Tracked

LEMMA CommittedKeys == TypeOK => Committed \in SUBSET Keys
BY DEF TypeOK, Committed, Tracked, Pending, Inserting

LEMMA InitTableInv == Init => TableInv
<1> SUFFICES ASSUME Init PROVE TableInv
  OBVIOUS
<1>1. Committed = {}
  BY DEF Init, Committed, Tracked, Pending, Inserting
<1>2. Cardinality({}) = 0
  BY FS_EmptySet
<1> QED BY <1>1, <1>2, ProcsNat, LimitsAssumption DEF TableInv

(* Most steps commit the table to nothing new.                             *)
LEMMA NothingNew ==
  ASSUME TypeOK, TableInv, Committed' \subseteq Committed
  PROVE  TableInv'
<1>1. Committed \in SUBSET Keys
  BY CommittedKeys
<1>2. Cardinality(Committed') <= Cardinality(Committed)
  BY <1>1, SubsetSmaller
<1>3. Cardinality(Committed) \in Nat /\ Cardinality(Committed') \in Nat
  BY <1>1, KeysFinite
<1> QED BY <1>2, <1>3, ProcsNat, LimitsAssumption DEF TableInv

(* A processor passes the limit check while there is room.                 *)
LEMMA LimitCheckPassed ==
  ASSUME TypeOK, TypeOK', NEW p \in Procs, CheckLimit(p), ~TableFull
  PROVE  TableInv'
<1>1. Tracked' = Tracked
  BY DEF CheckLimit, Tracked, table_vars
<1>2. Cardinality(Tracked) \in Nat /\ Cardinality(Tracked) < MaxConnections
  BY TrackedKeys, KeysFinite, LimitsAssumption DEF TableFull
<1>3. Pending' \in SUBSET Keys /\ Cardinality(Pending') <= Cardinality(Procs)
  <2>1. Inserting' \in SUBSET Procs
    BY DEF Inserting
  <2>2. \A q \in Inserting' : pkey'[q] \in Keys
    BY DEF TypeOK, Inserting
  <2>3. pkey' \in [Procs -> Keys \union {NoKey}]
    BY DEF TypeOK
  <2> QED BY <2>1, <2>2, <2>3, HeldBounded DEF Pending
<1>4. Cardinality(Committed') <= Cardinality(Tracked) + Cardinality(Pending')
  BY <1>1, <1>3, TrackedKeys, UnionSmaller DEF Committed
<1>5. Cardinality(Pending') \in Nat /\ Cardinality(Committed') \in Nat
  BY <1>1, <1>3, TrackedKeys, KeysFinite DEF Committed
<1> QED BY <1>2, <1>3, <1>4, <1>5, ProcsNat, LimitsAssumption DEF TableInv

(* A step of one processor changes at most what that one is to insert.     *)
LEMMA PendingOfOthers ==
  ASSUME NEW p \in Procs,
         \A q \in Procs \ {p} : pc'[q] = pc[q] /\ pkey'[q] = pkey[q],
         pc'[p] = "entry" => pkey'[p] \in Tracked
  PROVE  Pending' \subseteq Pending \union Tracked
BY DEF Pending, Inserting

LEMMA ProcessorTableInv ==
  ASSUME TypeOK, TypeOK', TableInv, NEW p \in Procs, Processor(p)
  PROVE  TableInv'
<1> /\ pc \in [Procs -> {"recv", "contains", "len", "entry"}]
    /\ pkey \in [Procs -> Keys \union {NoKey}]
  BY DEF TypeOK
<1>1. \A q \in Procs \ {p} : pc'[q] = pc[q] /\ pkey'[q] = pkey[q]
  BY DEF Processor, ResolveKey, CheckContains, CheckLimit, UpsertEntry, PacketDone
<1>2. ASSUME pc'[p] = "entry" => pkey'[p] \in Tracked, Tracked' \subseteq Committed
      PROVE  TableInv'
  <2>1. Committed' \subseteq Committed
    BY <1>1, <1>2, PendingOfOthers DEF Committed
  <2> QED BY <2>1, NothingNew
<1>3. ASSUME NEW k \in Keys, NEW c \in Cids \union {NoCid}, ResolveKey(p, k, c)
      PROVE  TableInv'
  <2>1. pc'[p] = "contains" /\ Tracked' = Tracked
    BY <1>3 DEF ResolveKey, Tracked, table_vars
  <2> QED BY <1>2, <2>1 DEF Committed
<1>4. CASE CheckContains(p)
  <2>1. Tracked' = Tracked /\ (pc'[p] = "entry" => pkey'[p] \in Tracked)
    BY <1>4 DEF CheckContains, Tracked, table_vars
  <2> QED BY <1>2, <2>1 DEF Committed
<1>5. CASE CheckLimit(p)
  <2>1. CASE TableFull
    <3>1. pc'[p] = "recv" /\ Tracked' = Tracked
      BY <1>5, <2>1 DEF CheckLimit, PacketDone, Tracked, table_vars
    <3> QED BY <1>2, <3>1 DEF Committed
  <2>2. CASE ~TableFull
    BY <1>5, <2>2, LimitCheckPassed
  <2> QED BY <2>1, <2>2
<1>6. CASE UpsertEntry(p)
  <2>1. pc'[p] = "recv" /\ pkey[p] \in Pending
    BY <1>6 DEF UpsertEntry, PacketDone, Pending, Inserting
  <2>2. Tracked' = Tracked \union {pkey[p]}
    BY <1>6, EntryWritten, WrittenIsTracked
  <2> QED BY <1>2, <2>1, <2>2 DEF Committed
<1> QED BY <1>3, <1>4, <1>5, <1>6 DEF Processor

(* Time, the cleanup thread and the clear never add an entry.              *)
LEMMA OthersTableInv ==
  ASSUME TypeOK, TableInv, (\E k \in Keys : Tick(k)) \/ Cleanup \/ Ui
  PROVE  TableInv'
<1>1. UNCHANGED <<pc, pkey>>
  BY DEF Tick, Cleanup, CleanupBegin, CleanupVisit, CleanupScanned, Archive,
         CollectForEviction, EvictOldest, EvictUnderflow, CleanMapping, CleanupExit,
         Ui, ClearConnections, ClearHistoric, ClearView, ClearMapping, Stop, proc_vars
<1>2. Tracked' \subseteq Tracked
  <2>1. ASSUME NEW k \in Keys, Tick(k) PROVE Tracked' \subseteq Tracked
    BY <2>1 DEF TypeOK, Tick, Tracked
  <2>2. ASSUME NEW k \in Keys, CleanupVisit(k) PROVE Tracked' \subseteq Tracked
    BY <2>2 DEF TypeOK, CleanupVisit, Retained, Tracked
  <2>3. CASE ClearConnections
    BY <2>3 DEF ClearConnections, Tracked
  <2>4. UNCHANGED connections => Tracked' \subseteq Tracked
    BY DEF Tracked
  <2> QED
    BY <2>1, <2>2, <2>3, <2>4
    DEF Cleanup, CleanupBegin, CleanupScanned, Archive, CollectForEviction, EvictOldest,
        EvictUnderflow, CleanMapping, CleanupExit, Ui, ClearHistoric, ClearView,
        ClearMapping, Stop, table_vars
<1>3. Committed' \subseteq Committed
  BY <1>1, <1>2 DEF Committed, Pending, Inserting
<1> QED BY <1>3, NothingNew

LEMMA StepTableInv == TypeOK /\ TypeOK' /\ TableInv /\ [Next]_vars => TableInv'
<1> SUFFICES ASSUME TypeOK, TypeOK', TableInv, [Next]_vars PROVE TableInv'
  OBVIOUS
<1>1. CASE UNCHANGED vars
  BY <1>1, NothingNew
  DEF Committed, Tracked, Pending, Inserting, vars, table_vars, proc_vars
<1> QED
  BY <1>1, ProcessorTableInv, OthersTableInv DEF Next

LEMMA TableInvBounds == TypeOK /\ TableInv => TableBounded
<1> SUFFICES ASSUME TypeOK, TableInv PROVE TableBounded
  OBVIOUS
<1>1. Committed \in SUBSET Keys /\ Tracked \subseteq Committed
  BY CommittedKeys DEF Committed
<1>2. Cardinality(Tracked) <= Cardinality(Committed)
  BY <1>1, SubsetSmaller
<1>3. Cardinality(Tracked) \in Nat /\ Cardinality(Committed) \in Nat
  BY <1>1, TrackedKeys, KeysFinite
<1> QED BY <1>2, <1>3, ProcsNat, LimitsAssumption DEF TableInv, TableBounded

(* However many processors race for the last slots, the table exceeds      *)
(* MAX_CONNECTIONS by at most one entry for each processor but one.        *)
THEOREM TableIsBounded == Spec => []TableBounded
<1>1. Init => TableInv
  BY InitTableInv
<1>2. TypeOK /\ TypeOK' /\ TableInv /\ [Next]_vars => TableInv'
  BY StepTableInv
<1>3. TypeOK /\ TableInv => TableBounded
  BY TableInvBounds
<1> QED BY <1>1, <1>2, <1>3, TypeCorrect, PTL DEF Spec

-----------------------------------------------------------------------------
(* One home for each connection.  That a new connection has a home of its  *)
(* own needs its identity to be new: all those in the table, on their way  *)
(* to the pool and in the pool were given out before.                      *)

Archived == to_archive \union historic
IdsGivenOut ==
  /\ \A k \in Tracked : connections[k].id < nextId
  /\ \A h \in Archived : h.id < nextId
HomeInv == OneHome /\ IdsGivenOut

(* Connections may leave the table, the waiting list and the pool.         *)
LEMMA LeavingKeepsHome ==
  ASSUME HomeInv, UNCHANGED nextId,
         \A k \in Tracked' : k \in Tracked /\ connections'[k].id = connections[k].id,
         to_archive' \subseteq to_archive, historic' \subseteq historic
  PROVE  HomeInv'
<1>1. LiveIds' \subseteq LiveIds
  BY DEF LiveIds
<1> QED BY <1>1 DEF HomeInv, OneHome, IdsGivenOut, Archived

LEMMA IdsAreNumbers ==
  ASSUME TypeOK
  PROVE  /\ connections \in [Keys -> Connection \union {NoConn}]
         /\ nextId \in Nat
         /\ \A k \in Tracked : k \in Keys /\ connections[k] \in Connection
         /\ \A k \in Tracked : connections[k].id \in Nat
         /\ \A h \in Archived : h.id \in Nat
<1>1. connections \in [Keys -> Connection \union {NoConn}]
  BY DEF TypeOK
<1>2. nextId \in Nat
  <2>1. nextId \in 1..(MaxCreated + 1)
    BY DEF TypeOK
  <2> QED BY <2>1, LimitsAssumption
<1>3. \A k \in Tracked : k \in Keys /\ connections[k] \in Connection
  BY <1>1 DEF Tracked
<1>4. \A i \in Ids : i \in Nat
  BY LimitsAssumption DEF Ids
<1>5. \A k \in Tracked : connections[k].id \in Nat
  BY <1>3, <1>4 DEF Connection
<1>6. \A h \in Archived : h.id \in Nat
  BY <1>4 DEF Archived, TypeOK, Historic
<1> QED BY <1>1, <1>2, <1>3, <1>5, <1>6

(* A packet is merged into its entry, or makes a new one.                  *)
LEMMA UpsertKeepsHome ==
  ASSUME TypeOK, HomeInv, NEW p \in Procs, UpsertEntry(p)
  PROVE  HomeInv'
<1> DEFINE k == pkey[p]
<1>1. k \in Keys
  BY EntryWritten
<1>2. PICK e \in Connection :
        /\ connections' = [connections EXCEPT ![k] = e]
        /\ \/ k \in Tracked /\ e.id = connections[k].id /\ nextId' = nextId
           \/ k \notin Tracked /\ e.id = nextId /\ nextId' = nextId + 1
  BY EntryWritten
<1>3. UNCHANGED <<to_archive, historic>>
  BY DEF UpsertEntry, cleanup_vars
<1> HIDE DEF k
<1>4. /\ Tracked' = Tracked \union {k}
      /\ connections'[k] = e
      /\ \A l \in Keys \ {k} : connections'[l] = connections[l]
  BY <1>1, <1>2, WrittenIsTracked
<1>5. CASE k \in Tracked
  <2>1. \A l \in Tracked' : l \in Tracked /\ connections'[l].id = connections[l].id
    BY <1>2, <1>4, <1>5 DEF Tracked
  <2> QED BY <1>2, <1>3, <1>5, <2>1, LeavingKeepsHome
<1>6. CASE k \notin Tracked
  <2>1. nextId' = nextId + 1 /\ nextId \in Nat
    BY <1>2, <1>6, IdsAreNumbers
  <2>3. \A l \in Tracked' :
          \/ l = k /\ connections'[l].id = nextId
          \/ l \in Tracked /\ connections'[l] = connections[l]
    BY <1>2, <1>4, <1>6 DEF Tracked
  <2>4. \A l \in Tracked : connections[l].id \in Nat /\ connections[l].id < nextId
    BY IdsAreNumbers DEF HomeInv, IdsGivenOut
  <2>5. \A h \in Archived : h.id \in Nat /\ h.id < nextId
    BY IdsAreNumbers DEF HomeInv, IdsGivenOut
  <2>6. IdsGivenOut'
    BY <1>3, <2>1, <2>3, <2>4, <2>5 DEF IdsGivenOut, Archived
  <2>7. \A l, m \in Tracked' : connections'[l].id = connections'[m].id => l = m
    BY <2>1, <2>3, <2>4 DEF HomeInv, OneHome
  <2>8. \A h \in Archived' : h.id \notin LiveIds'
    BY <1>3, <2>1, <2>3, <2>5 DEF HomeInv, OneHome, LiveIds, Archived
  <2> QED BY <1>3, <2>6, <2>7, <2>8 DEF HomeInv, OneHome, Archived
<1> QED BY <1>5, <1>6

(* The cleanup thread takes a connection out of the table.                 *)
LEMMA RemovalKeepsHome ==
  ASSUME TypeOK, HomeInv, NEW k \in Keys, CleanupVisit(k)
  PROVE  HomeInv'
<1>1. UNCHANGED <<historic, nextId>>
  BY DEF CleanupVisit
<1>2. CASE ~Removes(k)
  BY <1>1, <1>2, LeavingKeepsHome DEF CleanupVisit, Tracked
<1>3. CASE Removes(k)
  <2> DEFINE h == [key |-> k, own |-> connections[k].own, id |-> connections[k].id,
                   closed |-> now]
  <2>1. /\ k \in Tracked
        /\ connections' = [connections EXCEPT ![k] = NoConn]
        /\ to_archive' = to_archive \union {h}
    BY <1>3 DEF CleanupVisit, Removes, Retained
  <2>2. \A l \in Tracked' : l \in Tracked /\ l # k /\ connections'[l] = connections[l]
    BY <2>1 DEF TypeOK, Tracked
  <2>3. h.id \in LiveIds /\ h.id < nextId
    BY <2>1 DEF LiveIds, HomeInv, IdsGivenOut
  <2>4. \A g \in Archived : g.id # h.id
    BY <2>3 DEF HomeInv, OneHome, Archived
  <2>5. \A l \in Tracked' : connections'[l].id # h.id
    BY <2>1, <2>2 DEF HomeInv, OneHome
  <2>6. IdsGivenOut'
    BY <1>1, <2>1, <2>2, <2>3 DEF HomeInv, IdsGivenOut, Archived
  <2>7. \A l, m \in Tracked' : connections'[l].id = connections'[m].id => l = m
    BY <2>2 DEF HomeInv, OneHome
  <2>8. \A f, g \in Archived' : f.id = g.id => f = g
    BY <1>1, <2>1, <2>4 DEF HomeInv, OneHome, Archived
  <2>9. to_archive' \intersect historic' = {}
    BY <1>1, <2>1, <2>4 DEF HomeInv, OneHome, Archived
  <2>10. \A g \in Archived' : g.id \notin LiveIds'
    BY <1>1, <2>1, <2>2, <2>5 DEF HomeInv, OneHome, Archived, LiveIds
  <2> QED BY <2>6, <2>7, <2>8, <2>9, <2>10 DEF HomeInv, OneHome, Archived
<1> QED BY <1>2, <1>3

(* It moves one to the pool, which holds no other of this identity, so     *)
(* that the insertion replaces nothing.                                    *)
LEMMA ArchivalKeepsHome ==
  ASSUME HomeInv, NEW h \in to_archive, Archive(h)
  PROVE  HomeInv'
<1>1. /\ historic' = InsertHistoric(h) /\ to_archive' = to_archive \ {h}
      /\ UNCHANGED <<connections, nextId>>
  BY DEF Archive, table_vars
<1>2. \A g \in historic : g.id # h.id
  BY DEF HomeInv, OneHome
<1>3. historic' = historic \union {h}
  BY <1>1, <1>2 DEF InsertHistoric, HistoricKey
<1>4. Archived' = Archived /\ to_archive' \intersect historic' = {}
  BY <1>1, <1>3 DEF Archived, HomeInv, OneHome
<1>5. UNCHANGED <<Tracked, LiveIds>>
  BY <1>1 DEF Tracked, LiveIds
<1> QED BY <1>1, <1>4, <1>5 DEF HomeInv, OneHome, IdsGivenOut, Archived

LEMMA StepHomeInv == TypeOK /\ HomeInv /\ [Next]_vars => HomeInv'
<1> SUFFICES ASSUME TypeOK, HomeInv, [Next]_vars PROVE HomeInv'
  OBVIOUS
<1>1. ASSUME UNCHANGED <<connections, nextId>>, to_archive' \subseteq to_archive,
             historic' \subseteq historic
      PROVE  HomeInv'
  BY <1>1, LeavingKeepsHome DEF Tracked
<1>2. ASSUME NEW p \in Procs, Processor(p) PROVE HomeInv'
  <2>1. CASE UpsertEntry(p)
    BY <2>1, UpsertKeepsHome
  <2>2. CASE ~UpsertEntry(p)
    BY <1>1, <1>2, <2>2 DEF Processor, ResolveKey, CheckContains, CheckLimit, table_vars,
                            cleanup_vars
  <2> QED BY <2>1, <2>2
<1>3. ASSUME NEW k \in Keys, Tick(k) PROVE HomeInv'
  <2>1. \A l \in Tracked' : l \in Tracked /\ connections'[l].id = connections[l].id
    BY <1>3, EntryAged, WrittenIsTracked DEF Tracked
  <2> QED BY <1>3, <2>1, LeavingKeepsHome DEF Tick, cleanup_vars
<1>4. CASE Cleanup
  <2>1. ASSUME NEW k \in Keys, CleanupVisit(k) PROVE HomeInv'
    BY <2>1, RemovalKeepsHome
  <2>2. ASSUME NEW h \in to_archive, Archive(h) PROVE HomeInv'
    BY <2>2, ArchivalKeepsHome
  <2>3. CASE \/ CleanupBegin \/ CleanupScanned \/ CollectForEviction \/ EvictOldest
             \/ EvictUnderflow \/ CleanMapping \/ CleanupExit
    BY <1>1, <2>3 DEF CleanupBegin, CleanupScanned, CollectForEviction, EvictOldest,
       EvictUnderflow, CleanMapping, CleanupExit, table_vars
  <2> QED BY <1>4, <2>1, <2>2, <2>3 DEF Cleanup
<1>5. CASE Ui
  <2>1. CASE ClearConnections
    BY <2>1, LeavingKeepsHome DEF ClearConnections, Tracked, cleanup_vars
  <2>2. CASE ~ClearConnections
    BY <1>1, <1>5, <2>2 DEF Ui, ClearHistoric, ClearView, ClearMapping, Stop, table_vars,
                            cleanup_vars
  <2> QED BY <2>1, <2>2
<1>6. CASE UNCHANGED vars
  BY <1>1, <1>6 DEF vars, table_vars, cleanup_vars
<1> QED BY <1>2, <1>3, <1>4, <1>5, <1>6 DEF Next

(* A connection is tracked, waits to be archived or is in the historic     *)
(* pool, in one place and under one key, whatever the processors and the   *)
(* clear do while the cleanup thread moves it.                             *)
THEOREM ConnectionsHaveOneHome == Spec => []OneHome
<1>1. Init => HomeInv
  BY DEF Init, HomeInv, OneHome, IdsGivenOut, Archived, Tracked, LiveIds
<1>2. HomeInv => OneHome
  BY DEF HomeInv
<1> QED BY <1>1, <1>2, StepHomeInv, TypeCorrect, PTL DEF Spec

-----------------------------------------------------------------------------
(* The size of the historic pool.  Between the two reads of its length     *)
(* the cleanup thread may only lose the pool as a whole, to a clear: what  *)
(* it has collected for eviction is the pool, or the pool is empty.        *)

HistoricInv ==
  /\ IsFiniteSet(historic)
  /\ HistoricBounded
  /\ cpc = "evict" => historic \in {entries, {}}

(* What is left when the first n of a finite set have been removed.        *)
LEMMA RestSize ==
  ASSUME NEW S, IsFiniteSet(S), NEW V \in SUBSET S, NEW m \in Nat,
         Cardinality(V) = Cardinality(S) - m
  PROVE  IsFiniteSet(S \ V) /\ Cardinality(S \ V) = m
<1>1. IsFiniteSet(S \ V) /\ IsFiniteSet(V)
  BY FS_Subset
<1>2. Cardinality(S \ V) \in Nat /\ Cardinality(V) \in Nat /\ Cardinality(S) \in Nat
  BY <1>1, FS_CardinalityType
<1>3. (S \ V) \union V = S /\ (S \ V) \intersect V = {}
  OBVIOUS
<1>4. Cardinality(S) = Cardinality(S \ V) + Cardinality(V)
  <2>1. Cardinality(S) = Cardinality(S \ V) + Cardinality(V) - Cardinality({})
    BY <1>1, <1>3, FS_Union
  <2> QED BY <1>2, <2>1, FS_EmptySet
<1> QED BY <1>1, <1>2, <1>4

(* Eviction stops at the limit, whether or not a clear came before it.     *)
LEMMA EvictionReachesLimit ==
  ASSUME HistoricInv, EvictOldest
  PROVE  /\ IsFiniteSet(historic') /\ Cardinality(historic') <= MaxHistoric
         /\ historic' # {} =>
              /\ Cardinality(historic') = MaxHistoric
              /\ \A h \in historic \ historic', g \in historic' : h.closed <= g.closed
<1>1. PICK V \in SUBSET entries : IsOldest(V, Excess, entries) /\ historic' = historic \ V
  BY DEF EvictOldest
<1>2. CASE historic = {}
  BY <1>1, <1>2, FS_EmptySet, LimitsAssumption
<1>3. CASE historic = entries
  <2>1. IsFiniteSet(entries) /\ Cardinality(V) = Cardinality(entries) - MaxHistoric
    BY <1>1, <1>3 DEF HistoricInv, IsOldest, Excess
  <2>2. IsFiniteSet(historic') /\ Cardinality(historic') = MaxHistoric
    BY <1>1, <1>3, <2>1, RestSize, LimitsAssumption
  <2>3. \A h \in historic \ historic', g \in historic' : h.closed <= g.closed
    BY <1>1, <1>3 DEF IsOldest
  <2> QED BY <2>2, <2>3, LimitsAssumption
<1> QED BY <1>2, <1>3 DEF HistoricInv, EvictOldest

(* A wrapped or panicking subtraction leaves an empty pool empty.          *)
LEMMA UnderflowLeavesNothing ==
  ASSUME HistoricInv, EvictUnderflow
  PROVE  historic' \in {historic, {}}
BY DEF HistoricInv, EvictUnderflow

LEMMA StepHistoricInv == HistoricInv /\ [Next]_vars => HistoricInv'
<1> SUFFICES ASSUME HistoricInv, [Next]_vars PROVE HistoricInv'
  OBVIOUS
<1> USE DEF HistoricInv, HistoricBounded
<1>1. ASSUME NEW h \in to_archive, Archive(h) PROVE HistoricInv'
  <2>1. IsFiniteSet({g \in historic : HistoricKey(g) # HistoricKey(h)})
    BY FS_Subset
  <2>2. IsFiniteSet(historic')
    BY <1>1, <2>1, FS_AddElement DEF Archive, InsertHistoric
  <2> QED BY <1>1, <2>2 DEF Archive
<1>2. CASE CollectForEviction
  <2>1. Cardinality(historic) \in Nat
    BY FS_CardinalityType
  <2> QED BY <1>2, <2>1, LimitsAssumption DEF CollectForEviction
<1>3. CASE EvictOldest
  BY <1>3, EvictionReachesLimit DEF EvictOldest
<1>4. CASE EvictUnderflow
  <2>1. cpc' \in {"mapping", "panicked"}
    BY <1>4 DEF EvictUnderflow
  <2>2. historic' = {} \/ historic' = historic
    BY <1>4, UnderflowLeavesNothing
  <2>3. Cardinality(historic) < MaxHistoric
    BY <1>4 DEF EvictUnderflow
  <2>4. IsFiniteSet(historic') /\ Cardinality(historic') <= MaxHistoric
    BY <2>2, <2>3, FS_EmptySet, FS_CardinalityType, LimitsAssumption
  <2> QED BY <2>1, <2>4
<1>5. CASE ClearHistoric
  BY <1>5, FS_EmptySet, LimitsAssumption DEF ClearHistoric, cleanup_vars
<1>6. CASE CleanupBegin \/ (\E k \in Keys : CleanupVisit(k)) \/ CleanupScanned
           \/ CleanMapping \/ CleanupExit
  BY <1>6 DEF CleanupBegin, CleanupVisit, CleanupScanned, CleanMapping, CleanupExit
<1>7. CASE UNCHANGED <<historic, cleanup_vars>>
  BY <1>7 DEF cleanup_vars
<1> HIDE DEF HistoricInv, HistoricBounded
<1>8. ASSUME NEW p \in Procs, Processor(p) PROVE HistoricInv'
  BY <1>7, <1>8 DEF Processor, ResolveKey, CheckContains, CheckLimit, UpsertEntry
<1>9. ASSUME NEW k \in Keys, Tick(k) PROVE HistoricInv'
  BY <1>7, <1>9 DEF Tick
<1>10. CASE Ui
  BY <1>5, <1>7, <1>10 DEF Ui, ClearConnections, ClearView, ClearMapping, Stop
<1>11. CASE UNCHANGED vars
  BY <1>7, <1>11 DEF vars
<1> QED
  BY <1>1, <1>2, <1>3, <1>4, <1>6, <1>8, <1>9, <1>10, <1>11 DEF Next, Cleanup

LEMMA InitHistoricInv == Init => HistoricInv
BY FS_EmptySet, LimitsAssumption DEF Init, HistoricInv, HistoricBounded

(* Outside the archive-and-evict steps of a pass the historic pool holds   *)
(* at most MAX_HISTORIC_CONNECTIONS entries, even when a clear comes       *)
(* between the two reads of its length.                                    *)
THEOREM HistoricIsBounded == Spec => []HistoricBounded
<1>1. HistoricInv => HistoricBounded
  BY DEF HistoricInv
<1> QED BY <1>1, InitHistoricInv, StepHistoricInv, PTL DEF Spec

(* Eviction takes the connections closed first, and no more of them than   *)
(* exceed the limit.                                                       *)
THEOREM OldestEvictedFirst == Spec => EvictsOldestFirst
<1> DEFINE A == cpc = "evict" /\ historic' # {} =>
                  /\ \A h \in historic \ historic', g \in historic' : h.closed <= g.closed
                  /\ Cardinality(historic') >= MaxHistoric
<1>1. HistoricInv /\ [Next]_vars => [A]_historic
  <2> SUFFICES ASSUME HistoricInv, [Next]_vars, cpc = "evict", historic' # {},
                      historic' # historic
               PROVE  A
    OBVIOUS
  <2>1. CASE EvictOldest
    BY <2>1, EvictionReachesLimit, LimitsAssumption
  <2>2. ~EvictUnderflow
    BY UnderflowLeavesNothing
  <2>3. ~(\E h \in to_archive : Archive(h)) /\ ~ClearHistoric
    BY DEF Archive, ClearHistoric
  <2>4. \A p \in Procs : ~Processor(p)
    BY DEF Processor, ResolveKey, CheckContains, CheckLimit, UpsertEntry
  <2>5. CASE Next
    BY <2>1, <2>2, <2>3, <2>4, <2>5
    DEF Next, Tick, Cleanup, CleanupBegin, CleanupVisit, CleanupScanned,
        CollectForEviction, CleanMapping, CleanupExit, Ui, ClearConnections, ClearView,
        ClearMapping, Stop
  <2> QED BY <2>5 DEF vars
<1>2. Spec => [][A]_historic
  BY <1>1, InitHistoricInv, StepHistoricInv, PTL DEF Spec
<1> QED BY <1>2 DEF EvictsOldestFirst

-----------------------------------------------------------------------------
(* The QUIC mapping and the table.  MappingBacked is inductive as long as  *)
(* no packet of a connection that the table does not hold is refused: the  *)
(* refusal returns after the mapping has been made.                        *)

Refuses(p) == pc[p] = "len" /\ pkey[p] \notin Tracked /\ pc'[p] = "recv"
NoRefusal == \A p \in Procs : ~Refuses(p)

(* The keys a mapping may lead to, and the clear during which it may lead  *)
(* to any.                                                                 *)
BackedKeys == Tracked \union {pkey[p] : p \in {q \in Procs : InFlight(q)}} \union removed_keys
Clearing == upc \in {"historic", "view", "mapping"}

LEMMA BackedBySet ==
  MappingBacked <=> Clearing \/ \A c \in Mapped : quic_mapping[c] \in BackedKeys
BY DEF MappingBacked, BackedKeys, Clearing

(* A step that takes no key away and maps to keys that back the mapping.   *)
LEMMA BackedKept ==
  ASSUME MappingBacked, Clearing => Clearing', BackedKeys \subseteq BackedKeys',
         \A c \in Mapped' : \/ c \in Mapped /\ quic_mapping'[c] = quic_mapping[c]
                            \/ quic_mapping'[c] \in BackedKeys'
  PROVE  MappingBacked'
<1>1. Clearing' \/ \A c \in Mapped' : quic_mapping'[c] \in BackedKeys'
  BY BackedBySet
<1> QED BY <1>1 DEF MappingBacked, BackedKeys, Clearing

LEMMA ProcessorBacked ==
  ASSUME TypeOK, TypeOK', MappingBacked, NEW p \in Procs, Processor(p), ~Refuses(p)
  PROVE  MappingBacked'
<1> /\ pc \in [Procs -> {"recv", "contains", "len", "entry"}]
    /\ pkey \in [Procs -> Keys \union {NoKey}]
    /\ connections \in [Keys -> Connection \union {NoConn}]
    /\ quic_mapping \in [Cids -> Keys \union {NoKey}]
  BY DEF TypeOK
<1>1. UNCHANGED <<removed_keys, upc>> /\ (Clearing => Clearing')
  BY DEF Processor, ResolveKey, CheckContains, CheckLimit, UpsertEntry, cleanup_vars, ui_vars,
         Clearing
<1>2. \A q \in Procs \ {p} : pc'[q] = pc[q] /\ pkey'[q] = pkey[q]
  BY DEF Processor, ResolveKey, CheckContains, CheckLimit, UpsertEntry, PacketDone
<1>3. ASSUME Tracked \subseteq Tracked', InFlight(p) => pkey[p] \in BackedKeys'
      PROVE  BackedKeys \subseteq BackedKeys'
  BY <1>1, <1>2, <1>3 DEF BackedKeys, InFlight
<1>4. ASSUME pc'[p] # "recv" PROVE pkey'[p] \in BackedKeys'
  <2>1. pc'[p] \in {"recv", "contains", "len", "entry"}
    BY DEF TypeOK
  <2> QED BY <1>4, <2>1 DEF BackedKeys, InFlight
<1>5. UNCHANGED quic_mapping =>
        \A c \in Mapped' : c \in Mapped /\ quic_mapping'[c] = quic_mapping[c]
  BY DEF Mapped
<1>6. ASSUME NEW k \in Keys, NEW c \in Cids \union {NoCid}, ResolveKey(p, k, c)
      PROVE  MappingBacked'
  <2>1. pc[p] = "recv" /\ pc'[p] = "contains" /\ Tracked' = Tracked
    BY <1>6 DEF ResolveKey, Tracked, table_vars
  <2>2. BackedKeys \subseteq BackedKeys'
    BY <1>3, <2>1 DEF InFlight
  <2>3. CASE UNCHANGED quic_mapping
    BY <1>1, <1>5, <2>2, <2>3, BackedKept
  <2>4. CASE quic_mapping' # quic_mapping
    <3>1. c \in Cids /\ quic_mapping' = MapCid(c, k) /\ pkey'[p] = MapCid(c, k)[c]
      BY <1>6, <2>4 DEF ResolveKey
    <3>2. c \notin Mapped
      BY <2>4, <3>1 DEF MapCid
    <3>3. quic_mapping' = [IF MappingFull THEN NoMapping ELSE quic_mapping EXCEPT ![c] = k]
      BY <3>1, <3>2 DEF MapCid
    <3>4. \A d \in Mapped' : d = c \/ (d \in Mapped /\ quic_mapping'[d] = quic_mapping[d])
      BY <3>3 DEF Mapped, NoMapping
    <3>5. quic_mapping'[c] \in BackedKeys'
      BY <1>4, <2>1, <3>1
    <3> QED BY <1>1, <2>2, <3>4, <3>5, BackedKept
  <2> QED BY <2>3, <2>4
<1>7. CASE CheckContains(p)
  <2>1. UNCHANGED <<pkey, quic_mapping>> /\ pc'[p] # "recv" /\ Tracked' = Tracked
    BY <1>7 DEF CheckContains, Tracked, table_vars
  <2> QED BY <1>1, <1>3, <1>4, <1>5, <2>1, BackedKept
<1>8. CASE CheckLimit(p)
  <2>1. pc[p] = "len" /\ UNCHANGED quic_mapping /\ Tracked' = Tracked
    BY <1>8 DEF CheckLimit, Tracked, table_vars
  <2>2. pkey[p] \in BackedKeys'
    <3>1. CASE pc'[p] = "recv"
      BY <2>1, <3>1 DEF Refuses, BackedKeys
    <3>2. CASE pc'[p] # "recv"
      BY <1>4, <1>8, <3>2 DEF CheckLimit, PacketDone
    <3> QED BY <3>1, <3>2
  <2> QED BY <1>1, <1>3, <1>5, <2>1, <2>2, BackedKept
<1>9. CASE UpsertEntry(p)
  <2>1. pkey[p] \in Keys /\ UNCHANGED quic_mapping
    BY <1>9 DEF TypeOK, UpsertEntry
  <2>2. Tracked' = Tracked \union {pkey[p]}
    BY <1>9, EntryWritten, WrittenIsTracked
  <2> QED BY <1>1, <1>3, <1>5, <2>1, <2>2, BackedKept DEF BackedKeys
<1> QED BY <1>6, <1>7, <1>8, <1>9 DEF Processor

LEMMA OthersBacked ==
  ASSUME TypeOK, MappingBacked, (\E k \in Keys : Tick(k)) \/ Cleanup \/ Ui
  PROVE  MappingBacked'
<1> /\ connections \in [Keys -> Connection \union {NoConn}]
    /\ quic_mapping \in [Cids -> Keys \union {NoKey}]
    /\ NoKey \notin Keys
  BY KeysAssumption DEF TypeOK
<1>1. UNCHANGED <<pc, pkey>>
  BY DEF Tick, Cleanup, CleanupBegin, CleanupVisit, CleanupScanned, Archive,
         CollectForEviction, EvictOldest, EvictUnderflow, CleanMapping, CleanupExit,
         Ui, ClearConnections, ClearHistoric, ClearView, ClearMapping, Stop, proc_vars
<1>2. ASSUME Clearing => Clearing', UNCHANGED quic_mapping,
             Tracked \union removed_keys \subseteq (Tracked \union removed_keys)'
      PROVE  MappingBacked'
  <2>1. BackedKeys \subseteq BackedKeys'
    BY <1>1, <1>2 DEF BackedKeys, InFlight
  <2> QED BY <1>2, <2>1, BackedKept DEF Mapped
<1>3. ASSUME NEW k \in Keys, Tick(k) PROVE MappingBacked'
  <2>1. Tracked' = Tracked
    BY <1>3, EntryAged, WrittenIsTracked
  <2> QED BY <1>2, <1>3, <2>1 DEF Tick, cleanup_vars, ui_vars, Clearing
<1>4. CASE Cleanup
  <2>1. Clearing' <=> Clearing
    BY <1>4 DEF Cleanup, CleanupBegin, CleanupVisit, CleanupScanned, Archive,
       CollectForEviction, EvictOldest, EvictUnderflow, CleanMapping, CleanupExit, ui_vars,
       Clearing
  <2>2. ASSUME NEW k \in Keys, CleanupVisit(k) PROVE MappingBacked'
    <3>1. Tracked \subseteq Tracked' \union removed_keys'
      BY <2>2 DEF CleanupVisit, Retained, Tracked
    <3> QED BY <1>2, <2>1, <2>2, <3>1 DEF CleanupVisit
  <2>3. CASE CleanMapping
    <3>1. \A c \in Mapped' : /\ c \in Mapped /\ quic_mapping'[c] = quic_mapping[c]
                             /\ quic_mapping'[c] \notin removed_keys
      BY <2>3 DEF CleanMapping, MappingCleaned, Mapped
    <3>2. Tracked' = Tracked
      BY <2>3 DEF CleanMapping, Tracked, table_vars
    <3>3. Clearing' \/ \A c \in Mapped' : quic_mapping'[c] \in BackedKeys'
      BY <1>1, <2>1, <3>1, <3>2, BackedBySet DEF BackedKeys, InFlight
    <3> QED BY <3>3 DEF MappingBacked, BackedKeys, Clearing
  <2>4. CASE \/ CleanupBegin \/ CleanupScanned \/ (\E h \in to_archive : Archive(h))
             \/ CollectForEviction \/ EvictOldest \/ EvictUnderflow \/ CleanupExit
    <3>1. UNCHANGED <<connections, quic_mapping, removed_keys>>
      BY <2>4 DEF CleanupBegin, CleanupScanned, Archive, CollectForEviction, EvictOldest,
         EvictUnderflow, CleanupExit, table_vars
    <3> QED BY <1>2, <2>1, <3>1 DEF Tracked
  <2> QED BY <1>4, <2>2, <2>3, <2>4 DEF Cleanup
<1>5. CASE Ui
  <2>1. CASE ClearConnections
    BY <2>1 DEF ClearConnections, MappingBacked
  <2>2. CASE ClearMapping
    BY <2>2 DEF ClearMapping, MappingBacked, Mapped, NoMapping
  <2>3. CASE ClearHistoric \/ ClearView \/ Stop
    BY <1>2, <2>3 DEF ClearHistoric, ClearView, Stop, Clearing, Tracked, table_vars,
                      cleanup_vars
  <2> QED BY <1>5, <2>1, <2>2, <2>3 DEF Ui
<1> QED BY <1>3, <1>4, <1>5

LEMMA StepMappingBacked ==
  TypeOK /\ TypeOK' /\ MappingBacked /\ NoRefusal /\ [Next]_vars => MappingBacked'
<1> SUFFICES ASSUME TypeOK, TypeOK', MappingBacked, NoRefusal, [Next]_vars
             PROVE  MappingBacked'
  OBVIOUS
<1>1. CASE UNCHANGED vars
  BY <1>1 DEF vars, table_vars, proc_vars, cleanup_vars, ui_vars, MappingBacked, Mapped,
              InFlight, Tracked
<1> QED BY <1>1, ProcessorBacked, OthersBacked DEF Next, NoRefusal

(* A table with room for every key refuses none: when it is full, all keys *)
(* are tracked.                                                            *)
LEMMA RoomForAll ==
  ASSUME Cardinality(Keys) <= MaxConnections, TypeOK, [Next]_vars
  PROVE  NoRefusal
<1> SUFFICES ASSUME NEW p \in Procs, Refuses(p) PROVE FALSE
  BY DEF NoRefusal
<1> pc \in [Procs -> {"recv", "contains", "len", "entry"}]
  BY DEF TypeOK
<1>1. pc[p] = "len" /\ pc'[p] = "recv" /\ pkey[p] \notin Tracked
  BY DEF Refuses
<1>2. pkey[p] \in Keys
  BY <1>1 DEF TypeOK
<1>3. PICK q \in Procs : Processor(q)
  BY <1>1 DEF Next, Tick, Cleanup, CleanupBegin, CleanupVisit, CleanupScanned, Archive,
     CollectForEviction, EvictOldest, EvictUnderflow, CleanMapping, CleanupExit, Ui,
     ClearConnections, ClearHistoric, ClearView, ClearMapping, Stop, vars, proc_vars
<1>4. q = p
  BY <1>1, <1>3 DEF Processor, ResolveKey, CheckContains, CheckLimit, UpsertEntry, PacketDone
<1>5. TableFull
  BY <1>1, <1>3, <1>4 DEF Processor, ResolveKey, CheckContains, CheckLimit, UpsertEntry
<1>6. Cardinality(Tracked) >= Cardinality(Keys)
  BY <1>5, TrackedKeys, KeysFinite, LimitsAssumption DEF TableFull
<1>7. Tracked = Keys
  <2>1. Cardinality(Tracked) <= Cardinality(Keys) /\ IsFiniteSet(Keys)
    BY TrackedKeys, KeysFinite, FS_Subset
  <2>2. Cardinality(Tracked) = Cardinality(Keys)
    BY <1>6, <2>1, TrackedKeys, KeysFinite
  <2> QED BY <2>1, <2>2, TrackedKeys, FS_Subset
<1> QED BY <1>1, <1>2, <1>7

(* As long as no new connection is refused, a QUIC mapping never outlives  *)
(* its connection.                                                         *)
THEOREM MappingBackedUnlessRefused == Spec /\ [][NoRefusal]_vars => []MappingBacked
<1>1. Init => MappingBacked
  BY DEF Init, MappingBacked, Mapped, NoMapping
<1>2. TypeOK /\ TypeOK' /\ MappingBacked /\ [Next]_vars /\ [NoRefusal]_vars => MappingBacked'
  <2>1. UNCHANGED vars /\ MappingBacked => MappingBacked'
    BY DEF vars, table_vars, proc_vars, cleanup_vars, ui_vars, MappingBacked, Mapped,
           InFlight, Tracked
  <2> QED BY <2>1, StepMappingBacked
<1> QED BY <1>1, <1>2, TypeCorrect, PTL DEF Spec

(* In particular in a table with room for every key, whatever the number   *)
(* of processors and connection IDs and however often the mapping fills.   *)
THEOREM MappingIsBacked ==
  ASSUME Cardinality(Keys) <= MaxConnections
  PROVE  Spec => []MappingBacked
<1>1. TypeOK /\ [Next]_vars => [NoRefusal]_vars
  BY RoomForAll
<1>2. Spec => [][NoRefusal]_vars
  BY <1>1, TypeCorrect, PTL DEF Spec
<1> QED BY <1>2, MappingBackedUnlessRefused

-----------------------------------------------------------------------------
(* The table and the pool implement the connection lifecycle.  The stage   *)
(* of a connection is read off three sets of identities, which no          *)
(* connection is in twice; each step of the threads changes these sets the *)
(* way one step of the lifecycle says, or not at all.                      *)

ClosedIds == {h.id : h \in to_archive}
PoolIds == {h.id : h \in historic}
StageMap == [i \in Ids |-> Stage(i)]

StageOf(i, live, closed, pool, next) ==
  IF i \in live THEN "live"
  ELSE IF i \in closed THEN "closed"
  ELSE IF i \in pool THEN "historic"
  ELSE IF i >= next THEN "unborn" ELSE "gone"

LEMMA StageBySets ==
  /\ StageMap = [i \in Ids |-> StageOf(i, LiveIds, ClosedIds, PoolIds, nextId)]
  /\ StageMap' = [i \in Ids |-> StageOf(i, LiveIds', ClosedIds', PoolIds', nextId')]
<1>1. /\ \A i : i \in ClosedIds <=> \E h \in to_archive : h.id = i
      /\ \A i : i \in PoolIds <=> \E h \in historic : h.id = i
  BY DEF ClosedIds, PoolIds
<1>2. /\ \A i : i \in ClosedIds' <=> \E h \in to_archive' : h.id = i
      /\ \A i : i \in PoolIds' <=> \E h \in historic' : h.id = i
  BY DEF ClosedIds, PoolIds
<1>3. \A i : Stage(i) = StageOf(i, LiveIds, ClosedIds, PoolIds, nextId)
  BY <1>1 DEF Stage, StageOf
<1>4. \A i : Stage(i)' = StageOf(i, LiveIds', ClosedIds', PoolIds', nextId')
  BY <1>2 DEF Stage, StageOf
<1> QED BY <1>3, <1>4 DEF StageMap

(* The three sets and the identities not given out yet are disjoint.       *)
LEMMA HomesDisjoint ==
  ASSUME TypeOK, HomeInv
  PROVE  /\ LiveIds \intersect ClosedIds = {}
         /\ LiveIds \intersect PoolIds = {}
         /\ ClosedIds \intersect PoolIds = {}
         /\ \A i \in LiveIds \union ClosedIds \union PoolIds : i \in Nat /\ i < nextId
         /\ nextId \in Nat
<1>1. \A h \in Archived : h.id \notin LiveIds
  BY DEF HomeInv, OneHome, Archived
<1>2. \A g \in to_archive, h \in historic : g.id # h.id
  BY DEF HomeInv, OneHome
<1>3. \A i \in LiveIds : i \in Nat /\ i < nextId
  BY IdsAreNumbers DEF LiveIds, HomeInv, IdsGivenOut
<1>4. \A i \in ClosedIds \union PoolIds : i \in Nat /\ i < nextId
  BY IdsAreNumbers DEF ClosedIds, PoolIds, Archived, HomeInv, IdsGivenOut
<1> QED BY <1>1, <1>2, <1>3, <1>4, IdsAreNumbers DEF ClosedIds, PoolIds, Archived

(* Each change of the sets as a step of the lifecycle.                     *)
LEMMA SetsStay ==
  ASSUME UNCHANGED <<LiveIds, ClosedIds, PoolIds, nextId>>
  PROVE  UNCHANGED StageMap
BY StageBySets

LEMMA CreateRefines ==
  ASSUME TypeOK, HomeInv, nextId <= MaxCreated, nextId' = nextId + 1,
         LiveIds' = LiveIds \union {nextId}, UNCHANGED <<ClosedIds, PoolIds>>
  PROVE  \E i \in Ids : Lifecycle!Create(i)
<1>1. nextId \in Ids /\ Ids \subseteq Nat
  <2>1. nextId \in 1..(MaxCreated + 1)
    BY DEF TypeOK
  <2> QED BY <2>1, LimitsAssumption DEF Ids
<1>2. nextId \notin LiveIds \union ClosedIds \union PoolIds /\ nextId \in Nat
  BY HomesDisjoint
<1>3. StageMap[nextId] = "unborn"
  BY <1>1, <1>2, StageBySets DEF StageOf
<1>4. \A j \in Ids : j < nextId => StageMap[j] # "unborn"
  BY <1>1, <1>2, StageBySets DEF StageOf
<1>5. StageMap' = [StageMap EXCEPT ![nextId] = "live"]
  <2>1. \A j \in Ids \ {nextId} : j >= nextId <=> j >= nextId'
    BY <1>1, <1>2
  <2> QED BY <1>1, <1>2, <2>1, StageBySets DEF StageOf
<1> QED BY <1>1, <1>3, <1>4, <1>5 DEF Lifecycle!Create, StageMap

LEMMA CloseRefines ==
  ASSUME NEW i \in LiveIds, i \in Ids,
         LiveIds' = LiveIds \ {i}, ClosedIds' = ClosedIds \union {i},
         UNCHANGED <<PoolIds, nextId>>
  PROVE  Lifecycle!Close(i)
<1>1. StageMap[i] = "live"
  BY StageBySets DEF StageOf
<1>2. StageMap' = [StageMap EXCEPT ![i] = "closed"]
  BY StageBySets DEF StageOf
<1> QED BY <1>1, <1>2 DEF Lifecycle!Close, Lifecycle!Move, StageMap

LEMMA ArchiveRefines ==
  ASSUME TypeOK, HomeInv, NEW i \in ClosedIds, i \in Ids,
         ClosedIds' = ClosedIds \ {i}, PoolIds' = PoolIds \union {i},
         UNCHANGED <<LiveIds, nextId>>
  PROVE  Lifecycle!Archive(i)
<1>1. i \notin LiveIds
  BY HomesDisjoint
<1>2. StageMap[i] = "closed"
  BY <1>1, StageBySets DEF StageOf
<1>3. StageMap' = [StageMap EXCEPT ![i] = "historic"]
  BY <1>1, StageBySets DEF StageOf
<1> QED BY <1>2, <1>3 DEF Lifecycle!Archive, Lifecycle!Move, StageMap

LEMMA DropRefines ==
  ASSUME TypeOK, HomeInv, PoolIds' \subseteq PoolIds, UNCHANGED <<LiveIds, ClosedIds, nextId>>
  PROVE  \E S \in SUBSET Ids : Lifecycle!Drop(S)
<1> DEFINE S == Ids \intersect (PoolIds \ PoolIds')
<1>1. \A i \in S : StageMap[i] = "historic"
  BY HomesDisjoint, StageBySets DEF StageOf
<1>2. StageMap' = [i \in Ids |-> IF i \in S THEN "gone" ELSE StageMap[i]]
  <2>1. \A i \in S : i \notin LiveIds /\ i \notin ClosedIds /\ ~(i >= nextId)
    BY HomesDisjoint
  <2> QED BY <2>1, StageBySets DEF StageOf
<1> QED BY <1>1, <1>2 DEF Lifecycle!Drop, StageMap

LEMMA ClearRefines ==
  ASSUME TypeOK, HomeInv, LiveIds' = {}, UNCHANGED <<ClosedIds, PoolIds, nextId>>
  PROVE  Lifecycle!ClearLive
<1>1. \A i \in LiveIds : i \notin ClosedIds /\ i \notin PoolIds /\ ~(i >= nextId)
  BY HomesDisjoint
<1>2. StageMap' = [i \in Ids |-> IF StageMap[i] = "live" THEN "gone" ELSE StageMap[i]]
  BY <1>1, StageBySets DEF StageOf
<1> QED BY <1>2 DEF Lifecycle!ClearLive, StageMap

(* Which step of the lifecycle each step of the threads is.                *)
LEMMA UpsertRefines ==
  ASSUME TypeOK, HomeInv, NEW p \in Procs, UpsertEntry(p)
  PROVE  [Lifecycle!Next]_StageMap
<1> DEFINE k == pkey[p]
<1>1. PICK e \in Connection :
        /\ connections' = [connections EXCEPT ![k] = e]
        /\ \/ k \in Tracked /\ e.id = connections[k].id /\ nextId' = nextId
           \/ k \notin Tracked /\ e.id = nextId /\ nextId <= MaxCreated /\ nextId' = nextId + 1
  BY EntryWritten
<1>2. k \in Keys
  BY EntryWritten
<1> HIDE DEF k
<1>3. /\ Tracked' = Tracked \union {k}
      /\ connections'[k] = e
      /\ \A l \in Keys \ {k} : connections'[l] = connections[l]
  BY <1>1, <1>2, WrittenIsTracked
<1>4. UNCHANGED <<ClosedIds, PoolIds>>
  BY DEF UpsertEntry, cleanup_vars, ClosedIds, PoolIds
<1>5. CASE k \in Tracked
  <2>1. LiveIds' = LiveIds
    BY <1>1, <1>3, <1>5 DEF LiveIds, Tracked
  <2> QED BY <1>1, <1>4, <1>5, <2>1, SetsStay
<1>6. CASE k \notin Tracked
  <2>1. LiveIds' = LiveIds \union {nextId}
    BY <1>1, <1>3, <1>6 DEF LiveIds, Tracked
  <2> QED BY <1>1, <1>4, <1>6, <2>1, CreateRefines DEF Lifecycle!Next
<1> QED BY <1>5, <1>6

LEMMA VisitRefines ==
  ASSUME TypeOK, HomeInv, NEW k \in Keys, CleanupVisit(k)
  PROVE  [Lifecycle!Next]_StageMap
<1>1. UNCHANGED <<PoolIds, nextId>>
  BY DEF CleanupVisit, PoolIds
<1>2. CASE ~Removes(k)
  BY <1>1, <1>2, SetsStay DEF CleanupVisit, LiveIds, Tracked, ClosedIds
<1>3. CASE Removes(k)
  <2> DEFINE i == connections[k].id
  <2>1. k \in Tracked /\ i \in LiveIds /\ i \in Ids
    BY <1>3, IdsAreNumbers DEF Removes, LiveIds, Connection
  <2>2. Tracked' = Tracked \ {k} /\ \A l \in Tracked' : connections'[l] = connections[l]
    BY <1>3, IdsAreNumbers DEF CleanupVisit, Retained, Tracked
  <2>3. LiveIds' = LiveIds \ {i}
    BY <2>1, <2>2 DEF LiveIds, HomeInv, OneHome
  <2>4. ClosedIds' = ClosedIds \union {i}
    <3> DEFINE h == [key |-> k, own |-> connections[k].own, id |-> connections[k].id,
                     closed |-> now]
    <3>1. to_archive' = to_archive \union {h} /\ h.id = i
      BY <1>3 DEF CleanupVisit
    <3> HIDE DEF h, i
    <3> QED BY <3>1 DEF ClosedIds
  <2> HIDE DEF i
  <2> QED BY <1>1, <2>1, <2>3, <2>4, CloseRefines DEF Lifecycle!Next
<1> QED BY <1>2, <1>3

LEMMA ArchivalRefines ==
  ASSUME TypeOK, HomeInv, NEW h \in to_archive, Archive(h)
  PROVE  [Lifecycle!Next]_StageMap
<1>1. UNCHANGED <<LiveIds, nextId>>
  BY DEF Archive, table_vars, LiveIds, Tracked
<1>2. h.id \in ClosedIds /\ h.id \in Ids
  BY DEF ClosedIds, TypeOK, Historic
<1>3. ClosedIds' = ClosedIds \ {h.id}
  BY DEF Archive, ClosedIds, HomeInv, OneHome
<1>4. PoolIds' = PoolIds \union {h.id}
  <2>1. \A g \in historic : g.id # h.id
    BY DEF HomeInv, OneHome
  <2>2. historic' = historic \union {h}
    BY <2>1 DEF Archive, InsertHistoric, HistoricKey
  <2> QED BY <2>2 DEF PoolIds
<1> QED BY <1>1, <1>2, <1>3, <1>4, ArchiveRefines DEF Lifecycle!Next

(* Steps that at most take entries out of the pool.                        *)
LEMMA ShrinkingRefines ==
  ASSUME TypeOK, HomeInv, historic' \subseteq historic,
         UNCHANGED <<connections, nextId, to_archive>>
  PROVE  [Lifecycle!Next]_StageMap
<1>1. PoolIds' \subseteq PoolIds /\ UNCHANGED <<LiveIds, ClosedIds, nextId>>
  BY DEF PoolIds, LiveIds, Tracked, ClosedIds
<1> QED BY <1>1, DropRefines DEF Lifecycle!Next

LEMMA StepRefines == TypeOK /\ HomeInv /\ [Next]_vars => [Lifecycle!Next]_StageMap
<1> SUFFICES ASSUME TypeOK, HomeInv, [Next]_vars
             PROVE  [Lifecycle!Next]_StageMap
  OBVIOUS
<1>1. ASSUME NEW p \in Procs, Processor(p) PROVE [Lifecycle!Next]_StageMap
  BY <1>1, UpsertRefines, ShrinkingRefines
  DEF Processor, ResolveKey, CheckContains, CheckLimit, table_vars, cleanup_vars
<1>2. ASSUME NEW k \in Keys, Tick(k) PROVE [Lifecycle!Next]_StageMap
  <2>1. LiveIds' = LiveIds
    BY <1>2, EntryAged, WrittenIsTracked DEF LiveIds, Tracked
  <2> QED BY <1>2, <2>1, SetsStay DEF Tick, cleanup_vars, ClosedIds, PoolIds
<1>3. CASE Cleanup
  <2>1. CASE \/ CleanupBegin \/ CleanupScanned \/ CollectForEviction \/ EvictOldest
             \/ EvictUnderflow \/ CleanMapping \/ CleanupExit
    BY <2>1, ShrinkingRefines DEF CleanupBegin, CleanupScanned, CollectForEviction,
       EvictOldest, EvictUnderflow, CleanMapping, CleanupExit, table_vars
  <2> QED BY <1>3, <2>1, VisitRefines, ArchivalRefines DEF Cleanup
<1>4. CASE Ui
  <2>1. CASE ClearConnections
    <3>1. LiveIds' = {} /\ UNCHANGED <<ClosedIds, PoolIds, nextId>>
      BY <2>1 DEF ClearConnections, cleanup_vars, LiveIds, Tracked, ClosedIds, PoolIds
    <3> QED BY <3>1, ClearRefines DEF Lifecycle!Next
  <2>2. CASE ClearHistoric \/ ClearView \/ ClearMapping \/ Stop
    BY <2>2, ShrinkingRefines DEF ClearHistoric, ClearView, ClearMapping, Stop, table_vars,
       cleanup_vars
  <2> QED BY <1>4, <2>1, <2>2 DEF Ui
<1>5. CASE UNCHANGED vars
  BY <1>5, ShrinkingRefines DEF vars, table_vars, cleanup_vars
<1> QED BY <1>1, <1>2, <1>3, <1>4, <1>5 DEF Next

LEMMA InitRefines == Init => Lifecycle!Init
<1> SUFFICES ASSUME Init PROVE StageMap = [i \in Ids |-> "unborn"]
  BY DEF Lifecycle!Init, StageMap
<1>1. LiveIds = {} /\ ClosedIds = {} /\ PoolIds = {} /\ nextId = 1
  BY DEF Init, LiveIds, Tracked, ClosedIds, PoolIds
<1>2. \A i \in Ids : i >= 1
  BY LimitsAssumption DEF Ids
<1> QED BY <1>1, <1>2, StageBySets DEF StageOf

(* Whatever the threads do between each other's steps: connections are     *)
(* created in order, a closed one is archived once before it may leave the *)
(* pool, and none returns to an earlier stage or disappears on the way.    *)
THEOREM TableImplementsLifecycle == Spec => ImplementsLifecycle
<1>1. Init => HomeInv
  BY DEF Init, HomeInv, OneHome, IdsGivenOut, Archived, Tracked, LiveIds
<1>2. Spec => [][Lifecycle!Next]_StageMap
  BY <1>1, InitTypeOK, StepTypeOK, StepHomeInv, StepRefines, PTL DEF Spec
<1>3. Spec => Lifecycle!Init
  BY InitRefines DEF Spec
<1> QED BY <1>2, <1>3, PTL DEF ImplementsLifecycle, Lifecycle!Spec, StageMap

=============================================================================
