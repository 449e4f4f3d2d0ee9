------------------------- MODULE SnapshotViewProofs -------------------------
(***************************************************************************)
(* Theorems about the snapshot thread and the sidecar file, composed with  *)
(* the threads of the connection table.  What ConnTableProofs shows of a   *)
(* step of those threads is used here for the steps of the composition.    *)
(***************************************************************************)
EXTENDS SnapshotViewProps, ConnTableProofs

-----------------------------------------------------------------------------
(* The composition and the table.  Every step of the composition is one of *)
(* the table, or leaves it alone, or is a write of App::stop after         *)
(* should_stop has been raised, which changes only where the UI thread is. *)

Finishing ==
  /\ upc \in {"stopped", "stopped once"}
  /\ upc' \in {"stopped once", "exited"}
  /\ UNCHANGED <<table_vars, quic_mapping, historic, proc_vars, cleanup_vars, should_stop>>

(* A step of any thread but the snapshot thread, as that thread sees it.   *)
OtherStep ==
  /\ [Next]_vars \/ Finishing
  /\ UNCHANGED <<snap_vars, missed>>
  /\ KeepSteady

LEMMA StepsOfView ==
  ASSUME ViewNext
  PROVE  (Snapshotter /\ UNCHANGED vars) \/ OtherStep
<1>1. CASE TableStep
  BY <1>1 DEF TableStep, OtherStep, Next, Cleanup, Ui, view_vars, snap_vars
<1>2. ASSUME NEW k \in Keys, CleanupVisitLogged(k) PROVE OtherStep
  BY <1>2 DEF CleanupVisitLogged, OtherStep, Next, Cleanup
<1>3. CASE Snapshotter
  BY <1>3 DEF Snapshotter, SnapBegin, SnapVisit, SnapHistoric, SnapPublish, SnapExit
<1>4. CASE StopRaise
  BY <1>4 DEF StopRaise, OtherStep, Next, Ui, view_vars, snap_vars
<1>5. CASE StopWrite \/ DropWrite
  BY <1>5 DEF StopWrite, DropWrite, OtherStep, Finishing, snap_vars
<1>6. CASE ToggleHistoric
  BY <1>6 DEF ToggleHistoric, OtherStep, snap_vars
<1>7. CASE ClearConnectionsView \/ ClearViewRows
  BY <1>7 DEF ClearConnectionsView, ClearViewRows, OtherStep, Next, Ui, view_vars, snap_vars
<1> QED BY <1>1, <1>2, <1>3, <1>4, <1>5, <1>6, <1>7 DEF ViewNext

LEMMA StepsOfTable == [ViewNext]_all_vars => [Next]_vars \/ Finishing
BY StepsOfView DEF OtherStep, all_vars

LEMMA ViewStepTypeOK == TypeOK /\ [ViewNext]_all_vars => TypeOK'
<1>1. TypeOK /\ Finishing => TypeOK'
  BY DEF TypeOK, Finishing, table_vars, proc_vars, cleanup_vars
<1> QED BY <1>1, StepsOfTable, StepTypeOK

LEMMA ViewStepHomeInv == TypeOK /\ HomeInv /\ [ViewNext]_all_vars => HomeInv'
<1>1. HomeInv /\ Finishing => HomeInv'
  BY LeavingKeepsHome DEF Finishing, Tracked, table_vars, cleanup_vars
<1> QED BY <1>1, StepsOfTable, StepHomeInv

LEMMA ViewInitTable == ViewInit => TypeOK /\ HomeInv
<1>1. Init => HomeInv
  BY DEF Init, HomeInv, OneHome, IdsGivenOut, Archived, Tracked, LiveIds
<1> QED BY <1>1, InitTypeOK DEF ViewInit

(* The table keeps its types and its connections one home beside the       *)
(* snapshot thread and a stop.                                             *)
LEMMA ViewTable == ViewSpec => [](TypeOK /\ HomeInv)
BY ViewInitTable, ViewStepTypeOK, ViewStepHomeInv, PTL DEF ViewSpec

-----------------------------------------------------------------------------
(* The types of the view, and the states of the UI thread in which         *)
(* should_stop has been raised.                                            *)

ViewTypeOK ==
  /\ snapshot \in SUBSET Row
  /\ snapshot_data \in SUBSET Row
  /\ spc \in {"sleep", "iter", "publish", "stopped"}
  /\ sscan \in SUBSET Keys
  /\ sidecar \in [Ids -> Nat]
  /\ upc \in {"stopped", "stopped once"} => should_stop

(* A connection has at most two rows, one of each kind.                    *)
RowsOf(i) == {r \in snapshot : r.id = i}

LEMMA RowsOfOne ==
  ASSUME ViewTypeOK, NEW i \in Ids
  PROVE  Cardinality(RowsOf(i)) \in 0..2
<1> DEFINE T == [id |-> i, is_historic |-> TRUE]
<1> DEFINE F == [id |-> i, is_historic |-> FALSE]
<1>1. IsFiniteSet({T} \union {F}) /\ Cardinality({T} \union {F}) <= 2
  <2>1. IsFiniteSet({T}) /\ Cardinality({T}) = 1
    BY FS_Singleton
  <2> HIDE DEF T, F
  <2>2. /\ IsFiniteSet({T} \union {F})
        /\ F \notin {T} => Cardinality({T} \union {F}) = Cardinality({T}) + 1
        /\ F \in {T} => Cardinality({T} \union {F}) = Cardinality({T})
    BY <2>1, FS_AddElement
  <2> QED BY <2>1, <2>2
<1>2. \A r \in Row : r.id = i => r = T \/ r = F
  BY DEF Row
<1>3. RowsOf(i) \in SUBSET ({T} \union {F})
  BY <1>2 DEF ViewTypeOK, RowsOf
<1> HIDE DEF T, F
<1>4. /\ Cardinality(RowsOf(i)) <= Cardinality({T} \union {F})
      /\ Cardinality(RowsOf(i)) \in Nat /\ Cardinality({T} \union {F}) \in Nat
  BY <1>1, <1>3, FS_Subset, FS_CardinalityType
<1> QED BY <1>1, <1>4

LEMMA RowsAreRows ==
  ASSUME TypeOK
  PROVE  HistoricRows \subseteq Row /\ \A k \in Tracked : ActiveRow(k) \in Row
<1>1. \A h \in historic : h.id \in Ids
  BY DEF TypeOK, Historic
<1>2. HistoricRows \subseteq Row
  <2>1. IdsAmong(historic) \subseteq Ids
    BY <1>1 DEF IdsAmong
  <2> SUFFICES ASSUME NEW i \in IdsAmong(historic)
               PROVE  [id |-> i, is_historic |-> TRUE] \in Row
    BY DEF HistoricRows
  <2> QED BY <2>1 DEF Row
<1> QED BY <1>2, IdsAreNumbers DEF Connection, ActiveRow, Row

LEMMA StepViewTypeOK == TypeOK /\ ViewTypeOK /\ [ViewNext]_all_vars => ViewTypeOK'
<1> SUFFICES ASSUME TypeOK, ViewTypeOK, [ViewNext]_all_vars PROVE ViewTypeOK'
  OBVIOUS
<1> USE DEF ViewTypeOK
<1>1. ASSUME UNCHANGED view_vars, UNCHANGED <<upc, should_stop>> \/ upc' \notin {"stopped", "stopped once"}
                                  \/ should_stop'
      PROVE  ViewTypeOK'
  BY <1>1 DEF view_vars, snap_vars, export_vars
<1>2. CASE TableStep
  BY <1>1, <1>2 DEF TableStep, Processor, ResolveKey, CheckContains, CheckLimit, UpsertEntry,
     Tick, CleanupBegin, CleanupScanned, Archive, CollectForEviction, EvictOldest,
     EvictUnderflow, CleanMapping, CleanupExit, ClearHistoric, ClearMapping, ui_vars
<1>3. ASSUME NEW k \in Keys, CleanupVisitLogged(k) PROVE ViewTypeOK'
  <2>1. sidecar' \in [Ids -> Nat]
    <3>1. CASE LogsLine(k)
      <4>1. connections[k].id \in Ids
        BY <3>1, IdsAreNumbers DEF LogsLine, Removes, Connection
      <4> DEFINE i == connections[k].id
      <4>2. sidecar' = [sidecar EXCEPT ![i] = @ + 1]
        BY <1>3, <3>1 DEF CleanupVisitLogged
      <4> HIDE DEF i
      <4>3. sidecar \in [Ids -> Nat]
        OBVIOUS
      <4> HIDE DEF ViewTypeOK
      <4> QED BY <4>1, <4>2, <4>3 DEF i
    <3> QED BY <1>3, <3>1 DEF CleanupVisitLogged
  <2> QED BY <1>3, <2>1 DEF CleanupVisitLogged, CleanupVisit, snap_vars, ui_vars
<1>4. CASE Snapshotter
  <2>1. CASE SnapBegin
    BY <2>1 DEF SnapBegin, vars, ui_vars, export_vars
  <2>2. ASSUME NEW k \in Keys, SnapVisit(k) PROVE ViewTypeOK'
    BY <2>2, RowsAreRows DEF SnapVisit, WithRow, Shown, vars, ui_vars, export_vars
  <2>3. CASE SnapHistoric
    BY <2>3, RowsAreRows DEF SnapHistoric, WithHistoric, vars, ui_vars, export_vars
  <2>4. CASE SnapPublish \/ SnapExit
    BY <2>4 DEF SnapPublish, SnapExit, Published, vars, ui_vars, export_vars
  <2> QED BY <1>4, <2>1, <2>2, <2>3, <2>4 DEF Snapshotter
<1>5. CASE StopRaise \/ ClearConnectionsView
  BY <1>1, <1>5 DEF StopRaise, Stop, ClearConnectionsView, ClearConnections
<1>6. CASE StopWrite \/ DropWrite
  <2>1. \A i \in Ids : sidecar[i] + Cardinality(RowsOf(i)) \in Nat
    <3>1. \A i \in Ids : sidecar[i] \in Nat
      OBVIOUS
    <3> HIDE DEF ViewTypeOK
    <3>2. \A i \in Ids : Cardinality(RowsOf(i)) \in 0..2
      BY RowsOfOne
    <3> QED BY <3>1, <3>2
  <2>2. sidecar' \in [Ids -> Nat]
    <3>1. sidecar' = [i \in Ids |-> sidecar[i] + Cardinality(RowsOf(i))]
      BY <1>6 DEF StopWrite, DropWrite, LinesOfSnapshot, RowsOf
    <3> QED BY <2>1, <3>1
  <2>3. should_stop'
    BY <1>6 DEF StopWrite, DropWrite
  <2> QED BY <1>6, <2>2, <2>3 DEF StopWrite, DropWrite, snap_vars
<1>7. CASE ToggleHistoric
  BY <1>7 DEF ToggleHistoric, vars, ui_vars, snap_vars, export_vars
<1>8. CASE ClearViewRows
  BY <1>8 DEF ClearViewRows, ClearView, snap_vars, export_vars
<1>9. CASE UNCHANGED all_vars
  BY <1>1, <1>9 DEF all_vars, vars, ui_vars
<1> QED BY <1>2, <1>3, <1>4, <1>5, <1>6, <1>7, <1>8, <1>9 DEF ViewNext

LEMMA ViewTyped == ViewSpec => []ViewTypeOK
<1>1. ViewInit => ViewTypeOK
  BY DEF ViewInit, Init, ViewTypeOK
<1> QED BY <1>1, StepViewTypeOK, ViewTable, PTL DEF ViewSpec

-----------------------------------------------------------------------------
(* The sidecar.  A line is written once because a connection is tracked    *)
(* once: the one that is removed has none of a removal yet, and afterwards *)
(* it is never tracked again.  That needs OneHome, and that a connection   *)
(* not created yet has no line of a removal either.                        *)

LinesInv ==
  /\ LinesMatchRemovals
  /\ \A i \in Ids : i >= nextId => sidecar[i] <= 2 * StopWrites

LEMMA WritesAreCounted == StopWrites \in 0..2
BY DEF StopWrites

(* The UI thread is outside App::stop before and after the step.           *)
LEMMA NoWriteCounted ==
  ASSUME \/ UNCHANGED upc
         \/ {upc, upc'} \intersect {"stopped once", "exited"} = {}
  PROVE  UNCHANGED StopWrites
BY DEF StopWrites

(* Steps that write no line.                                               *)
LEMMA NoLineKeepsLines ==
  ASSUME LinesInv, UNCHANGED sidecar, UNCHANGED StopWrites,
         Archived' \subseteq Archived, UNCHANGED nextId,
         LiveIds' \subseteq LiveIds
  PROVE  LinesInv'
BY DEF LinesInv, LinesMatchRemovals, Archived

(* A new connection has no line.                                           *)
LEMMA UpsertKeepsLines ==
  ASSUME TypeOK, LinesInv, NEW p \in Procs, UpsertEntry(p), UNCHANGED sidecar
  PROVE  LinesInv'
<1> DEFINE k == pkey[p]
<1>1. PICK e \in Connection :
        /\ connections' = [connections EXCEPT ![k] = e]
        /\ \/ k \in Tracked /\ e.id = connections[k].id /\ nextId' = nextId
           \/ k \notin Tracked /\ e.id = nextId /\ nextId <= MaxCreated /\ nextId' = nextId + 1
  BY EntryWritten
<1>2. k \in Keys
  BY EntryWritten
<1> HIDE DEF k
<1>3. /\ Tracked' = Tracked \union {k}
      /\ connections'[k] = e
      /\ \A l \in Keys \ {k} : connections'[l] = connections[l]
  BY <1>1, <1>2, WrittenIsTracked
<1>4. UNCHANGED <<to_archive, historic, StopWrites>>
  BY NoWriteCounted DEF UpsertEntry, cleanup_vars, ui_vars
<1>5. CASE k \in Tracked
  <2>1. LiveIds' = LiveIds
    BY <1>1, <1>3, <1>5 DEF LiveIds, Tracked
  <2> QED BY <1>1, <1>4, <1>5, <2>1, NoLineKeepsLines DEF Archived
<1>6. CASE k \notin Tracked
  <2>1. LiveIds' = LiveIds \union {nextId}
    BY <1>1, <1>3, <1>6 DEF LiveIds, Tracked
  <2>2. nextId \in Nat /\ nextId' = nextId + 1 /\ nextId \in Ids
    <3>1. nextId \in 1..(MaxCreated + 1)
      BY DEF TypeOK
    <3> QED BY <1>1, <1>6, <3>1, LimitsAssumption DEF Ids
  <2>3. \A i \in Ids : i >= nextId' => i >= nextId
    BY <2>2, LimitsAssumption DEF Ids
  <2>4. sidecar[nextId] <= 2 * StopWrites
    BY <2>2 DEF LinesInv
  <2> QED BY <1>4, <2>1, <2>3, <2>4 DEF LinesInv, LinesMatchRemovals
<1> QED BY <1>5, <1>6

(* The removal of a connection writes its line.                            *)
LEMMA RemovalKeepsLines ==
  ASSUME TypeOK, HomeInv, ViewTypeOK, LinesInv, NEW k \in Keys, CleanupVisitLogged(k)
  PROVE  LinesInv'
<1>1. UNCHANGED <<historic, nextId, StopWrites>> /\ CleanupVisit(k)
  BY NoWriteCounted DEF CleanupVisitLogged, CleanupVisit, ui_vars
<1>2. CASE ~Removes(k)
  <2>1. UNCHANGED <<connections, to_archive, sidecar>>
    BY <1>1, <1>2 DEF CleanupVisit, CleanupVisitLogged, LogsLine
  <2> QED BY <1>1, <2>1, NoLineKeepsLines DEF Archived, LiveIds, Tracked
<1>3. CASE Removes(k)
  <2> DEFINE i == connections[k].id
  <2>1. k \in Tracked /\ i \in LiveIds /\ i \in Ids
    BY <1>3, IdsAreNumbers DEF Removes, LiveIds, Connection
  <2>2. Tracked' = Tracked \ {k} /\ \A l \in Tracked' : connections'[l] = connections[l]
    BY <1>1, <1>3, IdsAreNumbers DEF CleanupVisit, Retained, Tracked
  <2>3. LiveIds' = LiveIds \ {i}
    BY <2>1, <2>2 DEF LiveIds, HomeInv, OneHome
  <2>4. \A h \in Archived' : h \in Archived \/ h.id = i
    BY <1>1, <1>3 DEF CleanupVisit, Archived
  <2>5. sidecar' = [sidecar EXCEPT ![i] = @ + 1]
    BY <1>3 DEF CleanupVisitLogged, LogsLine
  <2>6. i \in Nat /\ nextId \in Nat /\ i < nextId
    BY <2>1, HomesDisjoint
  <2>7. sidecar \in [Ids -> Nat]
    BY DEF ViewTypeOK
  <2>8. \A h \in Archived : h.id \in Ids
    BY DEF Archived, TypeOK, Historic
  <2> HIDE DEF i
  <2>9. \A h \in Archived' : sidecar'[h.id] >= 1
    <3>1. sidecar'[i] >= 1 /\ \A j \in Ids : sidecar'[j] >= sidecar[j]
      BY <2>1, <2>5, <2>7
    <3>2. \A h \in Archived : sidecar[h.id] >= 1
      BY DEF LinesInv, LinesMatchRemovals, Archived
    <3>3. \A h \in Archived : sidecar'[h.id] >= 1
      <4> TAKE h \in Archived
      <4>1. sidecar[h.id] \in Nat /\ sidecar'[h.id] \in Nat
        BY <2>1, <2>5, <2>7, <2>8
      <4> QED BY <2>8, <3>1, <3>2, <4>1
    <3> QED BY <2>4, <3>1, <3>3
  <2>10. /\ \A j \in Ids : sidecar'[j] <= 1 + 2 * StopWrites
         /\ \A j \in LiveIds' : sidecar'[j] <= 2 * StopWrites
         /\ \A j \in Ids : j >= nextId' => sidecar'[j] <= 2 * StopWrites
    <3>1. sidecar[i] <= 2 * StopWrites
      BY <2>1 DEF LinesInv, LinesMatchRemovals
    <3>2. /\ sidecar[i] \in Nat /\ sidecar'[i] = sidecar[i] + 1
          /\ \A j \in Ids \ {i} : sidecar'[j] = sidecar[j]
      BY <2>1, <2>5, <2>7
    <3>3. LiveIds \subseteq Ids
      BY IdsAreNumbers DEF LiveIds, Connection
    <3>4. ~(i >= nextId)
      BY <2>6
    <3>5. sidecar'[i] <= 1 + 2 * StopWrites
      BY <3>1, <3>2, WritesAreCounted
    <3> QED BY <1>1, <2>3, <3>2, <3>3, <3>4, <3>5 DEF LinesInv, LinesMatchRemovals
  <2> QED BY <1>1, <2>9, <2>10 DEF LinesInv, LinesMatchRemovals, Archived
<1> QED BY <1>2, <1>3

(* A write of App::stop adds at most two lines for a connection.           *)
LEMMA StopKeepsLines ==
  ASSUME TypeOK, ViewTypeOK, LinesInv, StopWrite \/ DropWrite
  PROVE  LinesInv'
<1>1. UNCHANGED <<to_archive, historic, connections, nextId>>
  BY DEF StopWrite, DropWrite, cleanup_vars, table_vars
<1>2. sidecar' = [i \in Ids |-> sidecar[i] + Cardinality(RowsOf(i))]
  BY DEF StopWrite, DropWrite, LinesOfSnapshot, RowsOf
<1>3. \A i \in Ids : sidecar[i] \in Nat
  BY DEF ViewTypeOK
<1>4. \A i \in Ids : Cardinality(RowsOf(i)) \in 0..2
  BY RowsOfOne
<1>5. StopWrites' = StopWrites + 1
  <2>1. CASE StopWrite
    <3>1. StopWrites = 0 /\ StopWrites' = 1
      BY <2>1 DEF StopWrite, StopWrites
    <3> QED BY <3>1
  <2>2. CASE DropWrite
    <3>1. StopWrites = 1 /\ StopWrites' = 2
      BY <2>2 DEF DropWrite, StopWrites
    <3> QED BY <3>1
  <2> QED BY <2>1, <2>2
<1>6. \A i \in Ids : /\ sidecar[i] <= sidecar'[i]
                    /\ sidecar'[i] <= sidecar[i] + 2 /\ sidecar'[i] \in Nat
  BY <1>2, <1>3, <1>4
<1>7. \A h \in to_archive \union historic : h.id \in Ids
  BY DEF TypeOK, Historic
<1>8. LiveIds \subseteq Ids /\ LiveIds' = LiveIds
  BY <1>1, IdsAreNumbers DEF LiveIds, Tracked, Connection
<1>9. \A h \in to_archive' \union historic' : sidecar'[h.id] >= 1
  <2> TAKE h \in to_archive' \union historic'
  <2>1. h.id \in Ids /\ sidecar[h.id] >= 1
    BY <1>1, <1>7 DEF LinesInv, LinesMatchRemovals
  <2> QED BY <1>3, <1>6, <2>1
<1>10. \A i \in Ids : sidecar'[i] <= 1 + 2 * StopWrites'
  <2> TAKE i \in Ids
  <2>1. sidecar[i] <= 1 + 2 * StopWrites
    BY DEF LinesInv, LinesMatchRemovals
  <2> QED BY <1>3, <1>5, <1>6, <2>1, WritesAreCounted
<1>11. \A i \in Ids : sidecar[i] <= 2 * StopWrites => sidecar'[i] <= 2 * StopWrites'
  BY <1>3, <1>5, <1>6, WritesAreCounted
<1> QED BY <1>1, <1>8, <1>9, <1>10, <1>11 DEF LinesInv, LinesMatchRemovals

LEMMA StepLinesInv ==
  TypeOK /\ HomeInv /\ ViewTypeOK /\ LinesInv /\ [ViewNext]_all_vars => LinesInv'
<1> SUFFICES ASSUME TypeOK, HomeInv, ViewTypeOK, LinesInv, [ViewNext]_all_vars
             PROVE  LinesInv'
  OBVIOUS
<1>1. ASSUME UNCHANGED <<connections, nextId, sidecar>>, Archived' \subseteq Archived,
             \/ UNCHANGED upc
             \/ {upc, upc'} \intersect {"stopped once", "exited"} = {}
      PROVE  LinesInv'
  BY <1>1, NoLineKeepsLines, NoWriteCounted DEF LiveIds, Tracked
<1>2. CASE TableStep
  <2>1. UNCHANGED sidecar
    BY <1>2 DEF TableStep, view_vars, export_vars
  <2>2. ASSUME NEW p \in Procs, Processor(p) PROVE LinesInv'
    BY <1>1, <2>1, <2>2, UpsertKeepsLines
    DEF Processor, ResolveKey, CheckContains, CheckLimit, table_vars, cleanup_vars, ui_vars,
        Archived
  <2>3. ASSUME NEW k \in Keys, Tick(k) PROVE LinesInv'
    <3>1. LiveIds' = LiveIds
      BY <2>3, EntryAged, WrittenIsTracked DEF LiveIds, Tracked
    <3> QED BY <2>1, <2>3, <3>1, NoLineKeepsLines, NoWriteCounted DEF Tick, cleanup_vars, ui_vars, Archived
  <2>4. ASSUME NEW h \in to_archive, Archive(h) PROVE LinesInv'
    BY <1>1, <2>1, <2>4 DEF Archive, InsertHistoric, table_vars, ui_vars, Archived
  <2>5. CASE \/ CleanupBegin \/ CleanupScanned \/ CollectForEviction \/ EvictOldest
             \/ EvictUnderflow \/ CleanMapping \/ CleanupExit \/ ClearHistoric \/ ClearMapping
    BY <1>1, <2>1, <2>5 DEF CleanupBegin, CleanupScanned, CollectForEviction, EvictOldest,
       EvictUnderflow, CleanMapping, CleanupExit, ClearHistoric, ClearMapping, table_vars,
       cleanup_vars, ui_vars, Archived
  <2> QED BY <1>2, <2>2, <2>3, <2>4, <2>5 DEF TableStep
<1>3. CASE Snapshotter
  BY <1>1, <1>3 DEF Snapshotter, SnapBegin, SnapVisit, SnapHistoric, SnapPublish, SnapExit,
     vars, table_vars, cleanup_vars, ui_vars, export_vars, Archived
<1>4. CASE StopRaise \/ ToggleHistoric \/ ClearViewRows
  BY <1>1, <1>4 DEF StopRaise, Stop, ToggleHistoric, ClearViewRows, ClearView, vars, table_vars,
     cleanup_vars, ui_vars, view_vars, export_vars, Archived
<1>5. CASE ClearConnectionsView
  <2>1. LiveIds' = {} /\ UNCHANGED <<nextId, sidecar, StopWrites, to_archive, historic>>
    BY <1>5, NoWriteCounted DEF ClearConnectionsView, ClearConnections, LiveIds, Tracked, cleanup_vars,
                view_vars, export_vars
  <2> QED BY <2>1, NoLineKeepsLines DEF Archived
<1>6. CASE UNCHANGED all_vars
  BY <1>1, <1>6 DEF all_vars, vars, table_vars, cleanup_vars, ui_vars, view_vars, export_vars,
     Archived
<1> QED
  BY <1>2, <1>3, <1>4, <1>5, <1>6, RemovalKeepsLines, StopKeepsLines DEF ViewNext

(* No removal goes unrecorded and none is recorded twice, and each call of *)
(* App::stop adds at most two lines of a connection, for any number of     *)
(* connections and keys.                                                   *)
THEOREM LinesAreRemovals == ViewSpec => []LinesMatchRemovals
<1>1. ViewInit => LinesInv
  BY DEF ViewInit, Init, LinesInv, LinesMatchRemovals, LiveIds, Tracked, StopWrites
<1>2. LinesInv => LinesMatchRemovals
  BY DEF LinesInv
<1> QED BY <1>1, <1>2, StepLinesInv, ViewTable, ViewTyped, PTL DEF ViewSpec

-----------------------------------------------------------------------------
(* The snapshot pass.  A connection that is shown throughout keeps its key *)
(* while it is tracked, so the pass either still has that key before it or *)
(* has taken its row.                                                      *)

SteadyInv ==
  /\ spc \in {"iter", "publish"} => steady \subseteq ShownIds
  /\ spc = "iter" =>
       \A k \in Keys : Shown(k) /\ connections[k].id \in steady =>
                         k \in sscan \/ ActiveRow(k) \in snapshot_data
  /\ SteadyShown

(* A connection that is tracked after a step was tracked under the same    *)
(* key before it, or is new.                                               *)
LEMMA TrackedBefore ==
  ASSUME TypeOK, HomeInv, [Next]_vars \/ Finishing, NEW k \in Tracked'
  PROVE  \/ k \in Tracked /\ connections'[k].id = connections[k].id
         \/ connections'[k].id = nextId
<1> DEFINE Same == k \in Tracked /\ connections'[k].id = connections[k].id
<1>1. ASSUME UNCHANGED connections PROVE Same
  BY <1>1 DEF Tracked
<1>2. ASSUME NEW p \in Procs, UpsertEntry(p) PROVE Same \/ connections'[k].id = nextId
  <2> DEFINE m == pkey[p]
  <2>1. PICK e \in Connection :
          /\ connections' = [connections EXCEPT ![m] = e]
          /\ \/ m \in Tracked /\ e.id = connections[m].id
             \/ m \notin Tracked /\ e.id = nextId
    BY <1>2, EntryWritten
  <2>2. m \in Keys
    BY <1>2, EntryWritten
  <2> HIDE DEF m
  <2>3. /\ Tracked' = Tracked \union {m}
        /\ connections'[m] = e
        /\ \A j \in Keys \ {m} : connections'[j] = connections[j]
    BY <2>1, <2>2, WrittenIsTracked
  <2> QED BY <2>1, <2>3 DEF Tracked
<1>3. ASSUME NEW j \in Keys, Tick(j) PROVE Same
  <2>1. PICK e \in Connection : /\ connections' = [connections EXCEPT ![j] = e]
                                /\ e.id = connections[j].id
    BY <1>3, EntryAged
  <2>2. j \in Tracked
    BY <1>3, EntryAged
  <2>3. /\ Tracked' = Tracked \union {j}
        /\ connections'[j] = e
        /\ \A i \in Keys \ {j} : connections'[i] = connections[i]
    BY <2>1, WrittenIsTracked
  <2> QED BY <2>1, <2>2, <2>3 DEF Tracked
<1>4. ASSUME NEW j \in Keys, CleanupVisit(j) PROVE Same
  BY <1>4, IdsAreNumbers DEF CleanupVisit, Retained, Tracked
<1>5. CASE ClearConnections
  BY <1>5 DEF ClearConnections, Tracked
<1>6. CASE \/ CleanupBegin \/ CleanupScanned \/ (\E h \in to_archive : Archive(h))
           \/ CollectForEviction \/ EvictOldest \/ EvictUnderflow \/ CleanMapping
           \/ CleanupExit \/ ClearHistoric \/ ClearView \/ ClearMapping \/ Stop
  BY <1>1, <1>6 DEF CleanupBegin, CleanupScanned, Archive, CollectForEviction, EvictOldest,
     EvictUnderflow, CleanMapping, CleanupExit, ClearHistoric, ClearView, ClearMapping, Stop,
     table_vars
<1>7. ASSUME NEW p \in Procs, Processor(p) PROVE Same \/ connections'[k].id = nextId
  BY <1>1, <1>2, <1>7 DEF Processor, ResolveKey, CheckContains, CheckLimit, table_vars
<1>8. CASE Finishing \/ UNCHANGED vars
  BY <1>1, <1>8 DEF Finishing, vars, table_vars
<1> QED BY <1>3, <1>4, <1>5, <1>6, <1>7, <1>8 DEF Next, Cleanup, Ui

(* A connection tracked before and after a step has the same key.          *)
LEMMA KeyIsKept ==
  ASSUME TypeOK, HomeInv, [Next]_vars \/ Finishing,
         NEW l \in Tracked, NEW k \in Tracked', connections'[k].id = connections[l].id
  PROVE  k = l
<1>1. connections[l].id \in Nat /\ connections[l].id < nextId
  BY IdsAreNumbers DEF HomeInv, IdsGivenOut
<1>2. k \in Tracked /\ connections'[k].id = connections[k].id
  BY <1>1, TrackedBefore
<1> QED BY <1>2 DEF HomeInv, OneHome

(* What the other threads do during a pass.                                *)
LEMMA OthersKeepSteady ==
  ASSUME TypeOK, HomeInv, SteadyInv, OtherStep
  PROVE  SteadyInv'
<1>1. UNCHANGED <<spc, sscan, snapshot_data>> /\ steady' = steady \intersect ShownIds'
  BY DEF OtherStep, snap_vars, KeepSteady
<1>2. ASSUME spc = "iter", NEW k \in Keys, Shown(k)', connections'[k].id \in steady'
      PROVE  k \in sscan' \/ ActiveRow(k)' \in snapshot_data'
  <2>1. connections'[k].id \in ShownIds
    BY <1>1, <1>2 DEF SteadyInv
  <2>2. PICK l \in Keys : Shown(l) /\ connections[l].id = connections'[k].id
    BY <2>1 DEF ShownIds
  <2>3. k \in Tracked' /\ l \in Tracked
    BY <1>2, <2>2 DEF Shown
  <2>4. k = l
    BY <2>2, <2>3, KeyIsKept DEF OtherStep
  <2>5. ActiveRow(k)' = ActiveRow(l)
    BY <2>2, <2>4 DEF ActiveRow
  <2>6. connections[k].id \in steady
    BY <1>1, <1>2, <2>2, <2>4
  <2> QED BY <1>1, <1>2, <2>2, <2>4, <2>5, <2>6 DEF SteadyInv
<1> QED BY <1>1, <1>2 DEF SteadyInv, SteadyShown

(* What the pass itself does.                                              *)
LEMMA PassKeepsSteady ==
  ASSUME SteadyInv, Snapshotter, UNCHANGED vars
  PROVE  SteadyInv'
<1>1. /\ ShownIds' = ShownIds /\ UNCHANGED connections
      /\ \A k \in Keys : (Shown(k)' <=> Shown(k)) /\ ActiveRow(k)' = ActiveRow(k)
  BY DEF vars, table_vars, ShownIds, Shown, Tracked, ActiveRow
<1>2. CASE SnapBegin
  BY <1>1, <1>2 DEF SnapBegin, SteadyInv, SteadyShown
<1>3. ASSUME NEW k \in Keys, SnapVisit(k) PROVE SteadyInv'
  <2>1. /\ spc = "iter" /\ spc' = "iter" /\ sscan' = sscan \ {k}
        /\ steady' \subseteq steady /\ steady' \subseteq ShownIds'
        /\ snapshot_data \subseteq snapshot_data'
        /\ Shown(k) => ActiveRow(k) \in snapshot_data'
    BY <1>3 DEF SnapVisit, KeepSteady, WithRow
  <2>2. \A l \in Keys : Shown(l)' /\ connections'[l].id \in steady' =>
                          l \in sscan' \/ ActiveRow(l)' \in snapshot_data'
    <3> SUFFICES ASSUME NEW l \in Keys, Shown(l), connections[l].id \in steady
                 PROVE  l \in sscan' \/ ActiveRow(l) \in snapshot_data'
      BY <1>1, <2>1
    <3>1. l \in sscan \/ ActiveRow(l) \in snapshot_data
      BY <2>1 DEF SteadyInv
    <3> QED BY <2>1, <3>1
  <2> QED BY <2>1, <2>2 DEF SteadyInv, SteadyShown
<1>4. CASE SnapHistoric
  <2>1. /\ spc = "iter" /\ sscan = {} /\ spc' = "publish"
        /\ steady' \subseteq steady /\ steady' \subseteq ShownIds'
        /\ snapshot_data \subseteq snapshot_data'
    BY <1>4 DEF SnapHistoric, KeepSteady, WithHistoric
  <2>2. \A i \in steady' : [id |-> i, is_historic |-> FALSE] \in snapshot_data'
    <3> TAKE i \in steady'
    <3>1. PICK k \in Keys : Shown(k) /\ connections[k].id = i
      BY <1>1, <2>1 DEF ShownIds
    <3>2. ActiveRow(k) \in snapshot_data
      BY <2>1, <3>1 DEF SteadyInv
    <3> QED BY <2>1, <3>1, <3>2 DEF ActiveRow
  <2> QED BY <2>1, <2>2 DEF SteadyInv, SteadyShown
<1>5. CASE SnapPublish \/ SnapExit
  BY <1>5 DEF SnapPublish, SnapExit, SteadyInv, SteadyShown
<1> QED BY <1>2, <1>3, <1>4, <1>5 DEF Snapshotter

LEMMA StepSteadyInv == TypeOK /\ HomeInv /\ SteadyInv /\ [ViewNext]_all_vars => SteadyInv'
<1> SUFFICES ASSUME TypeOK, HomeInv, SteadyInv, [ViewNext]_all_vars PROVE SteadyInv'
  OBVIOUS
<1>1. CASE ViewNext
  BY <1>1, StepsOfView, OthersKeepSteady, PassKeepsSteady
<1>2. CASE UNCHANGED all_vars
  BY <1>2 DEF all_vars, vars, table_vars, view_vars, snap_vars, ghost_vars, SteadyInv, SteadyShown,
              ShownIds, Shown, Tracked, ActiveRow
<1> QED BY <1>1, <1>2

(* A connection that is tracked, active and not filtered during a whole    *)
(* pass is in what the pass publishes, whatever packets, the cleanup and   *)
(* the clear do to the table while it is iterated over.                    *)
THEOREM SteadyAreShown == ViewSpec => []SteadyShown
<1>1. ViewInit => SteadyInv
  BY DEF ViewInit, SteadyInv, SteadyShown
<1>2. SteadyInv => SteadyShown
  BY DEF SteadyInv
<1> QED BY <1>1, <1>2, StepSteadyInv, ViewTable, PTL DEF ViewSpec

-----------------------------------------------------------------------------
(* The pass and the connections that move.  What is known throughout has   *)
(* been collected, is still to be visited in the table, or has left it for *)
(* the pool, which is read after the table.                                *)

Collected(i) == \E row \in snapshot_data : row.id = i
Unvisited(i) == \E k \in sscan : Shown(k) /\ connections[k].id = i
Gone(i) == i \in IdsAmong(to_archive \union historic)

KnownInv ==
  /\ spc \in {"iter", "publish"} => known \subseteq KnownIds
  /\ spc = "iter" => \A i \in known : Collected(i) \/ Unvisited(i) \/ Gone(i)
  /\ KnownShown

LEMMA KnownAreIds ==
  ASSUME TypeOK
  PROVE  KnownIds \subseteq Ids
<1>1. ShownIds \subseteq Ids
  BY IdsAreNumbers DEF ShownIds, Shown, Connection
<1>2. \A h \in to_archive \union historic : h.id \in Ids
  BY DEF TypeOK, Historic
<1> QED BY <1>1, <1>2 DEF KnownIds, IdsAmong

(* A connection does not come back into the table, and a tracked one keeps *)
(* its key.                                                                *)
LEMMA GoneStaysGone ==
  ASSUME TypeOK, HomeInv, [Next]_vars \/ Finishing, NEW i, Gone(i), i \in KnownIds'
  PROVE  Gone(i)'
<1>1. PICK h \in Archived : h.id = i
  BY DEF Gone, IdsAmong, Archived
<1>2. i \in Nat /\ i < nextId /\ i \notin LiveIds
  BY <1>1, IdsAreNumbers DEF HomeInv, OneHome, IdsGivenOut, Archived
<1>3. i \notin ShownIds'
  <2> SUFFICES ASSUME NEW k \in Keys, Shown(k)', connections'[k].id = i PROVE FALSE
    BY DEF ShownIds
  <2>1. k \in Tracked'
    BY DEF Shown
  <2> QED BY <1>2, <2>1, TrackedBefore DEF LiveIds
<1> QED BY <1>3 DEF KnownIds, Gone

LEMMA UnvisitedStays ==
  ASSUME TypeOK, HomeInv, [Next]_vars \/ Finishing, UNCHANGED sscan,
         NEW i, Unvisited(i), i \in KnownIds'
  PROVE  Unvisited(i)' \/ Gone(i)'
<1>1. PICK l \in sscan : Shown(l) /\ connections[l].id = i
  BY DEF Unvisited
<1>2. CASE i \in ShownIds'
  <2>1. PICK k \in Keys : Shown(k)' /\ connections'[k].id = i
    BY <1>2 DEF ShownIds
  <2>2. l \in Tracked /\ k \in Tracked'
    BY <1>1, <2>1 DEF Shown
  <2>3. k = l
    BY <1>1, <2>1, <2>2, KeyIsKept
  <2> QED BY <1>1, <2>1, <2>3 DEF Unvisited
<1> QED BY <1>2 DEF KnownIds, Gone

LEMMA OthersKeepKnown ==
  ASSUME TypeOK, HomeInv, KnownInv, OtherStep
  PROVE  KnownInv'
<1>1. UNCHANGED <<spc, sscan, snapshot_data, missed>> /\ known' = known \intersect KnownIds'
  BY DEF OtherStep, snap_vars, KeepSteady
<1>2. ASSUME spc = "iter", NEW i \in known'
      PROVE  Collected(i)' \/ Unvisited(i)' \/ Gone(i)'
  <2>1. i \in KnownIds' /\ (Collected(i) \/ Unvisited(i) \/ Gone(i))
    BY <1>1, <1>2 DEF KnownInv
  <2> QED BY <1>1, <2>1, GoneStaysGone, UnvisitedStays DEF OtherStep, Collected
<1> QED BY <1>1, <1>2 DEF KnownInv, KnownShown

LEMMA PassKeepsKnown ==
  ASSUME TypeOK, KnownInv, Snapshotter, UNCHANGED vars
  PROVE  KnownInv'
<1>1. /\ KnownIds' = KnownIds /\ UNCHANGED <<connections, to_archive, historic>>
      /\ \A k \in Keys : Shown(k)' <=> Shown(k)
      /\ \A i : Gone(i)' <=> Gone(i)
  BY DEF vars, table_vars, cleanup_vars, KnownIds, ShownIds, Shown, Tracked, Gone
<1>2. CASE SnapBegin
  <2>1. known' = KnownIds /\ sscan' = Keys /\ spc' = "iter"
    BY <1>2 DEF SnapBegin
  <2>2. \A i \in known' : Unvisited(i)' \/ Gone(i)'
    BY <1>1, <2>1 DEF KnownIds, ShownIds, Unvisited, Gone
  <2> QED BY <1>1, <2>1, <2>2 DEF KnownInv, KnownShown
<1>3. ASSUME NEW k \in Keys, SnapVisit(k) PROVE KnownInv'
  <2>1. /\ spc = "iter" /\ spc' = "iter" /\ sscan' = sscan \ {k}
        /\ known' = known \intersect KnownIds'
        /\ snapshot_data \subseteq snapshot_data'
        /\ Shown(k) => ActiveRow(k) \in snapshot_data'
    BY <1>3 DEF SnapVisit, KeepSteady, WithRow
  <2>2. ASSUME NEW i \in known' PROVE Collected(i)' \/ Unvisited(i)' \/ Gone(i)'
    <3>1. Collected(i) \/ Unvisited(i) \/ Gone(i)
      BY <2>1, <2>2 DEF KnownInv
    <3>2. CASE Unvisited(i)
      <4>1. PICK l \in sscan : Shown(l) /\ connections[l].id = i
        BY <3>2 DEF Unvisited
      <4>2. CASE l = k
        BY <2>1, <4>1, <4>2 DEF Collected, ActiveRow
      <4>3. CASE l # k
        <5>1. l \in sscan' /\ connections'[l].id = i /\ Shown(l)'
          BY <1>1, <2>1, <4>1, <4>3 DEF Shown, Tracked
        <5> QED BY <5>1 DEF Unvisited
      <4> QED BY <4>2, <4>3
    <3> QED BY <1>1, <2>1, <3>1, <3>2 DEF Collected
  <2> QED BY <2>1, <2>2 DEF KnownInv, KnownShown
<1>4. CASE SnapHistoric
  <2>1. /\ spc = "iter" /\ sscan = {} /\ spc' = "publish"
        /\ known' = known \intersect KnownIds'
        /\ snapshot_data' = IF show_historic THEN WithHistoric ELSE snapshot_data
        /\ missed' = IF show_historic THEN IdsAmong(to_archive) ELSE Ids
    BY <1>4 DEF SnapHistoric, KeepSteady
  <2>2. ASSUME NEW i \in known' \ missed' PROVE Collected(i)'
    <3>1. show_historic /\ i \notin IdsAmong(to_archive)
      BY <1>1, <2>1, <2>2, KnownAreIds
    <3>2. Collected(i) \/ Gone(i)
      BY <2>1, <2>2 DEF KnownInv, Unvisited
    <3>3. CASE Gone(i)
      <4>1. i \in IdsAmong(historic)
        BY <3>1, <3>3 DEF Gone, IdsAmong
      <4>2. [id |-> i, is_historic |-> TRUE] \in snapshot_data'
        BY <2>1, <3>1, <4>1 DEF WithHistoric, HistoricRows
      <4> QED BY <4>2 DEF Collected
    <3> QED BY <2>1, <3>1, <3>2, <3>3 DEF Collected, WithHistoric
  <2> QED BY <2>1, <2>2 DEF KnownInv, KnownShown, Collected
<1>5. CASE SnapPublish \/ SnapExit
  BY <1>5 DEF SnapPublish, SnapExit, KnownInv, KnownShown
<1> QED BY <1>2, <1>3, <1>4, <1>5 DEF Snapshotter

LEMMA StepKnownInv == TypeOK /\ HomeInv /\ KnownInv /\ [ViewNext]_all_vars => KnownInv'
<1> SUFFICES ASSUME TypeOK, HomeInv, KnownInv, [ViewNext]_all_vars PROVE KnownInv'
  OBVIOUS
<1>1. CASE ViewNext
  BY <1>1, StepsOfView, OthersKeepKnown, PassKeepsKnown
<1>2. CASE UNCHANGED all_vars
  <2>1. UNCHANGED <<connections, to_archive, historic, spc, sscan, snapshot_data, known, missed>>
    BY <1>2 DEF all_vars, vars, table_vars, cleanup_vars, view_vars, snap_vars, ghost_vars
  <2>2. KnownIds' = KnownIds
    BY <2>1 DEF KnownIds, ShownIds, Shown, Tracked
  <2>3. \A i : /\ Collected(i)' <=> Collected(i)
               /\ Unvisited(i)' <=> Unvisited(i)
               /\ Gone(i)' <=> Gone(i)
    BY <2>1 DEF Collected, Unvisited, Gone, Shown, Tracked
  <2> QED BY <2>1, <2>2, <2>3 DEF KnownInv, KnownShown, Collected
<1> QED BY <1>1, <1>2

(* With the historic connections switched on, a connection known during a  *)
(* whole pass, whether it stays, moves from the table to the pool or lies  *)
(* in the pool, has a row in what the pass publishes, or was in neither    *)
(* when the pool was read.                                                 *)
THEOREM KnownAreShown == ViewSpec => []KnownShown
<1>1. ViewInit => KnownInv
  BY DEF ViewInit, KnownInv, KnownShown
<1>2. KnownInv => KnownShown
  BY DEF KnownInv
<1> QED BY <1>1, <1>2, StepKnownInv, ViewTable, PTL DEF ViewSpec

=============================================================================
