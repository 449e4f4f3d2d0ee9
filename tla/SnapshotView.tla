--------------------------- MODULE SnapshotView ---------------------------
(***************************************************************************)
(* What the user sees of the connection table: the snapshot thread of      *)
(* src/app.rs, which copies the table (and, on demand, the historic pool)  *)
(* for the UI, and the JSONL sidecar file, which receives a line for every *)
(* connection the cleanup thread removes and for every connection of the   *)
(* snapshot when the program stops.                                        *)
(*                                                                         *)
(* The module composes these with the threads of ConnTable: a step of      *)
(* theirs leaves the view alone, except where the same function of the     *)
(* code touches both (the removal of an entry writes the sidecar, a clear  *)
(* empties the snapshot, a stop writes the sidecar).                       *)
(***************************************************************************)
EXTENDS ConnTable

CONSTANTS
  ActiveAge,        \* is_active(): age below 300 s, in units of Tick
  Filtered          \* loopback connections, hidden when filter_localhost is set

ASSUME ViewAssumption == ActiveAge \in Nat /\ Filtered \subseteq Keys

VARIABLES
  snapshot,         \* connections_snapshot
  show_historic,
  spc,              \* program counter of the snapshot thread
  sscan,            \* keys its iteration has not visited
  snapshot_data,
  sidecar,          \* lines of the sidecar file for each connection
  clearedUpTo,      \* history: connections created before the last clear
  steady,           \* history: active since the snapshot pass began
  known,            \* history: active, or on the way to the pool or in it, since then
  missed            \* history: what was on the way when the pass read the pool

snap_vars == <<spc, sscan, snapshot_data>>
export_vars == <<sidecar>>
view_vars == <<snapshot, show_historic, snap_vars, export_vars>>
ghost_vars == <<clearedUpTo, steady, known, missed>>
all_vars == <<vars, view_vars, ghost_vars>>

(* A row of the snapshot. *)
Row == [id : Ids, is_historic : BOOLEAN]

Active(conn) == conn.age < ActiveAge

(* Connections the snapshot pass is to show. *)
Shown(k) ==
  k \in Tracked /\ connections[k].own \notin Filtered /\ Active(connections[k])
ShownIds == {connections[k].id : k \in {l \in Keys : Shown(l)}}

(* Connections that have left the table and are not hidden by the filter:  *)
(* those the cleanup thread holds in its to_archive, and those in the pool.*)
IdsAmong(gone) == {h.id : h \in {g \in gone : g.own \notin Filtered}}
KnownIds == ShownIds \union IdsAmong(to_archive \union historic)

ViewInit ==
  /\ Init
  /\ snapshot = {}
  /\ show_historic = FALSE
  /\ spc = "sleep"
  /\ sscan = {}
  /\ snapshot_data = {}
  /\ sidecar = [i \in Ids |-> 0]
  /\ clearedUpTo = 0
  /\ steady = {}
  /\ known = {}
  /\ missed = {}

(* Connections that were shown, or known, when the pass began and are still.*)
KeepSteady ==
  /\ steady' = steady \intersect ShownIds'
  /\ known' = known \intersect KnownIds'

-----------------------------------------------------------------------------
(* Snapshot thread.                                                        *)

SnapBegin ==
  /\ spc = "sleep"
  /\ ~should_stop
  /\ spc' = "iter"
  /\ sscan' = Keys
  /\ snapshot_data' = {}
  /\ steady' = ShownIds
  /\ known' = KnownIds
  /\ UNCHANGED <<vars, snapshot, show_historic, export_vars, clearedUpTo, missed>>

ActiveRow(k) == [id |-> connections[k].id, is_historic |-> FALSE]

WithRow(k) == snapshot_data \union {ActiveRow(k)}

(* The filter_map over one entry of the table, under the lock of its shard.*)
SnapVisit(k) ==
  /\ spc = "iter"
  /\ k \in sscan
  /\ sscan' = sscan \ {k}
  /\ snapshot_data' = IF Shown(k) THEN WithRow(k) ELSE snapshot_data
  /\ UNCHANGED <<vars, snapshot, show_historic, spc, export_vars, clearedUpTo, missed>>
  /\ KeepSteady

(* Mutant: a connection that is open again hides its predecessors.         *)
HistoricNotOpen ==
  {[id |-> i, is_historic |-> TRUE] : i \in IdsAmong({h \in historic : h.key \notin Tracked})}

HistoricRows == {[id |-> i, is_historic |-> TRUE] : i \in IdsAmong(historic)}

(* Mutant: the historic rows replace the active ones.                      *)
HistoricOnly == HistoricRows

WithHistoric == snapshot_data \union HistoricRows

(* The historic pool is appended when the toggle is on.                    *)
SnapHistoric ==
  /\ spc = "iter"
  /\ sscan = {}
  /\ spc' = "publish"
  /\ snapshot_data' = IF show_historic THEN WithHistoric ELSE snapshot_data
  /\ missed' = IF show_historic THEN IdsAmong(to_archive) ELSE Ids
  /\ UNCHANGED <<vars, snapshot, show_historic, sscan, export_vars, clearedUpTo>>
  /\ KeepSteady

(* Mutant: the new rows are added to the old ones.                         *)
PublishedOnTop == snapshot \union snapshot_data

Published == snapshot_data

(* The write lock of connections_snapshot is taken: the UI sees the rows.  *)
SnapPublish ==
  /\ spc = "publish"
  /\ snapshot' = Published
  /\ snapshot_data' = {}
  /\ spc' = "sleep"
  /\ steady' = {} /\ known' = {} /\ missed' = {}
  /\ UNCHANGED <<vars, show_historic, sscan, export_vars, clearedUpTo>>

SnapExit ==
  /\ spc = "sleep"
  /\ should_stop
  /\ spc' = "stopped"
  /\ UNCHANGED <<vars, snapshot, show_historic, sscan, snapshot_data,
                 export_vars, ghost_vars>>

-----------------------------------------------------------------------------
(* The sidecar: log_pcap_connection.                                       *)

(* Mutant: no line during the shutdown.                                    *)
LogsUntilStop(k) == Removes(k) /\ ~should_stop

LogsLine(k) == Removes(k)

(* The retain closure writes a line for each entry it removes.             *)
CleanupVisitLogged(k) ==
  /\ CleanupVisit(k)
  /\ sidecar' = IF LogsLine(k)
       THEN [sidecar EXCEPT ![connections[k].id] = @ + 1]
       ELSE sidecar
  /\ UNCHANGED <<snapshot, show_historic, snap_vars, clearedUpTo, missed>>
  /\ KeepSteady

(* One line for every row of the snapshot, historic rows included.         *)
LinesOfSnapshot ==
  [i \in Ids |-> sidecar[i] + Cardinality({r \in snapshot : r.id = i})]

(* App::stop: raise should_stop, then write the snapshot under its lock.   *)
StopRaise ==
  /\ Stop
  /\ UNCHANGED <<view_vars, clearedUpTo, missed>>
  /\ KeepSteady

StopWrite ==
  /\ upc = "stopped"
  /\ sidecar' = LinesOfSnapshot
  /\ upc' = "stopped once"
  /\ UNCHANGED <<table_vars, quic_mapping, historic, proc_vars, cleanup_vars,
                 should_stop, snapshot, show_historic, snap_vars, clearedUpTo, missed>>
  /\ KeepSteady

(* main calls App::stop and then drops the App, and Drop calls stop again; *)
(* when it returns, the process exits with all its threads.                *)
DropWrite ==
  /\ upc = "stopped once"
  /\ sidecar' = LinesOfSnapshot
  /\ upc' = "exited"
  /\ UNCHANGED <<table_vars, quic_mapping, historic, proc_vars, cleanup_vars,
                 should_stop, snapshot, show_historic, snap_vars, clearedUpTo, missed>>
  /\ KeepSteady

-----------------------------------------------------------------------------
(* UI thread.                                                              *)

(* toggle_show_historic: key 't'.                                          *)
ToggleHistoric ==
  /\ upc = "run"
  /\ show_historic' = ~show_historic
  /\ UNCHANGED <<vars, snapshot, snap_vars, export_vars, clearedUpTo, missed>>
  /\ KeepSteady

ClearConnectionsView ==
  /\ ClearConnections
  /\ clearedUpTo' = nextId - 1
  /\ UNCHANGED <<view_vars, missed>>
  /\ KeepSteady

(* show_historic.store(false) and snapshot.clear() of                      *)
(* clear_all_connections.                                                  *)
ClearViewRows ==
  /\ ClearView
  /\ show_historic' = FALSE
  /\ snapshot' = {}
  /\ UNCHANGED <<snap_vars, export_vars, clearedUpTo, missed>>
  /\ KeepSteady

-----------------------------------------------------------------------------
(* Steps of ConnTable that do not touch the view.                          *)
TableStep ==
  /\ \/ \E p \in Procs : Processor(p)
     \/ \E k \in Keys : Tick(k)
     \/ CleanupBegin \/ CleanupScanned \/ (\E h \in to_archive : Archive(h))
     \/ CollectForEviction \/ EvictOldest \/ EvictUnderflow \/ CleanMapping
     \/ CleanupExit
     \/ ClearHistoric \/ ClearMapping
  /\ UNCHANGED <<view_vars, clearedUpTo, missed>>
  /\ KeepSteady

Snapshotter ==
  \/ SnapBegin
  \/ \E k \in Keys : SnapVisit(k)
  \/ SnapHistoric
  \/ SnapPublish
  \/ SnapExit

ViewNext ==
  /\ upc # "exited"
  /\ \/ TableStep
     \/ \E k \in Keys : CleanupVisitLogged(k)
     \/ Snapshotter
     \/ StopRaise \/ StopWrite \/ DropWrite
     \/ ToggleHistoric \/ ClearConnectionsView \/ ClearViewRows

ViewSpec == ViewInit /\ [][ViewNext]_all_vars

(* The snapshot thread is a loop with a sleep: it keeps being scheduled.   *)
FairViewSpec == ViewSpec /\ WF_all_vars(Snapshotter /\ upc # "exited")

=============================================================================
