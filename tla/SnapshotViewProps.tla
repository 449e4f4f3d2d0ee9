------------------------- MODULE SnapshotViewProps -------------------------
(***************************************************************************)
(* What must hold of the snapshot and of the sidecar file, and what the    *)
(* repository says of them that does not.                                  *)
(***************************************************************************)
EXTENDS SnapshotView, ConnTableProps

-----------------------------------------------------------------------------
(* A connection that is tracked, active and not filtered out during the    *)
(* whole of a snapshot pass is in the rows the pass publishes, whatever    *)
(* the other threads do to the table meanwhile.                            *)
SteadyShown ==
  spc = "publish" =>
    \A i \in steady : [id |-> i, is_historic |-> FALSE] \in snapshot_data

(* With the historic connections switched on, a connection that is moved   *)
(* from the table to the pool during a pass is not lost between the two    *)
(* reads (app.rs:1287, 1303): one that is active, on its way to the pool   *)
(* or in it during the whole of a pass has a row, of one kind or the       *)
(* other, also when its key has been opened again.  The exception is the   *)
(* connection that was on its way, in neither, when the pool was read: the *)
(* pass may miss it.                                                       *)
KnownShown ==
  spc = "publish" =>
    \A i \in known \ missed : \E row \in snapshot_data : row.id = i

(* The calls of App::stop that have written the snapshot to the sidecar.   *)
StopWrites ==
  CASE upc = "stopped once" -> 1
    [] upc = "exited" -> 2
    [] OTHER -> 0

(* No removal goes unrecorded and none is recorded twice: whatever the     *)
(* cleanup thread has taken out of the table has its line in the sidecar   *)
(* before it can be seen in the historic pool, also during the shutdown,   *)
(* and a connection that is tracked has no such line.  On top of that each *)
(* of the two calls of App::stop adds at most two lines of a connection,   *)
(* one for each kind of row it may have in the snapshot.                   *)
LinesMatchRemovals ==
  /\ \A h \in to_archive \union historic : sidecar[h.id] >= 1
  /\ \A i \in Ids : sidecar[i] <= 1 + 2 * StopWrites
  /\ \A i \in LiveIds : sidecar[i] <= 2 * StopWrites

(* What the user cleared leaves the screen: unless the program stops, the  *)
(* rows of connections that were only tracked, never archived, disappear   *)
(* from the snapshot after a clear and at the latest with the next pass.   *)
StaleRow(i) ==
  /\ i <= clearedUpTo
  /\ [id |-> i, is_historic |-> FALSE] \in snapshot
ClearedRowsLeave == \A i \in Ids : StaleRow(i) ~> (~StaleRow(i) \/ should_stop)

=============================================================================
