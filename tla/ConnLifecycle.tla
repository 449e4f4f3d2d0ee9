--------------------------- MODULE ConnLifecycle ---------------------------
(***************************************************************************)
(* What the connection table and the historic pool of rustnet promise      *)
(* together: every connection is created once, in order; it is live until  *)
(* the cleanup thread closes it or the user clears the table; a closed     *)
(* connection is archived, and an archived one is only ever evicted or     *)
(* cleared.  No connection returns to an earlier stage, none is archived   *)
(* twice, and none disappears between its removal and its archival.        *)
(***************************************************************************)
EXTENDS Naturals

CONSTANT Ids      \* connections, in the order of their creation

VARIABLE stage

Stages == {"unborn", "live", "closed", "historic", "gone"}

Init == stage = [i \in Ids |-> "unborn"]

(* Connections are created in the order of their identities. *)
Create(i) ==
  /\ stage[i] = "unborn"
  /\ \A j \in Ids : j < i => stage[j] # "unborn"
  /\ stage' = [stage EXCEPT ![i] = "live"]

Move(i, from, to) ==
  /\ stage[i] = from
  /\ stage' = [stage EXCEPT ![i] = to]

Close(i) == Move(i, "live", "closed")

Archive(i) == Move(i, "closed", "historic")

(* Some archived connections leave the pool: eviction or a clear. *)
Drop(S) ==
  /\ \A i \in S : stage[i] = "historic"
  /\ stage' = [i \in Ids |-> IF i \in S THEN "gone" ELSE stage[i]]

(* The user clears the table: every live connection goes, unarchived. *)
ClearLive ==
  stage' = [i \in Ids |-> IF stage[i] = "live" THEN "gone" ELSE stage[i]]

Next ==
  \/ \E i \in Ids : Create(i) \/ Close(i) \/ Archive(i)
  \/ \E S \in SUBSET Ids : Drop(S)
  \/ ClearLive

Spec == Init /\ [][Next]_stage

=============================================================================
