--------------------------- MODULE AtomicReplica ----------------------------
(***************************************************************************)
(* What DifferentialSyncContext promises to readers of the replica and to  *)
(* the application that owns the source: a sync looks at the source at one *)
(* instant, and at another the replica becomes what the source was, all    *)
(* tables at once, or stays what it is.                                    *)
(***************************************************************************)
EXTENDS Databases

VARIABLES
  src,      \* the source database
  replica,  \* the replica as its readers see it
  held      \* the source as the sync under way saw it; Absent without one

Init ==
  /\ src \in Database /\ WellFormed(src)
  /\ replica = src
  /\ held = Absent

Edit ==
  /\ src' \in Database /\ WellFormed(src')
  /\ UNCHANGED <<replica, held>>

Begin ==
  /\ held = Absent
  /\ held' = src
  /\ UNCHANGED <<src, replica>>

Commit ==
  /\ held # Absent
  /\ replica' = Synced(replica, held)
  /\ held' = Absent
  /\ UNCHANGED src

Abort ==
  /\ held # Absent
  /\ held' = Absent
  /\ UNCHANGED <<src, replica>>

Next == Edit \/ Begin \/ Commit \/ Abort

Spec == Init /\ [][Next]_<<src, replica, held>>
=============================================================================
