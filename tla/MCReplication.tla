--------------------------- MODULE MCReplication ---------------------------
(***************************************************************************)
(* Model checking of Replication: which requests the two clients send.     *)
(***************************************************************************)
EXTENDS Replication, TLC

CONSTANTS c1, c2

\* A request that syncs or restores against requests that take one step.
EveryRequest == c1 :> {"start", "restore"} @@ c2 :> {"stop", "delete"}

\* Two requests that race to start replication, and stop it.
TwoStarts == c1 :> {"start", "stop"} @@ c2 :> {"start", "stop"}

\* One user who starts and stops replication.
StartStop == c1 :> {"start", "stop"} @@ c2 :> {}
=============================================================================
