---------------------------- MODULE MCLifecycle ----------------------------
(***************************************************************************)
(* Model checking of Lifecycle: requests for a scan of one file, which     *)
(* meet the daemon's scan of all.                                          *)
(***************************************************************************)
EXTENDS Lifecycle, TLC

CONSTANTS f1, f2

SomeRoots == {{f1}}
=============================================================================
