---------------------------- MODULE MCExposures ----------------------------
(***************************************************************************)
(* Model checking of Exposures: one managed database and one file of       *)
(* another application, one alias that both may have.                      *)
(***************************************************************************)
EXTENDS Exposures, TLC

CONSTANTS rw, read, write

\* With the opt-in everything.
Permissions == rw :> {read, write}

Symmetry == Permutations(Clients)
=============================================================================
