--------------------------- MODULE MCColumnEdits ---------------------------
(***************************************************************************)
(* Model checking of ColumnEdits.                                          *)
(***************************************************************************)
EXTENDS ColumnEdits, TLC
=============================================================================
