----------------------------- MODULE MCDiffSync -----------------------------
(***************************************************************************)
(* Model checking of DiffSync: two spellings of one name, another name and *)
(* an index that has it, and a trigger; or two names and an index.         *)
(***************************************************************************)
EXTENDS DiffSync, TLC

CONSTANTS upper, lower, other, index, trigger

FoldCase == upper :> lower @@ lower :> lower @@ other :> other @@ index :> other @@ trigger :> trigger
ByName   == upper :> 1 @@ other :> 2 @@ lower :> 3

FoldNone == lower :> lower @@ other :> other @@ index :> index
InOrder  == other :> 1 @@ lower :> 2
=============================================================================
