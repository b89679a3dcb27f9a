--------------------------- MODULE MCStoreManager ---------------------------
(***************************************************************************)
(* Model checking of StoreManager: its names, requests and entries are     *)
(* interchangeable (the runs of temporal properties do without).           *)
(***************************************************************************)
EXTENDS StoreManager, TLC

Symmetry == Permutations(Names) \cup Permutations(Clients) \cup Permutations(Entries)
=============================================================================
