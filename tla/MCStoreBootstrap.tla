--------------------------- MODULE MCStoreBootstrap ---------------------------
(* Instances of StoreBootstrap for TLC.                                    *)
EXTENDS StoreBootstrap, TLC

Symmetries == Permutations(Procs) \cup Permutations(Ids)
=============================================================================
