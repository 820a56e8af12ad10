----------------------------- MODULE MCTaskLedger -----------------------------
(* Instances of TaskLedger for TLC.                                        *)
EXTENDS TaskLedger, TLC

Symmetries == Permutations(Engines) \cup Permutations(Intakes)
                 \cup Permutations(Moves)
=============================================================================
