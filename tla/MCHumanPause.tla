----------------------------- MODULE MCHumanPause -----------------------------
(* Instances of HumanPause for TLC.                                        *)
EXTENDS HumanPause, TLC

Symmetries == Permutations(Engines) \cup Permutations(Tasks)
                 \cup Permutations(Times)
=============================================================================
