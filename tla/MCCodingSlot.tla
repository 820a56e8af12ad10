----------------------------- MODULE MCCodingSlot -----------------------------
(* Instances of CodingSlot for TLC.                                        *)
EXTENDS CodingSlot, TLC

Symmetries == Permutations(Controllers) \cup Permutations(Candidates)
                 \cup Permutations(Bindings)
=============================================================================
