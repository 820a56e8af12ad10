--------------------------- MODULE MCAuthorityLock ---------------------------
(* Instances of AuthorityLock for TLC.                                     *)
EXTENDS AuthorityLock, TLC

\* Processes, keys and tokens are interchangeable: no definition names one.
Symmetries ==
    Permutations(Procs) \cup Permutations(Tasks) \cup Permutations(Instances)
=============================================================================
