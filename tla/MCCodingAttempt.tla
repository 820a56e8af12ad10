--------------------------- MODULE MCCodingAttempt ----------------------------
(* An instance of CodingAttempt for TLC.                                   *)
EXTENDS CodingAttempt
===============================================================================
