-------------------------- MODULE MCOwnedReferences ---------------------------
(* The instance of OwnedReferences that TLC checks: every path of every     *)
(* function, with at most MaxRounds rounds of its loop.                     *)
EXTENDS OwnedReferences

MCObjects == 1..14
=============================================================================
