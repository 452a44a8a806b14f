----------------------------- MODULE MCLazyValues -----------------------------
(* The instance of LazyValues that TLC checks.                             *)
EXTENDS LazyValues, TLC

LazySymmetry == Permutations(Threads) \cup Permutations(Values)
=============================================================================
