------------------------------ MODULE MCTlsShim ------------------------------
(* The instance of TlsShim that TLC checks.                                *)
EXTENDS TlsShim, TLC

\* Two hosts that begin their probing at the same slot.
OneHash == [h \in Hosts |-> 0]

AddressSymmetry == Permutations(Objs) \cup Permutations(Hosts)
=============================================================================
