------------------------------ MODULE MCDnsCache ------------------------------
(* The instance of DnsCache that TLC checks: a name has two addresses or    *)
(* one, and the table keeps one.                                            *)
EXTENDS DnsCache, TLC

DnsSymmetry == Permutations(Workers) \cup Permutations(Names)
=============================================================================
