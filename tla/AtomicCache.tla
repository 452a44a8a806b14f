----------------------------- MODULE AtomicCache -----------------------------
(***************************************************************************)
(* What the disk cache promises its readers (docs/network.md:156, "a       *)
(* reader arriving at any moment sees the whole of one version or the      *)
(* whole of another"): a map from keys to whole responses.  A reader keeps *)
(* the version it got for as long as it uses it, whatever happens to the   *)
(* key meanwhile.                                                          *)
(***************************************************************************)
CONSTANTS
    Keys,
    Workers,
    Versions,  \* the responses of the origin servers
    Nothing    \* a key has no entry, a worker reads none

VARIABLES
    store,  \* the version stored under each key
    got     \* the version each worker is reading

Init ==
    /\ store = [k \in Keys |-> Nothing]
    /\ got = [w \in Workers |-> Nothing]

Publish(k, v) ==
    /\ store' = [store EXCEPT ![k] = v]
    /\ UNCHANGED got

Withdraw(k) ==
    /\ store' = [store EXCEPT ![k] = Nothing]
    /\ UNCHANGED got

Get(w, k) ==
    /\ store[k] # Nothing
    /\ got[w] = Nothing
    /\ got' = [got EXCEPT ![w] = store[k]]
    /\ UNCHANGED store

Release(w) ==
    /\ got' = [got EXCEPT ![w] = Nothing]
    /\ UNCHANGED store

\* The process dies and is started again: the store survives.
Restart ==
    /\ got' = [w \in Workers |-> Nothing]
    /\ UNCHANGED store

Next ==
    \/ \E k \in Keys, v \in Versions : Publish(k, v)
    \/ \E k \in Keys : Withdraw(k)
    \/ \E w \in Workers : Release(w) \/ \E k \in Keys : Get(w, k)
    \/ Restart

Spec == Init /\ [][Next]_<<store, got>>
=============================================================================
