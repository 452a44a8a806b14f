---------------------------- MODULE SessionTable ----------------------------
(***************************************************************************)
(* g_sessions of platform/safari/tls-openssl.c: the TLS sessions kept per  *)
(* host so that a later connection can resume.  A host hashes to a slot    *)
(* and may use that one or the next Probes - 1.  A slot is never emptied,  *)
(* and never given to another host.                                        *)
(***************************************************************************)
EXTENDS Naturals

CONSTANTS
    Hosts,
    NoHost,       \* the empty host name
    SslSessions,  \* SSL_SESSION objects
    NoSession,
    Slots,        \* SESSION_SLOTS (32 in the code)
    Probes,       \* how many slots a host may use (4 in the code)
    Hash          \* the hash of each host's name

ASSUME TableAssumption ==
    /\ NoHost \notin Hosts
    /\ NoSession \notin SslSessions
    /\ Slots \in Nat \ {0}
    /\ Probes \in Nat \ {0}
    /\ Hash \in [Hosts -> Nat]

Slot == 0..(Slots - 1)
Probe == 0..(Probes - 1)

Entry == [host : Hosts \cup {NoHost}, session : SslSessions \cup {NoSession}]
Empty == [host |-> NoHost, session |-> NoSession]

\* The slot that the p-th probe for a host looks at.
SlotOf(h, p) == (Hash[h] + p) % Slots

\* Mutant: only an empty slot is taken, also where the host has one already.
EmptyOnly(table, h, p) == table[SlotOf(h, p)].host = NoHost

\* rememberSession stores in the first probed slot that is empty or the host's own.
MayHold(table, h, p) == table[SlotOf(h, p)].host \in {NoHost, h}

StoresAt(table, h, p) ==
    /\ MayHold(table, h, p)
    /\ \A q \in Probe : q < p => ~MayHold(table, h, q)

\* Mutant: the host is not compared.
AnyHas(table, h, p) == table[SlotOf(h, p)].session # NoSession

\* applyRememberedSession offers the first probed session that is the host's own.
Has(table, h, p) ==
    LET e == table[SlotOf(h, p)]
    IN  e.session # NoSession /\ e.host = h

OffersAt(table, h, p) ==
    /\ Has(table, h, p)
    /\ \A q \in Probe : q < p => ~Has(table, h, q)
=============================================================================
