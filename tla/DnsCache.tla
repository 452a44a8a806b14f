------------------------------- MODULE DnsCache -------------------------------
(***************************************************************************)
(* Connecting to a host (dnsCacheCopy, dnsCacheStore and connectToHost in  *)
(* app/ModernTLSURLProtocol.m): the table of resolved names that all the   *)
(* workers share, and the race of the addresses of a name.                 *)
(*                                                                         *)
(* A worker opens a socket for each address, none of them blocking, waits  *)
(* until one is connected and closes the others.  A socket is named by the *)
(* place of its address in the list of the name's addresses, of which only *)
(* the length matters.  A name stands for a host and port.                 *)
(* The specification's names are its own, so that it can be extended       *)
(* together with others.                                                   *)
(***************************************************************************)
EXTENDS Integers, FiniteSetsExt

CONSTANTS
    Workers,
    Names,
    Empty,
    MaxAddresses,   \* what the resolver may answer, at most
    CacheHosts,     \* kDNSCacheHosts
    CacheAddresses, \* kDNSCacheAddresses
    CacheSeconds,   \* kDNSCacheSeconds
    MaxTime         \* the clock stops there

ASSUME DnsAssumption ==
    /\ Empty \notin Names
    /\ {MaxAddresses, CacheHosts, CacheAddresses, CacheSeconds} \subseteq Nat \ {0}
    /\ MaxTime \in Nat

VARIABLES
    now,       \* the clock, in seconds
    gDNSCache, \* of each slot, an entry or Empty
    at,        \* where each worker's connectToHost is
    name,      \* what it connects to
    read,      \* the time it read
    count,     \* how many addresses the name has
    next,      \* the one to open a socket for
    waiting,   \* the sockets it polls
    answer,    \* what the network said to each socket so far
    open,      \* open sockets
    blocks,    \* sockets that block
    handle,    \* the socket it returns, or NoHandle
    late       \* kConnectTimeout is over, or a signal ended poll

cache == <<now, gDNSCache>>
sockets == <<count, next, waiting, answer, open, blocks, handle, late>>
dnsVars == <<cache, at, name, read, sockets>>

NoHandle == -1
Slots == 1..CacheHosts
Sockets == 1..MaxAddresses
Entry == [name : Names, count : Sockets \cap (1..CacheAddresses), expiry : Nat]

DnsTypeOK ==
    /\ now \in 0..MaxTime
    /\ gDNSCache \in [Slots -> Entry \cup {Empty}]
    /\ at \in [Workers -> {"idle", "copy", "resolve", "store", "open", "poll", "close"}]
    /\ name \in [Workers -> Names \cup {Empty}]
    /\ read \in [Workers -> 0..MaxTime]
    /\ count \in [Workers -> 0..MaxAddresses]
    /\ next \in [Workers -> 1..(MaxAddresses + 1)]
    /\ waiting \in [Workers -> SUBSET Sockets]
    /\ answer \in [Workers -> [Sockets -> {"none", "connected", "failed"}]]
    /\ open \in [Workers -> SUBSET Sockets]
    /\ blocks \in [Workers -> SUBSET Sockets]
    /\ handle \in [Workers -> Sockets \cup {NoHandle}]
    /\ late \in [Workers -> BOOLEAN]

DnsInit ==
    /\ now = 0
    /\ gDNSCache = [i \in Slots |-> Empty]
    /\ at = [w \in Workers |-> "idle"]
    /\ name = [w \in Workers |-> Empty]
    /\ read = [w \in Workers |-> 0]
    /\ count = [w \in Workers |-> 0]
    /\ next = [w \in Workers |-> 1]
    /\ waiting = [w \in Workers |-> {}]
    /\ answer = [w \in Workers |-> [s \in Sockets |-> "none"]]
    /\ open = [w \in Workers |-> {}]
    /\ blocks = [w \in Workers |-> {}]
    /\ handle = [w \in Workers |-> NoHandle]
    /\ late = [w \in Workers |-> FALSE]

Set(f, w, value) == f' = [f EXCEPT ![w] = value]
MoveTo(w, place) == Set(at, w, place)

-----------------------------------------------------------------------------
(* The table *)

Holds(i, n) == gDNSCache[i] # Empty /\ gDNSCache[i].name = n
Expired(i, time) == gDNSCache[i] # Empty /\ gDNSCache[i].expiry <= time
Vacant(i, time) == gDNSCache[i] = Empty \/ Expired(i, time)

\* Mutant: the first slot that is vacant is taken, wherever the name is.
VacantFirst(n, time) ==
    IF \E i \in Slots : Vacant(i, time)
      THEN Min({i \in Slots : Vacant(i, time)})
      ELSE CHOOSE i \in Slots : \A j \in Slots : gDNSCache[i].expiry <= gDNSCache[j].expiry

\* The slot of the name, or the first that is vacant, or the one to expire first.
SlotFor(n, time) ==
    LET own == {i \in Slots : Holds(i, n)}
        vacant == {i \in Slots : Vacant(i, time)}
        oldest == {i \in Slots : \A j \in Slots : gDNSCache[i].expiry <= gDNSCache[j].expiry}
    IN Min(IF own # {} THEN own ELSE IF vacant # {} THEN vacant ELSE oldest)

ConnectToHost(w, n) ==
    /\ at[w] = "idle"
    /\ MoveTo(w, "copy") /\ Set(name, w, n) /\ Set(read, w, now)
    /\ Set(handle, w, NoHandle)
    /\ Set(open, w, {}) /\ Set(blocks, w, {})
    /\ UNCHANGED <<cache, count, next, waiting, answer, late>>

\* The addresses are copied out of the table under the lock (of the one slot that
\* the name has: OneEntryPerName). The time a worker read is set to 0 where the code
\* does not look at it again.
DnsCacheCopy(w) ==
    /\ at[w] = "copy"
    /\ LET hits == {i \in Slots : Holds(i, name[w]) /\ ~Expired(i, read[w])}
       IN \/ hits = {} /\ MoveTo(w, "resolve") /\ UNCHANGED count
          \/ \E i \in hits : MoveTo(w, "open") /\ Set(count, w, gDNSCache[i].count)
    /\ Set(read, w, 0)
    /\ UNCHANGED <<cache, name, next, waiting, answer, open, blocks, handle, late>>

\* getaddrinfo fails, or gives addresses, and the time is read before the lock is taken.
GetAddrInfo(w) ==
    /\ at[w] = "resolve"
    /\ \/ \E n \in 1..MaxAddresses : MoveTo(w, "store") /\ Set(count, w, n) /\ Set(read, w, now)
       \/ MoveTo(w, "close") /\ UNCHANGED <<count, read>>
    /\ UNCHANGED <<cache, name, next, waiting, answer, open, blocks, handle, late>>

\* As many addresses are kept as the entry has place for and as fit; nothing is, if none
\* does or the name is too long.
DnsCacheStore(w) ==
    /\ at[w] = "store"
    /\ \/ UNCHANGED gDNSCache
       \/ \E n \in 1..CacheAddresses :
              /\ n <= count[w]
              /\ gDNSCache' = [gDNSCache EXCEPT ![SlotFor(name[w], read[w])] =
                     [name |-> name[w], count |-> n, expiry |-> read[w] + CacheSeconds]]
    /\ MoveTo(w, "open") /\ Set(read, w, 0)
    /\ UNCHANGED <<now, name, sockets>>

-----------------------------------------------------------------------------
(* The race *)

\* Mutant: the sockets that wait are forgotten when one is connected at once.
ReachedAndForgotten(w, s) ==
    /\ Set(open, w, open[w] \cup {s}) /\ Set(waiting, w, {})
    /\ Set(handle, w, s) /\ Set(blocks, w, {s}) /\ MoveTo(w, "poll")
    /\ UNCHANGED answer

\* connect succeeds at once: the others are closed.
Reached(w, s) ==
    /\ Set(open, w, (open[w] \cup {s}) \ waiting[w]) /\ Set(waiting, w, {})
    /\ Set(handle, w, s) /\ Set(blocks, w, {s}) /\ MoveTo(w, "poll")
    /\ UNCHANGED answer

InProgress(w, s) ==
    /\ Set(open, w, open[w] \cup {s}) /\ Set(waiting, w, waiting[w] \cup {s})
    /\ UNCHANGED <<at, answer, handle, blocks>>

\* There is no socket, or connect fails and it is closed.
Unreached(w, s) ==
    /\ Set(answer, w, [answer[w] EXCEPT ![s] = "failed"])
    /\ UNCHANGED <<at, open, waiting, handle, blocks>>

OpenSocket(w) ==
    /\ at[w] = "open" /\ next[w] <= count[w]
    /\ LET s == next[w] IN Reached(w, s) \/ InProgress(w, s) \/ Unreached(w, s)
    /\ Set(next, w, next[w] + 1)
    /\ UNCHANGED <<cache, name, read, count, late>>

AllOpened(w) ==
    /\ at[w] = "open" /\ next[w] > count[w]
    /\ MoveTo(w, "poll")
    /\ UNCHANGED <<cache, name, read, sockets>>

\* The network answers a socket, or the time is over.
Answer(w, s) ==
    /\ s \in waiting[w] /\ answer[w][s] = "none"
    /\ \E said \in {"connected", "failed"} :
           Set(answer, w, [answer[w] EXCEPT ![s] = said])
    /\ UNCHANGED <<cache, at, name, read, count, next, waiting, open, blocks, handle, late>>

RunsLate(w) ==
    /\ at[w] = "poll" /\ ~late[w]
    /\ Set(late, w, TRUE)
    /\ UNCHANGED <<cache, at, name, read, count, next, waiting, answer, open, blocks, handle>>

Ready(w) == {s \in waiting[w] : answer[w][s] # "none"}
Connected(w) == {s \in waiting[w] : answer[w][s] = "connected"}

\* Mutant: the sockets that poll did not report are given up with the failed ones.
KeepNone(w, failed) == {}

\* The sockets that wait on: poll has not reported them, or the scan ended before them.
Kept(w, failed) == waiting[w] \ failed

\* The scan finds a socket connected: it has closed those before it that failed.
ScanFinds(w, s) ==
    LET failed == {t \in Ready(w) : t < s}
    IN /\ s \in Connected(w) /\ \A t \in Connected(w) : s <= t
       /\ Set(open, w, open[w] \ failed) /\ Set(waiting, w, Kept(w, failed) \ {s})
       /\ Set(blocks, w, {s}) /\ Set(handle, w, s)

\* It finds none, and closes all that failed.
ScanFindsNone(w) ==
    /\ Connected(w) = {}
    /\ Set(open, w, open[w] \ Ready(w)) /\ Set(waiting, w, Kept(w, Ready(w)))
    /\ UNCHANGED <<blocks, handle>>

\* poll returns, and the sockets are looked at in order.
Scan(w) ==
    /\ at[w] = "poll" /\ handle[w] = NoHandle /\ Ready(w) # {}
    /\ ScanFindsNone(w) \/ \E s \in Sockets : ScanFinds(w, s)
    /\ UNCHANGED <<cache, at, name, read, count, next, answer, late>>

EndPoll(w) ==
    /\ at[w] = "poll"
    /\ handle[w] # NoHandle \/ waiting[w] = {} \/ late[w]
    /\ MoveTo(w, "close")
    /\ UNCHANGED <<cache, name, read, sockets>>

CloseRest(w) ==
    /\ at[w] = "close"
    /\ Set(open, w, open[w] \ waiting[w]) /\ Set(waiting, w, {})
    /\ Set(count, w, 0) /\ Set(next, w, 1) /\ Set(name, w, Empty)
    /\ Set(answer, w, [s \in Sockets |-> "none"]) /\ Set(late, w, FALSE)
    /\ MoveTo(w, "idle")
    /\ UNCHANGED <<cache, read, blocks, handle>>

-----------------------------------------------------------------------------

Tick ==
    /\ now < MaxTime
    /\ now' = now + 1
    /\ UNCHANGED <<gDNSCache, at, name, read, sockets>>

DnsStep(w) ==
    \/ DnsCacheCopy(w) \/ GetAddrInfo(w) \/ DnsCacheStore(w)
    \/ OpenSocket(w) \/ AllOpened(w) \/ Scan(w) \/ EndPoll(w) \/ CloseRest(w)

DnsNext ==
    \/ \E w \in Workers :
          \/ DnsStep(w) \/ RunsLate(w)
          \/ \E n \in Names : ConnectToHost(w, n)
          \/ \E s \in Sockets : Answer(w, s)
    \/ Tick

DnsSpec == DnsInit /\ [][DnsNext]_dnsVars

-----------------------------------------------------------------------------
(* Properties *)

\* The table holds a name once, whichever workers resolve it at the same time: with
\* two, a stale one could be found after the other was renewed.
OneEntryPerName ==
    \A n \in Names, i, j \in Slots : Holds(i, n) /\ Holds(j, n) => i = j

\* When connectToHost returns, the socket it returns is the only one that is left
\* open, and it blocks, which the timeouts that are set on it need.
OthersAreClosed ==
    \A w \in Workers :
        at[w] = "idle" =>
            /\ open[w] = {handle[w]} \ {NoHandle}
            /\ open[w] \subseteq blocks[w]

\* It gives up on a name only when the time is over or every address has failed: a
\* failed address does not end the race of the others.
FailsForAReason ==
    \A w \in Workers :
        at[w] = "close" /\ handle[w] = NoHandle =>
            late[w] \/ \A a \in open[w] : answer[w][a] = "failed"
=============================================================================
