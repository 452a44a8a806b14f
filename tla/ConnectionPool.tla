---------------------------- MODULE ConnectionPool ----------------------------
(***************************************************************************)
(* The pool of idle TLS connections and the loop of performRequest that    *)
(* uses it (app/ModernTLSURLProtocol.m: ModernTLSConnection's idle state,  *)
(* expireIdleConnections, takeIdleConnection, returnIdleConnection,        *)
(* performRequest).  A request is written in one step and answered in      *)
(* another, with the outcomes of exchangeOn; UrlExchange opens those up.   *)
(*                                                                         *)
(* gPoolMutex is held at the program counters in `LockedAt'.  Each of its  *)
(* critical sections is entered in one step and left in another, so time,  *)
(* peers and the unlocked steps of other requests interleave with it.      *)
(***************************************************************************)
EXTENDS Naturals, Sequences, SequencesExt

CONSTANTS
    Requests,     \* workers, one performRequest each
    Conns,        \* connection objects; a closed one stands for a new one
    Hosts,        \* the "host:port" keys of gIdleConnections
    NoConn,       \* a request holds no connection
    IdlePerHost,  \* kIdlePerHost
    IdleTimeout   \* kIdleTimeout, in ticks

ASSUME ConstantsAssumption ==
    /\ NoConn \notin Conns
    /\ IdlePerHost \in Nat \ {0}
    /\ IdleTimeout \in Nat

VARIABLES
    pool,        \* gIdleConnections: for each key the bucket, appended at the end
    open,        \* connections that are not shut down
    wire,        \* what waits to be read on a connection that is not in use
    idleAge,     \* now - _idleSince
    pc,          \* where performRequest is
    host,        \* the key of the request
    held,        \* the connection it holds
    pooled,      \* performRequest's `pooled'
    validating,  \* the request carries validators of a stored entry
    cancelled,   \* stopLoading was called
    attempts     \* exchanges begun

connVars == <<pool, open, wire, idleAge>>
vars == <<pool, open, wire, idleAge, pc, host, held, pooled, validating,
          cancelled, attempts>>

\* "leftover" bytes sit in _buffer or in SSL_pending, "bytes" on the socket.
WireStates == {"quiet", "ticket", "bytes", "leftover", "gone"}

Locations == {"idle", "take", "takeLocked", "probe", "connect", "begin",
              "exchange", "returnProbe", "store", "storeLocked", "done"}

TypeOK ==
    /\ pool \in [Hosts -> Seq(Conns)]
    /\ \A h \in Hosts : Len(pool[h]) <= IdlePerHost
    /\ open \subseteq Conns
    /\ wire \in [Conns -> WireStates]
    /\ idleAge \in [Conns -> 0..(IdleTimeout + 1)]
    /\ pc \in [Requests -> Locations]
    /\ host \in [Requests -> Hosts]
    /\ held \in [Requests -> Conns \cup {NoConn}]
    /\ pooled \in [Requests -> BOOLEAN]
    /\ validating \in [Requests -> BOOLEAN]
    /\ cancelled \in [Requests -> BOOLEAN]
    /\ attempts \in [Requests -> Nat]

Init ==
    /\ pool = [h \in Hosts |-> <<>>]
    /\ open = {}
    /\ wire = [c \in Conns |-> "quiet"]
    /\ idleAge = [c \in Conns |-> 0]
    /\ pc = [r \in Requests |-> "idle"]
    /\ host \in [Requests -> Hosts]
    /\ held = [r \in Requests |-> NoConn]
    /\ pooled = [r \in Requests |-> FALSE]
    /\ validating = [r \in Requests |-> FALSE]
    /\ cancelled = [r \in Requests |-> FALSE]
    /\ attempts = [r \in Requests |-> 0]

Goto(r, location) == pc' = [pc EXCEPT ![r] = location]

-----------------------------------------------------------------------------
(* gPoolMutex.                                                             *)

\* Mutant: returnIdleConnection locks before it probes.
LockedAtAndProbing == {"takeLocked", "storeLocked", "returnProbe"}

LockedAt == {"takeLocked", "storeLocked"}

LockFree == \A r \in Requests : pc[r] \notin LockedAt

-----------------------------------------------------------------------------
(* ModernTLSConnection.                                                    *)

\* -shutdown, and the object goes: its fields return to their initial values.
Shutdown(cs) ==
    /\ open' = open \ cs
    /\ wire' = [c \in Conns |-> IF c \in cs THEN "quiet" ELSE wire[c]]
    /\ idleAge' = [c \in Conns |-> IF c \in cs THEN 0 ELSE idleAge[c]]

\* -isUsable: young enough, no bytes of the last response left, and its
\* one-byte read finds at most a session ticket on the socket.
IsUsable(c) == idleAge[c] <= IdleTimeout /\ wire[c] \in {"quiet", "ticket"}

\* That read hands a ticket to rememberSession, which locks gPoolMutex.
ProbeMayRun(c) ==
    idleAge[c] <= IdleTimeout /\ wire[c] = "ticket" => LockFree

ProbedWire(c) == [wire EXCEPT ![c] = IF @ = "ticket" THEN "quiet" ELSE @]

-----------------------------------------------------------------------------
(* The pool, inside the lock.                                              *)

\* expireIdleConnections shuts down from the front and stops at the first
\* connection young enough: the length of the expired prefix.
Expirable(bucket) ==
    Cardinality({n \in DOMAIN bucket :
                    \A i \in 1..n : idleAge[bucket[i]] > IdleTimeout})

\* returnIdleConnection shuts down from the front while there are too many.
Excess(bucket) ==
    IF Len(bucket) > IdlePerHost THEN Len(bucket) - IdlePerHost ELSE 0

\* Mutant: removed from the back while shut down at the front.
KeptAtFront(bucket, n) == SubSeq(bucket, 1, Len(bucket) - n)

\* A bucket whose first n connections went, and those.
Kept(bucket, n) == SubSeq(bucket, n + 1, Len(bucket))
Removed(bucket, n) == {bucket[i] : i \in 1..n}

\* Mutant: what was handed out stays in the bucket.
NotRemoved(bucket) == bucket

\* -removeLastObject, after -lastObject was handed out.
WithoutNewest(bucket) == Front(bucket)

Expired == [h \in Hosts |-> Kept(pool[h], Expirable(pool[h]))]
ExpiredConns == UNION {Removed(pool[h], Expirable(pool[h])) : h \in Hosts}

-----------------------------------------------------------------------------
(* performRequest.                                                         *)

\* Answered from the cache, or on to the network, perhaps with validators.
Start(r) ==
    /\ pc[r] = "idle"
    /\ \/ /\ Goto(r, "done")
          /\ UNCHANGED validating
       \/ /\ Goto(r, "take")
          /\ \E v \in BOOLEAN : validating' = [validating EXCEPT ![r] = v]
    /\ UNCHANGED <<connVars, host, held, pooled, cancelled, attempts>>

EnterTake(r) ==
    /\ pc[r] = "take"
    /\ LockFree
    /\ Goto(r, "takeLocked")
    /\ UNCHANGED <<connVars, host, held, pooled, validating, cancelled, attempts>>

\* takeIdleConnection's critical section: expire everywhere, pop the newest.
TakeLocked(r) ==
    /\ pc[r] = "takeLocked"
    /\ LET bucket == Expired[host[r]]
       IN  IF bucket = <<>>
           THEN /\ pool' = Expired
                /\ held' = held
                /\ Goto(r, "connect")
           ELSE /\ pool' = [Expired EXCEPT ![host[r]] = WithoutNewest(bucket)]
                /\ held' = [held EXCEPT ![r] = Last(bucket)]
                /\ Goto(r, "probe")
    /\ Shutdown(ExpiredConns)
    /\ UNCHANGED <<host, pooled, validating, cancelled, attempts>>

\* takeIdleConnection probes outside the lock and tries the next one.  What
\* the probe found may be stale by the time the request is written.
ProbeTaken(r) ==
    /\ pc[r] = "probe"
    /\ ProbeMayRun(held[r])
    /\ \/ /\ IsUsable(held[r])
          /\ wire' = ProbedWire(held[r])
          /\ pooled' = [pooled EXCEPT ![r] = TRUE]
          /\ Goto(r, "begin")
          /\ UNCHANGED <<open, idleAge, held>>
       \/ /\ ~IsUsable(held[r])
          /\ Shutdown({held[r]})
          /\ held' = [held EXCEPT ![r] = NoConn]
          /\ Goto(r, "take")
          /\ UNCHANGED pooled
    /\ UNCHANGED <<pool, host, validating, cancelled, attempts>>

\* connectionToHost: it locks to copy the session it offers.
Connect(r) ==
    /\ pc[r] = "connect"
    /\ LockFree
    /\ \E c \in Conns \ open :
          /\ open' = open \cup {c}
          /\ held' = [held EXCEPT ![r] = c]
    /\ Goto(r, "begin")
    /\ UNCHANGED <<pool, wire, idleAge, host, pooled, validating, cancelled,
                   attempts>>

ConnectFails(r) ==
    /\ pc[r] = "connect"
    /\ LockFree
    /\ Goto(r, "done")
    /\ UNCHANGED <<connVars, host, held, pooled, validating, cancelled, attempts>>

\* beginExchange and writeData: the request goes out on whatever became of
\* the connection since it was probed or made.
BeginExchange(r) ==
    /\ pc[r] = "begin"
    /\ attempts' = [attempts EXCEPT ![r] = @ + 1]
    /\ Goto(r, "exchange")
    /\ UNCHANGED <<connVars, host, held, pooled, validating, cancelled>>

DropConnection(r) ==
    /\ Shutdown({held[r]})
    /\ held' = [held EXCEPT ![r] = NoConn]
    /\ UNCHANGED pool

\* Mutant: the flag is left set when the loop goes round.
StillPooled(r) == pooled

PooledAfterRetry(r) == [pooled EXCEPT ![r] = FALSE]

\* ModernTLSExchangeMismatched: again without validators, on a connection of
\* its own.
Mismatched(r) ==
    /\ pc[r] = "exchange"
    /\ validating[r]
    /\ validating' = [validating EXCEPT ![r] = FALSE]
    /\ pooled' = PooledAfterRetry(r)
    /\ DropConnection(r)
    /\ Goto(r, "connect")
    /\ UNCHANGED <<host, cancelled, attempts>>

\* ModernTLSExchangeUnanswered: again if the connection came from the pool.
Unanswered(r) ==
    /\ pc[r] = "exchange"
    /\ DropConnection(r)
    /\ \/ /\ pooled[r]
          /\ pooled' = PooledAfterRetry(r)
          /\ Goto(r, "connect")
       \/ /\ ~pooled[r]
          /\ Goto(r, "done")
          /\ UNCHANGED pooled
    /\ UNCHANGED <<host, validating, cancelled, attempts>>

\* ModernTLSExchangeSpent, or Reusable but cancelled.
Spent(r) ==
    /\ pc[r] = "exchange"
    /\ DropConnection(r)
    /\ Goto(r, "done")
    /\ UNCHANGED <<host, pooled, validating, cancelled, attempts>>

\* ModernTLSExchangeReusable: returnIdleConnection marks the connection idle.
\* Whatever the server sent after the response is now on the wire.
Reusable(r) ==
    /\ pc[r] = "exchange"
    /\ ~cancelled[r]
    /\ \E w \in WireStates : wire' = [wire EXCEPT ![held[r]] = w]
    /\ idleAge' = [idleAge EXCEPT ![held[r]] = 0]
    /\ validating' = [validating EXCEPT ![r] = FALSE]
    /\ Goto(r, "returnProbe")
    /\ UNCHANGED <<pool, open, host, held, pooled, cancelled, attempts>>

\* ...probes it before locking, because the probe may need the lock...
ProbeReturned(r) ==
    /\ pc[r] = "returnProbe"
    /\ ProbeMayRun(held[r])
    /\ \/ /\ IsUsable(held[r])
          /\ wire' = ProbedWire(held[r])
          /\ Goto(r, "store")
          /\ UNCHANGED <<pool, open, idleAge, held>>
       \/ /\ ~IsUsable(held[r])
          /\ DropConnection(r)
          /\ Goto(r, "done")
    /\ UNCHANGED <<host, pooled, validating, cancelled, attempts>>

EnterStore(r) ==
    /\ pc[r] = "store"
    /\ LockFree
    /\ Goto(r, "storeLocked")
    /\ UNCHANGED <<connVars, host, held, pooled, validating, cancelled, attempts>>

\* ...and in the lock expires, appends and trims.
StoreLocked(r) ==
    /\ pc[r] = "storeLocked"
    /\ LET bucket == Append(Expired[host[r]], held[r])
           n == Excess(bucket)
       IN  /\ pool' = [Expired EXCEPT ![host[r]] = Kept(bucket, n)]
           /\ Shutdown(ExpiredConns \cup Removed(bucket, n))
    /\ held' = [held EXCEPT ![r] = NoConn]
    /\ Goto(r, "done")
    /\ UNCHANGED <<host, pooled, validating, cancelled, attempts>>

-----------------------------------------------------------------------------
(* The environment.                                                        *)

\* -stopLoading
Cancel(r) ==
    /\ pc[r] \notin {"idle", "done"}
    /\ ~cancelled[r]
    /\ cancelled' = [cancelled EXCEPT ![r] = TRUE]
    /\ UNCHANGED <<connVars, pc, host, held, pooled, validating, attempts>>

InExchange(c) == \E r \in Requests : pc[r] = "exchange" /\ held[r] = c

\* A server sends a ticket or bytes nobody asked for, or closes.
PeerActs(c) ==
    /\ c \in open
    /\ ~InExchange(c)
    /\ \/ wire[c] = "quiet" /\ wire' = [wire EXCEPT ![c] = "ticket"]
       \/ wire[c] \in {"quiet", "ticket"} /\ wire' = [wire EXCEPT ![c] = "bytes"]
       \/ wire[c] # "gone" /\ wire[c] # "leftover"
          /\ wire' = [wire EXCEPT ![c] = "gone"]
    /\ UNCHANGED <<pool, open, idleAge, pc, host, held, pooled, validating,
                   cancelled, attempts>>

\* The age of a connection is not read again once it was found usable, until
\* the next markIdle resets it.
PastProbe(c) == \E r \in Requests : pc[r] \in {"begin", "exchange"} /\ held[r] = c

Tick ==
    /\ idleAge' = [c \in Conns |->
          IF c \in open /\ ~PastProbe(c) /\ idleAge[c] <= IdleTimeout
          THEN idleAge[c] + 1 ELSE idleAge[c]]
    /\ UNCHANGED <<pool, open, wire, pc, host, held, pooled, validating,
                   cancelled, attempts>>

PerformRequest(r) ==
    \/ Start(r) \/ EnterTake(r) \/ TakeLocked(r) \/ ProbeTaken(r)
    \/ Connect(r) \/ ConnectFails(r) \/ BeginExchange(r) \/ Mismatched(r)
    \/ Unanswered(r) \/ Spent(r) \/ Reusable(r) \/ ProbeReturned(r)
    \/ EnterStore(r) \/ StoreLocked(r)

Next ==
    \/ \E r \in Requests : PerformRequest(r) \/ Cancel(r)
    \/ \E c \in Conns : PeerActs(c)
    \/ Tick

Spec == Init /\ [][Next]_vars

\* Every worker keeps running: each blocking call has a timeout, and a
\* critical section of gPoolMutex waits for nothing.
Fairness == \A r \in Requests : WF_vars(PerformRequest(r))

FairSpec == Spec /\ Fairness

-----------------------------------------------------------------------------
(* Properties.                                                             *)

Members(p) == UNION {ToSet(p[h]) : h \in Hosts}

Pooled == Members(pool)

\* No connection occurs twice in the buckets of p.
Distinct(p) ==
    \A g, h \in Hosts : \A i \in DOMAIN p[g], j \in DOMAIN p[h] :
        p[g][i] = p[h][j] => g = h /\ i = j

Holding == {r \in Requests : held[r] # NoConn}

\* A connection has one owner: a request or one place in one bucket.  Two
\* owners would interleave two exchanges on one socket.
OneOwner ==
    /\ \A q, r \in Holding : held[q] = held[r] => q = r
    /\ \A r \in Holding : held[r] \notin Pooled
    /\ Distinct(pool)

\* The connections that are open are those with an owner: nothing that was
\* shut down is left in the pool or used, and nothing open is lost.
OpenAreOwned == open = Pooled \cup {held[r] : r \in Holding}

\* A server may close a connection after the probe found it usable, so a
\* request may go out in vain and is sent again.  performRequest sends it at
\* most three times (pooled, then for a mismatch or an unanswered first try)
\* and repeats it only on "a connection of its own making"
\* (docs/network.md:66): however often probes go stale, the loop ends.
RetriesBounded ==
    \A r \in Requests :
        attempts[r] <= 3 /\ (attempts[r] >= 2 => ~pooled[r])

\* Every request that asked the pool ends, although probes take the lock.
EveryRequestFinishes == \A r \in Requests : pc[r] = "take" ~> pc[r] = "done"
=============================================================================
