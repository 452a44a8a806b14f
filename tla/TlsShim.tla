------------------------------- MODULE TlsShim -------------------------------
(***************************************************************************)
(* Secure Transport over OpenSSL (platform/safari/tls-openssl.c): the      *)
(* entry points CFNetwork calls, the list of Session structures behind     *)
(* sessionsLock, and the sessions kept per host behind g_sessionsLock.     *)
(*                                                                         *)
(* A call is a step that finds or makes the Session under the lock, then   *)
(* steps that use the pointer without it.  CFNetwork drives different      *)
(* contexts from different threads and each context from one at a time, so *)
(* there is one caller per context.  The two locks are never nested and    *)
(* nothing blocks under them: a critical section is one step.              *)
(*                                                                         *)
(* OpenSSL is external.  A Session's `ssl' is "none", "bare" (SSL_new      *)
(* succeeded, BIO_new did not), "ready" (bound to the transport), "up" or  *)
(* "broken"; an SSL_SESSION is its reference count and, for the properties *)
(* only, the host it was made with.                                        *)
(***************************************************************************)
EXTENDS SessionTable, Integers, FiniteSets

CONSTANTS
    Contexts,    \* SSLContextRef values; one that was closed may be used again
    Objs,        \* addresses of Session structures
    None,
    RecordSize,  \* bytes in a record
    MaxRecords,  \* bound: records a peer sends on one connection
    MaxLength,   \* bound: the length asked of SSLRead
    Faults,      \* bound: which kinds of failure happen
    Busy         \* bound: contexts that do more than connect and close

ASSUME ShimAssumption ==
    /\ None \notin Objs \cup Contexts
    /\ RecordSize \in Nat \ {0}
    /\ MaxRecords \in Nat
    /\ MaxLength \in Nat \ {0}
    /\ Busy \subseteq Contexts

VARIABLES
    sessions,  \* the list: Session structures that are allocated and linked
    obj,       \* their fields
    table,     \* g_sessions
    live,      \* SSL_SESSIONs: their reference counts, and the host each was made with
    pc,        \* for each context, where the call on it is
    at,        \* the pointer sessionFor returned to that call
    held,      \* the SSL_SESSION that rememberSession holds
    want,      \* the length asked of SSLRead
    filled,    \* SSLRead's `filled'
    buffered,  \* what SSLGetBufferedReadSize said since the last read
    named,     \* the name the caller gave the context
    stream     \* the connection, seen from outside

readVars == <<want, filled, buffered>>
vars == <<sessions, obj, table, live, pc, at, held, want, filled,
          buffered, named, stream>>

-----------------------------------------------------------------------------

SslStates == {"none", "bare", "ready", "up", "broken"}

\* struct Session, without the transport's argument and what is kept for the log.
Session == [context : Contexts \cup {None}, io : BOOLEAN,
            host : Hosts \cup {NoHost}, ssl : SslStates,
            session : SslSessions \cup {NoSession},
            handshakeDone : BOOLEAN, failed : BOOLEAN, awaitingFirstByte : BOOLEAN]

SslSession == [refs : Int, host : Hosts \cup {NoHost}]
Freed == [refs |-> 0, host |-> NoHost]

\* calloc, and the context.
Zeroed(c) == [context |-> c, io |-> FALSE, host |-> NoHost, ssl |-> "none",
              session |-> NoSession, handshakeDone |-> FALSE, failed |-> FALSE,
              awaitingFirstByte |-> FALSE]

\* Of the bytes `sent' by the peer OpenSSL has decrypted `opened', and the caller
\* was given `told'.  `ticket': that of a TLS 1.3 server.  `ending': what
\* SSLRead said of the end.
Stream == [sent : Nat, opened : Nat, told : Nat, ticket : {"none", "arrived", "taken"},
           peer : {"open", "notified", "gone"},
           ending : {"none", "graceful", "abort"}]
NewStream == [sent |-> 0, opened |-> 0, told |-> 0, ticket |-> "none",
              peer |-> "open", ending |-> "none"]

\* Where a call may be when another context's runs.
Places == {"idle", "SSLHandshake", "shake", "remember", "store", "drop",
           "reading", "SSLClose"}

TypeOK ==
    /\ sessions \subseteq Objs
    /\ obj \in [Objs -> Session]
    /\ table \in [Slot -> Entry]
    /\ live \in [SslSessions -> SslSession]
    /\ pc \in [Contexts -> Places]
    /\ at \in [Contexts -> Objs \cup {None}]
    /\ held \in [Contexts -> SslSessions \cup {NoSession}]
    /\ want \in [Contexts -> Nat]
    /\ filled \in [Contexts -> Nat]
    /\ buffered \in [Contexts -> {"unknown", "none", "some"}]
    /\ named \in [Contexts -> Hosts \cup {NoHost}]
    /\ stream \in [Contexts -> Stream]

Init ==
    /\ sessions = {}
    /\ obj = [o \in Objs |-> Zeroed(None)]
    /\ table = [i \in Slot |-> Empty]
    /\ live = [s \in SslSessions |-> Freed]
    /\ pc = [c \in Contexts |-> "idle"]
    /\ at = [c \in Contexts |-> None]
    /\ held = [c \in Contexts |-> NoSession]
    /\ want = [c \in Contexts |-> 0]
    /\ filled = [c \in Contexts |-> 0]
    /\ buffered = [c \in Contexts |-> "unknown"]
    /\ named = [c \in Contexts |-> NoHost]
    /\ stream = [c \in Contexts |-> NewStream]

-----------------------------------------------------------------------------
(* The list of Session structures *)

\* Mutant: the walk stops at the first structure, whatever its context.
OwnAny(c) == sessions

\* What a walk along the list finds.
Own(c) == {o \in sessions : obj[o].context = c}

Secured(c) == \E o \in Own(c) : obj[o].handshakeDone

\* SSLGetSessionState.
Phase(c) ==
    LET started == {o \in Own(c) : obj[o].ssl # "none"}
    IN  CASE started = {} -> "idle"
          [] \E o \in started : obj[o].failed -> "closed"
          [] \E o \in started : ~obj[o].failed /\ obj[o].handshakeDone -> "connected"
          [] OTHER -> "handshake"

\* sessionFor(context, false), by which an entry point begins.
Find(c) ==
    /\ \/ \E o \in Own(c) : at' = [at EXCEPT ![c] = o]
       \/ Own(c) = {} /\ UNCHANGED at
    /\ UNCHANGED <<sessions, obj>>

\* sessionFor(context, true) may as well link one that calloc returns.
Addressed(c) == IF Own(c) = {} THEN Objs \ sessions ELSE Own(c)
Fields(c, o) == IF o \in sessions THEN obj[o] ELSE Zeroed(c)
Link(c, o, fields) ==
    /\ sessions' = sessions \cup {o}
    /\ obj' = [obj EXCEPT ![o] = fields]

Put(o, fields) == obj' = [obj EXCEPT ![o] = fields]
Enter(c, place) == pc' = [pc EXCEPT ![c] = place]
Return(c) ==
    /\ pc' = [pc EXCEPT ![c] = "idle"]
    /\ at' = [at EXCEPT ![c] = None]

\* The setters use the structure at once and on their own: no call on another
\* context can tell when.  CFNetwork sets a context up before the handshake.  When
\* calloc fails nothing is set.
MaySet(c) == pc[c] = "idle" /\ Phase(c) = "idle"

SSLSetIOFuncs(c) ==
    /\ MaySet(c)
    /\ \E o \in Addressed(c) : Link(c, o, [Fields(c, o) EXCEPT !.io = TRUE])
    /\ UNCHANGED <<table, live, pc, at, held, readVars, named, stream>>

SSLSetConnection(c) ==
    /\ MaySet(c)
    /\ \E o \in Addressed(c) : Link(c, o, Fields(c, o))
    /\ UNCHANGED <<table, live, pc, at, held, readVars, named, stream>>

SSLSetPeerDomainName(c) ==
    /\ MaySet(c) /\ named[c] = NoHost
    /\ \E h \in Hosts :
          /\ \E o \in Addressed(c) : Link(c, o, [Fields(c, o) EXCEPT !.host = h])
          /\ named' = [named EXCEPT ![c] = h]
    /\ UNCHANGED <<table, live, pc, at, held, readVars, stream>>

-----------------------------------------------------------------------------
(* References to SSL_SESSIONs, and the handshake *)

\* Mutant: the reference that is given up is not released.
ExchangedKeeping(old, new) ==
    [s \in SslSessions |->
        [live[s] EXCEPT !.refs = @ + (IF s = new THEN 1 ELSE 0)]]

\* The counts when a holder's reference to `old' becomes one to `new': what is given up
\* is freed, as SSL_SESSION_free does with the last reference.
Exchanged(old, new) ==
    [s \in SslSessions |->
        LET n == live[s].refs + (IF s = new THEN 1 ELSE 0) - (IF s = old THEN 1 ELSE 0)
        IN  IF n = 0 THEN Freed ELSE [live[s] EXCEPT !.refs = n]]

\* OpenSSL gives a connection a session of its own: which address it gets is of no
\* consequence, so one is as good as all.
NewSslSession(c) ==
    /\ \E s \in SslSessions : live[s] = Freed
    /\ LET o == at[c]
           s == CHOOSE x \in SslSessions : live[x] = Freed
       IN  /\ live' = [Exchanged(obj[o].session, s) EXCEPT ![s].host = named[c]]
           /\ Put(o, [obj[o] EXCEPT !.session = s, !.ssl = "up", !.handshakeDone = TRUE])

\* applyRememberedSession, and the reference that SSL_set_session takes.
Offered(host) ==
    IF host = NoHost
      THEN {}
      ELSE {table[SlotOf(host, p)].session : p \in {q \in Probe : OffersAt(table, host, q)}}

\* SSLHandshake.  errSSLInternal without a structure or a transport.
CallHandshake(c) ==
    /\ pc[c] = "idle"
    /\ \/ Find(c)
       \/ \E o \in Addressed(c) :
             Link(c, o, Fields(c, o)) /\ at' = [at EXCEPT ![c] = o]
    /\ Enter(c, "SSLHandshake")
    /\ UNCHANGED <<table, live, readVars, held, named, stream>>

AnswerHandshake(c) ==
    /\ pc[c] = "SSLHandshake"
    /\ IF at[c] = None THEN TRUE ELSE ~obj[at[c]].io \/ obj[at[c]].handshakeDone
    /\ Return(c)
    /\ UNCHANGED <<sessions, obj, table, live, readVars, held, named, stream>>

Begins(c) ==
    /\ pc[c] = "SSLHandshake" /\ at[c] # None
    /\ obj[at[c]].io /\ ~obj[at[c]].handshakeDone

\* startSession: there is nothing to do when there is an SSL, even one left without
\* a BIO by an earlier failure.
FailToStart(c) ==
    /\ Begins(c) /\ obj[at[c]].ssl = "none"
    /\ "start" \in Faults
    /\ \E ssl \in {"none", "bare"} :
          Put(at[c], [obj[at[c]] EXCEPT !.ssl = ssl, !.failed = TRUE])
    /\ Return(c)
    /\ UNCHANGED <<sessions, table, live, readVars, held, named, stream>>

StartSession(c) ==
    /\ Begins(c)
    /\ \/ obj[at[c]].ssl # "none" /\ UNCHANGED <<obj, live>>
       \/ /\ obj[at[c]].ssl = "none"
          /\ \E s \in Offered(obj[at[c]].host) :
                /\ live' = Exchanged(NoSession, s)
                /\ Put(at[c], [obj[at[c]] EXCEPT !.ssl = "ready", !.session = s])
       \/ /\ obj[at[c]].ssl = "none" /\ Offered(obj[at[c]].host) = {}
          /\ Put(at[c], [obj[at[c]] EXCEPT !.ssl = "ready"])
          /\ UNCHANGED live
    /\ Enter(c, "shake")
    /\ UNCHANGED <<sessions, table, readVars, at, held, named, stream>>

\* SSL_do_handshake: the server resumes the session offered or makes another.
HandshakeDone(c) ==
    /\ pc[c] = "shake" /\ obj[at[c]].ssl = "ready"
    /\ stream[c].peer = "open"
    /\ \/ NewSslSession(c)
       \/ /\ obj[at[c]].session # NoSession
          /\ Put(at[c], [obj[at[c]] EXCEPT !.ssl = "up", !.handshakeDone = TRUE])
          /\ UNCHANGED live
    /\ Enter(c, "remember")
    /\ UNCHANGED <<sessions, table, readVars, at, held, named, stream>>

HandshakeWouldBlock(c) ==
    /\ pc[c] = "shake" /\ obj[at[c]].ssl = "ready"
    /\ Return(c)
    /\ UNCHANGED <<sessions, obj, table, live, readVars, held, named, stream>>

\* The transport failed, and a later call may go on; or the handshake did.
HandshakeFails(c) ==
    /\ pc[c] = "shake" /\ "handshake" \in Faults
    /\ \E ssl \in {obj[at[c]].ssl, "broken"} :
          Put(at[c], [obj[at[c]] EXCEPT !.ssl = ssl, !.failed = TRUE])
    /\ Return(c)
    /\ UNCHANGED <<sessions, table, live, readVars, held, named, stream>>

-----------------------------------------------------------------------------
(* rememberSession *)

Remember(c) ==
    /\ pc[c] = "remember"
    /\ IF obj[at[c]].host = NoHost
         THEN Return(c) /\ UNCHANGED <<live, held>>
         ELSE /\ held' = [held EXCEPT ![c] = obj[at[c]].session]
              /\ live' = Exchanged(NoSession, obj[at[c]].session)
              /\ Enter(c, "store")
              /\ UNCHANGED at
    /\ UNCHANGED <<sessions, obj, table, readVars, named, stream>>

Store(c) ==
    /\ pc[c] = "store"
    /\ LET host == obj[at[c]].host IN
       \E p \in Probe :
          /\ StoresAt(table, host, p)
          /\ table' = [table EXCEPT ![SlotOf(host, p)] = [host |-> host, session |-> held[c]]]
          /\ live' = Exchanged(table[SlotOf(host, p)].session, NoSession)
    /\ held' = [held EXCEPT ![c] = NoSession]
    /\ Return(c)
    /\ UNCHANGED <<sessions, obj, readVars, named, stream>>

FindNoSlot(c) ==
    /\ pc[c] = "store"
    /\ \A p \in Probe : ~StoresAt(table, obj[at[c]].host, p)
    /\ Enter(c, "drop")
    /\ UNCHANGED <<sessions, obj, table, live, readVars, at, held, named, stream>>

\* Mutant: the session that found no slot is forgotten, and not released.
DropKeeping(c) ==
    /\ pc[c] = "drop"
    /\ held' = [held EXCEPT ![c] = NoSession]
    /\ Return(c)
    /\ UNCHANGED <<sessions, obj, table, live, readVars, named, stream>>

Drop(c) ==
    /\ pc[c] = "drop"
    /\ live' = Exchanged(held[c], NoSession)
    /\ held' = [held EXCEPT ![c] = NoSession]
    /\ Return(c)
    /\ UNCHANGED <<sessions, obj, table, readVars, named, stream>>

-----------------------------------------------------------------------------
(* The stream, closing, and the system's questions *)

\* SSL_pending: what is decrypted and not handed over.
Pending(c) == stream[c].opened - stream[c].told - filled[c]

\* CFNetwork reads while the socket has something for it or bytes are decrypted
\* already, and stops at an end it was told.
CallRead(c) ==
    /\ pc[c] = "idle" /\ Secured(c) /\ stream[c].ending = "none"
    /\ \/ stream[c].sent > stream[c].opened \/ stream[c].ticket = "arrived"
       \/ stream[c].peer # "open"
       \/ buffered[c] = "some"
    /\ Find(c)
    /\ \E n \in 1..MaxLength : want' = [want EXCEPT ![c] = n]
    /\ Enter(c, "reading")
    /\ UNCHANGED <<table, live, filled, buffered, held, named, stream>>

\* SSL_read hands over what it has of one record.
Fill(c) ==
    /\ pc[c] = "reading" /\ Pending(c) > 0 /\ filled[c] < want[c]
    /\ filled' = [filled EXCEPT ![c] =
           IF Pending(c) < want[c] - @ THEN @ + Pending(c) ELSE want[c]]
    /\ UNCHANGED <<sessions, obj, table, live, pc, at, held, want, buffered, named, stream>>

\* It has none, and takes the next record off the transport.
OpenRecord(c) ==
    /\ pc[c] = "reading" /\ Pending(c) = 0 /\ filled[c] < want[c]
    /\ stream[c].ticket # "arrived" /\ stream[c].sent > stream[c].opened
    /\ stream' = [stream EXCEPT ![c].opened = @ + RecordSize]
    /\ UNCHANGED <<sessions, obj, table, live, readVars, pc, at, held, named>>

\* The record is a ticket, by which the connection gets a session to resume.
TakeTicket(c) ==
    /\ pc[c] = "reading" /\ Pending(c) = 0 /\ filled[c] < want[c]
    /\ stream[c].ticket = "arrived"
    /\ stream' = [stream EXCEPT ![c].ticket = "taken"]
    /\ NewSslSession(c)
    /\ UNCHANGED <<sessions, table, readVars, pc, at, held, named>>

Exhausted(c) ==
    \/ filled[c] = want[c]
    \/ Pending(c) = 0 /\ stream[c].ticket # "arrived" /\ stream[c].sent = stream[c].opened

\* Mutant: any end of the stream is told as a graceful one.
AlwaysGraceful(peer) == IF peer = "open" THEN "none" ELSE "graceful"

\* What SSL_get_error makes of a read that got nothing.
EndingOf(peer) ==
    CASE peer = "open" -> "none"
      [] peer = "notified" -> "graceful"
      [] peer = "gone" -> "abort"

EndRead(c) ==
    /\ pc[c] = "reading" /\ Exhausted(c)
    /\ IF filled[c] > 0 /\ obj[at[c]].awaitingFirstByte
         THEN /\ Put(at[c], [obj[at[c]] EXCEPT !.awaitingFirstByte = FALSE])
              /\ Enter(c, "remember")
              /\ UNCHANGED at
         ELSE Return(c) /\ UNCHANGED obj
    /\ IF filled[c] > 0
         THEN stream' = [stream EXCEPT ![c].told = @ + filled[c]]
         ELSE stream' = [stream EXCEPT ![c].ending = EndingOf(stream[c].peer)]
    /\ want' = [want EXCEPT ![c] = 0]
    /\ filled' = [filled EXCEPT ![c] = 0]
    /\ buffered' = [buffered EXCEPT ![c] = "unknown"]
    /\ UNCHANGED <<sessions, table, live, held, named>>

\* Mutant: what OpenSSL holds decrypted does not count.
SocketOnly(c) == "none"

BufferedReadSize(c) == IF Pending(c) > 0 THEN "some" ELSE "none"

SSLGetBufferedReadSize(c) ==
    /\ pc[c] = "idle" /\ Secured(c) /\ c \in Busy /\ buffered[c] = "unknown"
    /\ buffered' = [buffered EXCEPT ![c] = BufferedReadSize(c)]
    /\ UNCHANGED <<sessions, obj, table, live, pc, at, held, want, filled, named, stream>>

\* SSL_write takes the bytes; when the transport does not, nothing is noted.
SSLWrite(c) ==
    /\ pc[c] = "idle" /\ Secured(c) /\ c \in Busy
    /\ \E o \in Own(c) : Put(o, [obj[o] EXCEPT !.awaitingFirstByte = TRUE])
    /\ UNCHANGED <<sessions, table, live, pc, at, held, readVars, named, stream>>

CallClose(c) ==
    /\ pc[c] = "idle"
    /\ Find(c)
    /\ Enter(c, "SSLClose")
    /\ UNCHANGED <<table, live, held, readVars, named, stream>>

\* forgetSession looks the structure up again; SSL_free gives its reference up.
\* The context is then as good as new.
SSLClose(c) ==
    /\ pc[c] = "SSLClose"
    /\ \/ \E o \in Own(c) :
             /\ sessions' = sessions \ {o}
             /\ obj' = [obj EXCEPT ![o] = Zeroed(None)]
             /\ live' = Exchanged(obj[o].session, NoSession)
       \/ Own(c) = {} /\ UNCHANGED <<sessions, obj, live>>
    /\ Return(c)
    /\ buffered' = [buffered EXCEPT ![c] = "unknown"]
    /\ named' = [named EXCEPT ![c] = NoHost]
    /\ stream' = [stream EXCEPT ![c] = NewStream]
    /\ UNCHANGED <<table, want, filled, held>>

-----------------------------------------------------------------------------
(* The peer, and the connection *)

PeerSends(c) ==
    /\ stream[c].sent < MaxRecords * RecordSize
    /\ stream' = [stream EXCEPT ![c].sent = @ + RecordSize]

PeerSendsTicket(c) ==
    /\ stream[c].ticket = "none"
    /\ stream' = [stream EXCEPT ![c].ticket = "arrived"]

\* What arrived and was not read may be lost when the connection breaks.
PeerEnds(c, how) ==
    \E kept \in {stream[c].opened, stream[c].sent} :
        /\ how = "notified" => kept = stream[c].sent
        /\ stream' = [stream EXCEPT ![c].peer = how, ![c].sent = kept]

Peer(c) ==
    /\ Secured(c) /\ stream[c].peer = "open" /\ c \in Busy
    /\ PeerSends(c) \/ PeerSendsTicket(c) \/ (\E how \in Faults \cap {"notified", "gone"} : PeerEnds(c, how))
    /\ UNCHANGED <<sessions, obj, table, live, pc, at, held, readVars, named>>

-----------------------------------------------------------------------------

\* What CFNetwork may call.
Call(c) ==
    \/ SSLSetIOFuncs(c) \/ SSLSetConnection(c) \/ SSLSetPeerDomainName(c)
    \/ CallHandshake(c) \/ CallRead(c) \/ SSLGetBufferedReadSize(c)
    \/ SSLWrite(c) \/ CallClose(c)

\* A step of a call it has made.
Step(c) ==
    \/ AnswerHandshake(c) \/ FailToStart(c) \/ StartSession(c)
    \/ HandshakeDone(c) \/ HandshakeWouldBlock(c) \/ HandshakeFails(c)
    \/ Remember(c) \/ Store(c) \/ FindNoSlot(c) \/ Drop(c)
    \/ Fill(c) \/ OpenRecord(c) \/ TakeTicket(c) \/ EndRead(c)
    \/ SSLClose(c)

Next == \E c \in Contexts : Call(c) \/ Step(c) \/ Peer(c)

Spec == Init /\ [][Next]_vars

\* A thread in a call goes on; CFNetwork asks how much is buffered, and reads, as
\* often as there is something to read.
FairSpec ==
    /\ Spec
    /\ \A c \in Contexts :
          /\ WF_vars(Step(c))
          /\ SF_vars(SSLGetBufferedReadSize(c))
          /\ SF_vars(CallRead(c))

-----------------------------------------------------------------------------
(* Properties *)

\* A context has one Session structure, and the pointer that a call got from
\* sessionFor stays that of its context, in the list and with the name it was given,
\* while other contexts add and free theirs (platform/safari/tls-openssl.c:69-101).
PointersLive ==
    \A c \in Contexts :
        /\ \A o, p \in Own(c) : o = p
        /\ \A o \in Own(c) : obj[o].host = named[c]
        /\ at[c] # None => at[c] \in Own(c)

\* A session is only kept for, and only offered to, the host it was made with.
ResumedIsOfHost ==
    /\ \A i \in Slot : table[i].host # NoHost => live[table[i].session].host = table[i].host
    /\ \A o \in sessions :
          obj[o].session # NoSession => live[obj[o].session].host = obj[o].host

\* The session in every slot is the one that the next connection to its host is
\* offered: a host is never in two slots, and no slot before its own becomes free.
KeptIsOffered ==
    \A i \in Slot : table[i].host # NoHost =>
        \E p \in Probe :
            /\ i = SlotOf(table[i].host, p)
            /\ OffersAt(table, table[i].host, p)

\* Each SSL_SESSION has as many references as there are connections, slots and
\* calls of rememberSession that hold it: none is freed early, none is leaked.
SessionsCounted ==
    \A s \in SslSessions :
        live[s].refs = Cardinality({o \in sessions : obj[o].session = s})
                  + Cardinality({i \in Slot : table[i].session = s})
                  + Cardinality({c \in Contexts : held[c] = s})

\* What CFNetwork sees of each context.
phase == [c \in Contexts |-> Phase(c)]
secured == [c \in Contexts |-> Secured(c)]
sent == [c \in Contexts |-> stream[c].sent]
received == [c \in Contexts |-> stream[c].told]
peer == [c \in Contexts |-> stream[c].peer]
ending == [c \in Contexts |-> stream[c].ending]
Contract == INSTANCE SecureTransport

\* The calls keep what CFNetwork relies on in a Secure Transport context.
ImplementsSecureTransport == Contract!Spec

\* Every byte that arrives is read unless the context is closed: the system does not
\* wait on the socket for a record that is decrypted already (docs/network.md:46-50).
EveryByteArrives ==
    \A c \in Contexts :
        (stream[c].sent > stream[c].told) ~> (stream[c].sent = stream[c].told)
=============================================================================
