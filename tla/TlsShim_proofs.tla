---------------------------- MODULE TlsShim_proofs ----------------------------
(***************************************************************************)
(* For any number of contexts, hosts, slots and probes: the types, that a  *)
(* call's pointer stays the context's own, that what a slot keeps is what  *)
(* the next connection to its host is offered, that an SSL_SESSION's       *)
(* references are its holders and its host theirs, and that the calls      *)
(* implement a Secure Transport context.                                   *)
(***************************************************************************)
EXTENDS TlsShim, FiniteSetTheorems, TLAPS

\* What a call has in hand: the structure; where it reads or is about to remember,
\* one that is connected; where it stores, a session and a host to store it for.
HasInHand == {"shake", "remember", "store", "drop", "reading"}
Carries(c) ==
    /\ pc[c] \in HasInHand => at[c] # None
    /\ pc[c] \in {"remember", "reading"} => obj[at[c]].handshakeDone
    /\ pc[c] \in {"store", "drop"} => held[c] # NoSession /\ obj[at[c]].host # NoHost
InHand == \A c \in Contexts : Carries(c)

\* A connection that has been made has a session.
Sessioned == \A o \in sessions : obj[o].handshakeDone => obj[o].session # NoSession

\* A host stands in the first of its slots that is not another's.
HoldsAt(i, p) == i = SlotOf(table[i].host, p) /\ StoresAt(table, table[i].host, p)
Placed ==
    \A i \in Slot : table[i].host # NoHost =>
        /\ table[i].session # NoSession
        /\ \E p \in Probe : HoldsAt(i, p)

\* A context without a structure has not been named.
Named == \A c \in Contexts : Own(c) = {} => named[c] = NoHost

IInv == TypeOK /\ PointersLive /\ Named /\ InHand /\ Sessioned /\ Placed

LEMMA SlotOfIsSlot == \A h \in Hosts, p \in Probe : SlotOf(h, p) \in Slot
BY TableAssumption DEF SlotOf, Slot, Probe

LEMMA ExchangedType ==
    ASSUME TypeOK, NEW old, NEW new
    PROVE  Exchanged(old, new) \in [SslSessions -> SslSession]
<1> SUFFICES ASSUME NEW s \in SslSessions
             PROVE  Exchanged(old, new)[s] \in SslSession
    BY DEF Exchanged
<1> DEFINE n == live[s].refs + (IF s = new THEN 1 ELSE 0) - (IF s = old THEN 1 ELSE 0)
<1>1. live[s] \in SslSession
    BY DEF TypeOK
<1>2. live[s].refs \in Int /\ n \in Int
    BY <1>1 DEF SslSession
<1>3. [live[s] EXCEPT !.refs = n] \in SslSession
    BY <1>1, <1>2 DEF SslSession
<1>4. Freed \in SslSession
    BY DEF Freed, SslSession
<1>5. Exchanged(old, new)[s] = IF n = 0 THEN Freed ELSE [live[s] EXCEPT !.refs = n]
    BY DEF Exchanged
<1> QED
    BY <1>3, <1>4, <1>5

LEMMA ZeroedType == \A c \in Contexts \cup {None} : Zeroed(c) \in Session
BY DEF Zeroed, Session, SslStates

\* What a step does to the structures keeps their fields' types.
LEMMA LinkType ==
    ASSUME TypeOK, NEW c \in Contexts, NEW o \in Objs, NEW fields \in Session,
           Link(c, o, fields)
    PROVE  sessions' \subseteq Objs /\ obj' \in [Objs -> Session]
BY DEF TypeOK, Link

LEMMA AddressedType ==
    ASSUME TypeOK, NEW c \in Contexts, NEW o \in Addressed(c)
    PROVE  o \in Objs /\ Fields(c, o) \in Session
BY ZeroedType DEF TypeOK, Addressed, Own, Fields

LEMMA InitTypeOK == Init => TypeOK
<1> SUFFICES ASSUME Init PROVE TypeOK
    OBVIOUS
<1>1. Freed \in SslSession /\ Empty \in Entry /\ NewStream \in Stream
    BY DEF Freed, SslSession, Empty, Entry, NewStream, Stream
<1> QED
    BY <1>1, ZeroedType DEF Init, TypeOK, Places

\* The structure a call has in hand is one of the list.
LEMMA InHandIsObj ==
    ASSUME TypeOK, PointersLive, NEW c \in Contexts, at[c] # None
    PROVE  at[c] \in Objs /\ at[c] \in sessions /\ obj[at[c]] \in Session
           /\ obj[at[c]].context = c
BY DEF TypeOK, PointersLive, Own

LEMMA NewSslSessionType ==
    ASSUME TypeOK, PointersLive, NEW c \in Contexts, at[c] # None, NewSslSession(c)
    PROVE  live' \in [SslSessions -> SslSession] /\ obj' \in [Objs -> Session]
<1> DEFINE s == CHOOSE x \in SslSessions : live[x] = Freed
<1> DEFINE e == Exchanged(obj[at[c]].session, s)
<1>1. s \in SslSessions
    BY DEF NewSslSession
<1>2. e \in [SslSessions -> SslSession] /\ named[c] \in Hosts \cup {NoHost}
    BY ExchangedType DEF TypeOK
<1>3. [e EXCEPT ![s].host = named[c]] \in [SslSessions -> SslSession]
    BY <1>1, <1>2 DEF SslSession
<1>4. /\ live' = [e EXCEPT ![s].host = named[c]]
      /\ obj' = [obj EXCEPT ![at[c]] =
                    [obj[at[c]] EXCEPT !.session = s, !.ssl = "up", !.handshakeDone = TRUE]]
    BY DEF NewSslSession, Put
<1>5. [obj[at[c]] EXCEPT !.session = s, !.ssl = "up", !.handshakeDone = TRUE] \in Session
    <2>1. obj[at[c]] \in Session
        BY InHandIsObj
    <2> HIDE DEF s
    <2> QED
        BY <1>1, <2>1 DEF Session, SslStates
<1>6. live' \in [SslSessions -> SslSession]
    BY <1>3, <1>4
<1>7. obj \in [Objs -> Session]
    BY DEF TypeOK
<1> HIDE DEF s
<1>8. obj' \in [Objs -> Session]
    BY <1>4, <1>5, <1>7
<1> QED
    BY <1>6, <1>8

LEMMA CallTypeOK ==
    ASSUME TypeOK, PointersLive, NEW c \in Contexts, Call(c)
    PROVE  TypeOK'
<1>1. CASE SSLSetIOFuncs(c)
    <2>1. PICK o \in Addressed(c) : Link(c, o, [Fields(c, o) EXCEPT !.io = TRUE])
        BY <1>1 DEF SSLSetIOFuncs
    <2>2. o \in Objs /\ [Fields(c, o) EXCEPT !.io = TRUE] \in Session
        BY AddressedType DEF Session
    <2>3. sessions' \subseteq Objs /\ obj' \in [Objs -> Session]
        BY <2>1, <2>2, LinkType
    <2> QED
        BY <1>1, <2>3 DEF SSLSetIOFuncs, TypeOK, readVars
<1>2. CASE SSLSetConnection(c)
    <2>1. PICK o \in Addressed(c) : Link(c, o, Fields(c, o))
        BY <1>2 DEF SSLSetConnection
    <2>2. sessions' \subseteq Objs /\ obj' \in [Objs -> Session]
        BY <2>1, AddressedType, LinkType
    <2> QED
        BY <1>2, <2>2 DEF SSLSetConnection, TypeOK, readVars
<1>3. CASE SSLSetPeerDomainName(c)
    <2>1. PICK h \in Hosts :
              /\ \E o \in Addressed(c) : Link(c, o, [Fields(c, o) EXCEPT !.host = h])
              /\ named' = [named EXCEPT ![c] = h]
        BY <1>3 DEF SSLSetPeerDomainName
    <2>2. PICK o \in Addressed(c) : Link(c, o, [Fields(c, o) EXCEPT !.host = h])
        BY <2>1
    <2>3. o \in Objs /\ [Fields(c, o) EXCEPT !.host = h] \in Session
        BY AddressedType DEF Session
    <2>4. sessions' \subseteq Objs /\ obj' \in [Objs -> Session]
        BY <2>2, <2>3, LinkType
    <2> QED
        BY <1>3, <2>1, <2>4 DEF SSLSetPeerDomainName, TypeOK, readVars
<1>4. CASE CallHandshake(c)
    <2>1. CASE Find(c)
        BY <1>4, <2>1 DEF CallHandshake, Find, Own, Enter, Places, TypeOK, readVars
    <2>2. ASSUME NEW o \in Addressed(c),
                 Link(c, o, Fields(c, o)), at' = [at EXCEPT ![c] = o]
          PROVE  TypeOK'
        <3>1. sessions' \subseteq Objs /\ obj' \in [Objs -> Session] /\ o \in Objs
            BY <2>2, AddressedType, LinkType
        <3> QED
            BY <1>4, <2>2, <3>1 DEF CallHandshake, Enter, Places, TypeOK, readVars
    <2> QED
        BY <1>4, <2>1, <2>2 DEF CallHandshake
<1>5. CASE CallRead(c)
    BY <1>5, ShimAssumption DEF CallRead, Find, Own, Enter, Places, TypeOK
<1>6. CASE SSLGetBufferedReadSize(c)
    BY <1>6 DEF SSLGetBufferedReadSize, BufferedReadSize, TypeOK
<1>7. CASE SSLWrite(c)
    <2>1. PICK o \in Own(c) : obj' = [obj EXCEPT ![o] = [obj[o] EXCEPT !.awaitingFirstByte = TRUE]]
        BY <1>7 DEF SSLWrite, Put
    <2>2. [obj[o] EXCEPT !.awaitingFirstByte = TRUE] \in Session
        <3>1. obj[o] \in Session
            BY DEF Own, TypeOK
        <3> QED
            BY <3>1 DEF Session
    <2> QED
        BY <1>7, <2>1, <2>2 DEF SSLWrite, TypeOK, readVars
<1>8. CASE CallClose(c)
    BY <1>8 DEF CallClose, Find, Own, Enter, Places, TypeOK, readVars
<1> QED
    BY <1>1, <1>2, <1>3, <1>4, <1>5, <1>6, <1>7, <1>8 DEF Call

\* Without what the steps of a read and of the peer do.
LEMMA StepTypeOK ==
    ASSUME TypeOK, PointersLive, InHand, NEW c \in Contexts, Step(c)
    PROVE  TypeOK'
<1> USE DEF Places
<1>1. CASE AnswerHandshake(c)
    BY <1>1 DEF AnswerHandshake, Return, TypeOK, readVars
<1>2. CASE FailToStart(c)
    <2>1. PICK ssl \in {"none", "bare"} :
              obj' = [obj EXCEPT ![at[c]] = [obj[at[c]] EXCEPT !.ssl = ssl, !.failed = TRUE]]
        BY <1>2 DEF FailToStart, Put
    <2>2. [obj[at[c]] EXCEPT !.ssl = ssl, !.failed = TRUE] \in Session
        <3>1. obj[at[c]] \in Session
            BY <1>2, InHandIsObj DEF FailToStart, Begins
        <3> QED
            BY <3>1 DEF Session, SslStates
    <2>3. obj' \in [Objs -> Session]
        BY <2>1, <2>2 DEF TypeOK
    <2> QED
        BY <1>2, <2>3 DEF FailToStart, Return, TypeOK, readVars
<1>3. CASE StartSession(c)
    <2>1. obj[at[c]] \in Session /\ obj[at[c]].host \in Hosts \cup {NoHost}
        BY <1>3, InHandIsObj DEF StartSession, Begins, Session
    <2>2. \A s \in Offered(obj[at[c]].host) : s \in SslSessions
        BY <2>1, SlotOfIsSlot DEF Offered, OffersAt, Has, TypeOK, Entry
    <2>3. obj' \in [Objs -> Session] /\ live' \in [SslSessions -> SslSession]
        <3>1. CASE UNCHANGED <<obj, live>>
            BY <3>1 DEF TypeOK
        <3>2. ASSUME NEW s \in Offered(obj[at[c]].host),
                     live' = Exchanged(NoSession, s),
                     Put(at[c], [obj[at[c]] EXCEPT !.ssl = "ready", !.session = s])
              PROVE  obj' \in [Objs -> Session] /\ live' \in [SslSessions -> SslSession]
            <4>1. [obj[at[c]] EXCEPT !.ssl = "ready", !.session = s] \in Session
                BY <2>1, <2>2 DEF Session, SslStates
            <4> QED
                BY <3>2, <4>1, ExchangedType DEF Put, TypeOK
        <3>3. ASSUME Put(at[c], [obj[at[c]] EXCEPT !.ssl = "ready"]), UNCHANGED live
              PROVE  obj' \in [Objs -> Session] /\ live' \in [SslSessions -> SslSession]
            <4>1. [obj[at[c]] EXCEPT !.ssl = "ready"] \in Session
                BY <2>1 DEF Session, SslStates
            <4> QED
                BY <3>3, <4>1 DEF Put, TypeOK
        <3> QED
            BY <1>3, <3>1, <3>2, <3>3 DEF StartSession
    <2> QED
        BY <1>3, <2>3 DEF StartSession, Enter, TypeOK, readVars
<1>4. CASE HandshakeDone(c)
    <2>1. at[c] # None
        BY <1>4 DEF HandshakeDone, InHand, Carries, HasInHand
    <2>2. obj' \in [Objs -> Session] /\ live' \in [SslSessions -> SslSession]
        <3>1. CASE NewSslSession(c)
            BY <2>1, <3>1, NewSslSessionType
        <3>2. ASSUME Put(at[c], [obj[at[c]] EXCEPT !.ssl = "up", !.handshakeDone = TRUE]),
                     UNCHANGED live
              PROVE  obj' \in [Objs -> Session] /\ live' \in [SslSessions -> SslSession]
            <4>1. [obj[at[c]] EXCEPT !.ssl = "up", !.handshakeDone = TRUE] \in Session
                <5>1. obj[at[c]] \in Session
                    BY <2>1, InHandIsObj
                <5> QED
                    BY <5>1 DEF Session, SslStates
            <4> QED
                BY <3>2, <4>1 DEF Put, TypeOK
        <3> QED
            BY <1>4, <3>1, <3>2 DEF HandshakeDone
    <2> QED
        BY <1>4, <2>2 DEF HandshakeDone, Enter, TypeOK, readVars
<1>5. CASE HandshakeWouldBlock(c)
    BY <1>5 DEF HandshakeWouldBlock, Return, TypeOK, readVars
<1>6. CASE HandshakeFails(c)
    <2>1. obj[at[c]] \in Session
        BY <1>6, InHandIsObj DEF HandshakeFails, InHand, Carries, HasInHand
    <2>2. PICK ssl \in {obj[at[c]].ssl, "broken"} :
              obj' = [obj EXCEPT ![at[c]] = [obj[at[c]] EXCEPT !.ssl = ssl, !.failed = TRUE]]
        BY <1>6 DEF HandshakeFails, Put
    <2>3. [obj[at[c]] EXCEPT !.ssl = ssl, !.failed = TRUE] \in Session
        BY <2>1 DEF Session, SslStates
    <2>4. obj' \in [Objs -> Session]
        BY <2>2, <2>3 DEF TypeOK
    <2> QED
        BY <1>6, <2>4 DEF HandshakeFails, Return, TypeOK, readVars
<1>7. CASE Remember(c)
    <2>1. obj[at[c]].session \in SslSessions \cup {NoSession}
        BY <1>7, InHandIsObj DEF Remember, InHand, Carries, HasInHand, Session
    <2>2. Exchanged(NoSession, obj[at[c]].session) \in [SslSessions -> SslSession]
        BY ExchangedType
    <2> QED
        BY <1>7, <2>1, <2>2 DEF Remember, Return, Enter, TypeOK, readVars
<1>8. CASE Store(c)
    <2> DEFINE h == obj[at[c]].host
    <2>1. PICK p \in Probe :
              /\ table' = [table EXCEPT ![SlotOf(h, p)] = [host |-> h, session |-> held[c]]]
              /\ live' = Exchanged(table[SlotOf(h, p)].session, NoSession)
        BY <1>8 DEF Store
    <2>2. h \in Hosts \cup {NoHost}
        BY <1>8, InHandIsObj DEF Store, InHand, Carries, HasInHand, Session
    <2>3. [host |-> h, session |-> held[c]] \in Entry
        BY <2>2 DEF TypeOK, Entry
    <2>4. table' \in [Slot -> Entry] /\ live' \in [SslSessions -> SslSession]
        BY <2>1, <2>3, ExchangedType DEF TypeOK
    <2> QED
        BY <1>8, <2>4 DEF Store, Return, TypeOK, readVars
<1>9. CASE FindNoSlot(c)
    BY <1>9 DEF FindNoSlot, Enter, TypeOK, readVars
<1>10. CASE Drop(c)
    BY <1>10, ExchangedType DEF Drop, Return, TypeOK, readVars
<1>11. CASE Fill(c)
    <2>1. Pending(c) \in Int /\ want[c] \in Nat /\ filled[c] \in Nat
        BY DEF TypeOK, Pending, Stream
    <2>2. filled' \in [Contexts -> Nat]
        BY <1>11, <2>1 DEF Fill, TypeOK
    <2> QED
        BY <1>11, <2>2 DEF Fill, TypeOK
<1>12. CASE OpenRecord(c)
    <2>1. stream[c] \in Stream /\ RecordSize \in Nat
        BY ShimAssumption DEF TypeOK
    <2>2. [stream[c] EXCEPT !.opened = @ + RecordSize] \in Stream
        BY <2>1 DEF Stream
    <2>3. stream' \in [Contexts -> Stream]
        BY <1>12, <2>2 DEF OpenRecord, TypeOK
    <2> QED
        BY <1>12, <2>3 DEF OpenRecord, TypeOK, readVars
<1>13. CASE TakeTicket(c)
    <2>1. obj' \in [Objs -> Session] /\ live' \in [SslSessions -> SslSession]
        BY <1>13, NewSslSessionType DEF TakeTicket, InHand, Carries, HasInHand
    <2>2. stream' \in [Contexts -> Stream]
        <3>1. stream[c] \in Stream
            BY DEF TypeOK
        <3>2. [stream[c] EXCEPT !.ticket = "taken"] \in Stream
            BY <3>1 DEF Stream
        <3> QED
            BY <1>13, <3>2 DEF TakeTicket, TypeOK
    <2> QED
        BY <1>13, <2>1, <2>2 DEF TakeTicket, TypeOK, readVars
<1>14. CASE EndRead(c)
    <2>1. at[c] # None
        BY <1>14 DEF EndRead, InHand, Carries, HasInHand
    <2>2. [obj[at[c]] EXCEPT !.awaitingFirstByte = FALSE] \in Session
        <3>1. obj[at[c]] \in Session
            BY <2>1, InHandIsObj
        <3> QED
            BY <3>1 DEF Session
    <2>3. obj' \in [Objs -> Session]
        BY <1>14, <2>2 DEF EndRead, Put, TypeOK
    <2>4. stream[c] \in Stream /\ filled[c] \in Nat
        BY DEF TypeOK
    <2>5. /\ [stream[c] EXCEPT !.told = @ + filled[c]] \in Stream
          /\ [stream[c] EXCEPT !.ending = EndingOf(stream[c].peer)] \in Stream
        BY <2>4 DEF Stream, EndingOf
    <2>6. stream' \in [Contexts -> Stream]
        BY <1>14, <2>5 DEF EndRead, TypeOK
    <2>7. pc' \in [Contexts -> Places] /\ at' \in [Contexts -> Objs \cup {None}]
        BY <1>14 DEF EndRead, Enter, Return, TypeOK
    <2> QED
        BY <1>14, <2>3, <2>6, <2>7 DEF EndRead, TypeOK
<1>15. CASE SSLClose(c)
    <2>1. /\ sessions' \subseteq Objs
          /\ obj' \in [Objs -> Session]
          /\ live' \in [SslSessions -> SslSession]
        BY <1>15, ZeroedType, ExchangedType DEF SSLClose, Own, TypeOK
    <2>2. NewStream \in Stream
        BY DEF NewStream, Stream
    <2> QED
        BY <1>15, <2>1, <2>2 DEF SSLClose, Return, TypeOK
<1> QED
    BY <1>1, <1>2, <1>3, <1>4, <1>5, <1>6, <1>7, <1>8, <1>9, <1>10, <1>11, <1>12,
       <1>13, <1>14, <1>15 DEF Step

LEMMA PeerTypeOK ==
    ASSUME TypeOK, NEW c \in Contexts, Peer(c)
    PROVE  TypeOK'
<1> DEFINE s == stream[c]
<1>1. s \in Stream /\ RecordSize \in Nat
    BY ShimAssumption DEF TypeOK
<1>2. stream' \in [Contexts -> Stream]
    <2>1. CASE PeerSends(c)
        <3>1. [s EXCEPT !.sent = @ + RecordSize] \in Stream
            BY <1>1 DEF Stream
        <3> QED
            BY <2>1, <3>1 DEF PeerSends, TypeOK
    <2>2. CASE PeerSendsTicket(c)
        <3>1. [s EXCEPT !.ticket = "arrived"] \in Stream
            BY <1>1 DEF Stream
        <3> QED
            BY <2>2, <3>1 DEF PeerSendsTicket, TypeOK
    <2>3. ASSUME NEW how \in {"notified", "gone"}, PeerEnds(c, how)
          PROVE  stream' \in [Contexts -> Stream]
        <3>1. PICK kept \in {s.opened, s.sent} :
                  stream' = [stream EXCEPT ![c].peer = how, ![c].sent = kept]
            BY <2>3 DEF PeerEnds
        <3>2. kept \in Nat
            BY <1>1 DEF Stream
        <3>3. [s EXCEPT !.peer = how, !.sent = kept] \in Stream
            BY <1>1, <3>2 DEF Stream
        <3> QED
            BY <3>1, <3>3 DEF TypeOK
    <2> QED
        BY <2>1, <2>2, <2>3 DEF Peer
<1> QED
    BY <1>2 DEF Peer, TypeOK, readVars

-----------------------------------------------------------------------------
(* The pointers *)

\* A step that leaves the list and every structure's context and name alone, and
\* gives the call at most a structure of its own context.
LEMMA SteadyKeepsPointers ==
    ASSUME TypeOK, PointersLive, Named, NEW c \in Contexts,
           sessions' = sessions, named' = named,
           \A o \in sessions : obj'[o].context = obj[o].context /\ obj'[o].host = obj[o].host,
           \/ at' = at
           \/ at' = [at EXCEPT ![c] = None]
           \/ \E o \in Own(c) : at' = [at EXCEPT ![c] = o]
    PROVE  PointersLive' /\ Named'
<1>1. \A d \in Contexts : Own(d)' = Own(d)
    BY DEF Own
<1>2. \A d \in Contexts : at'[d] \in {at[d], None} \/ at'[d] \in Own(d)
    BY DEF TypeOK
<1>3. \A d \in Contexts : \A o \in Own(d) : obj'[o].host = named'[d]
    BY DEF PointersLive, Own
<1> QED
    BY <1>1, <1>2, <1>3 DEF PointersLive, Named

\* A structure that is linked for a context, or changed by its setters.
LEMMA LinkKeepsPointers ==
    ASSUME TypeOK, PointersLive, Named, NEW c \in Contexts, NEW o \in Addressed(c),
           NEW fields \in Session, Link(c, o, fields),
           fields.context = c, fields.host = named'[c],
           \A d \in Contexts \ {c} : named'[d] = named[d],
           at' = at \/ at' = [at EXCEPT ![c] = o]
    PROVE  PointersLive' /\ Named'
<1>1. o \in Objs
    BY AddressedType
<1>2. sessions' = sessions \cup {o} /\ obj'[o] = fields
      /\ \A p \in Objs : p # o => obj'[p] = obj[p]
    BY <1>1 DEF Link, TypeOK
<1>3. Own(c)' = {o}
    <2>1. CASE Own(c) = {}
        BY <1>2, <2>1 DEF Own, TypeOK, Addressed
    <2>2. CASE o \in Own(c)
        BY <1>2, <2>2 DEF Own, PointersLive, TypeOK
    <2> QED
        BY <2>1, <2>2 DEF Addressed
<1>4. ASSUME NEW d \in Contexts, d # c
      PROVE  /\ Own(d)' = Own(d)
             /\ \A p \in Own(d) : obj'[p] = obj[p]
    <2>1. o \notin Own(d)
        BY <1>4 DEF Addressed, Own
    <2>2. o \notin Own(d)'
        BY <1>2, <1>4 DEF Own
    <2> QED
        BY <1>2, <2>1, <2>2 DEF Own, TypeOK
<1>5. \A d \in Contexts : d # c => at'[d] = at[d]
    BY DEF TypeOK
<1>6. at'[c] # None => at'[c] \in Own(c)'
    <2>1. CASE at' = at
        <3>1. at[c] # None => o \in Own(c) /\ at[c] = o
            BY DEF PointersLive, Addressed
        <3> QED
            BY <1>3, <2>1, <3>1
    <2>2. CASE at' = [at EXCEPT ![c] = o]
        BY <1>3, <2>2 DEF TypeOK
    <2> QED
        BY <2>1, <2>2
<1>7. ASSUME NEW d \in Contexts
      PROVE  /\ \A p, q \in Own(d)' : p = q
             /\ \A p \in Own(d)' : obj'[p].host = named'[d]
             /\ at'[d] # None => at'[d] \in Own(d)'
             /\ Own(d)' = {} => named'[d] = NoHost
    <2>1. CASE d = c
        BY <1>2, <1>3, <1>6, <2>1
    <2>2. CASE d # c
        BY <1>4, <1>5, <2>2 DEF PointersLive, Named
    <2> QED
        BY <2>1, <2>2
<1> QED
    BY <1>7 DEF PointersLive, Named

\* What each context's call has, a step of another's leaves alone.
Frame(c) ==
    \A d \in Contexts \ {c} :
        /\ pc'[d] = pc[d] /\ at'[d] = at[d] /\ held'[d] = held[d]
        /\ at[d] # None => obj'[at[d]] = obj[at[d]]

LEMMA OthersApart ==
    ASSUME TypeOK, PointersLive, NEW c \in Contexts, NEW d \in Contexts, d # c, at[d] # None
    PROVE  at[d] \in Objs /\ at[d] \in sessions /\ at[d] \notin Own(c) /\ at[d] # at[c]
BY DEF TypeOK, PointersLive, Own

\* A step of a call that changes no structure but the context's own, and of that
\* neither the context nor the name.
Mild(c) ==
    /\ sessions' = sessions /\ named' = named
    /\ \A o \in Objs \ Own(c) : obj'[o] = obj[o]
    /\ \A o \in Own(c) : obj'[o].context = obj[o].context /\ obj'[o].host = obj[o].host
    /\ \/ at' = at
       \/ at' = [at EXCEPT ![c] = None]
       \/ \E o \in Own(c) : at' = [at EXCEPT ![c] = o]
    /\ \A d \in Contexts \ {c} : pc'[d] = pc[d] /\ held'[d] = held[d]

LEMMA MildKeeps ==
    ASSUME TypeOK, PointersLive, Named, NEW c \in Contexts, Mild(c)
    PROVE  PointersLive' /\ Named' /\ Frame(c)
<1>1. \A o \in sessions : obj'[o].context = obj[o].context /\ obj'[o].host = obj[o].host
    BY DEF Mild, TypeOK
<1>2. PointersLive' /\ Named'
    BY <1>1, SteadyKeepsPointers DEF Mild
<1>3. \A d \in Contexts \ {c} : at'[d] = at[d]
    BY DEF Mild, TypeOK
<1>4. Frame(c)
    BY <1>3, OthersApart DEF Mild, Frame
<1> QED
    BY <1>2, <1>4

\* Changes that Put makes to the structure of the call.
LEMMA PutIsMild ==
    ASSUME TypeOK, PointersLive, NEW c \in Contexts, NEW o \in Own(c), NEW fields,
           fields.context = obj[o].context, fields.host = obj[o].host,
           sessions' = sessions, named' = named, Put(o, fields),
           at' = at \/ at' = [at EXCEPT ![c] = None],
           \A d \in Contexts \ {c} : pc'[d] = pc[d] /\ held'[d] = held[d]
    PROVE  /\ Mild(c)
           /\ obj'[o] = fields
           /\ \A p \in Objs \ {o} : obj'[p] = obj[p]
<1>1. o \in Objs /\ \A p \in Own(c) : p = o
    BY DEF Own, TypeOK, PointersLive
<1>2. obj'[o] = fields /\ \A p \in Objs \ {o} : obj'[p] = obj[p]
    BY <1>1 DEF Put, TypeOK
<1> QED
    BY <1>1, <1>2 DEF Mild

LEMMA OthersCarry ==
    ASSUME InHand, TypeOK, NEW c \in Contexts, Frame(c), Carries(c)'
    PROVE  InHand'
<1> SUFFICES ASSUME NEW d \in Contexts, d # c PROVE Carries(d)'
    BY DEF InHand
<1>1. Carries(d)
    BY DEF InHand
<1>2. /\ pc'[d] = pc[d] /\ at'[d] = at[d] /\ held'[d] = held[d]
      /\ at[d] # None => obj'[at[d]] = obj[at[d]]
    BY DEF Frame
<1> QED
    BY <1>1, <1>2 DEF Carries, HasInHand

-----------------------------------------------------------------------------
(* Each action *)

Kept(c) == PointersLive' /\ Named' /\ Frame(c) /\ Carries(c)' /\ Sessioned'

LEMMA SettingKeeps ==
    ASSUME IInv, NEW c \in Contexts, NEW o \in Addressed(c), NEW fields \in Session,
           Link(c, o, fields), pc[c] = "idle",
           fields.context = c, fields.host = named'[c],
           fields.handshakeDone = Fields(c, o).handshakeDone,
           fields.session = Fields(c, o).session,
           \A d \in Contexts \ {c} : named'[d] = named[d],
           pc' = pc \/ pc' = [pc EXCEPT ![c] = "SSLHandshake"],
           held' = held,
           at' = at \/ at' = [at EXCEPT ![c] = o]
    PROVE  Kept(c)
<1>1. PointersLive' /\ Named'
    BY LinkKeepsPointers DEF IInv
<1>2. o \in Objs /\ obj'[o] = fields /\ \A p \in Objs : p # o => obj'[p] = obj[p]
    BY AddressedType DEF IInv, Link, TypeOK
<1>3. Frame(c)
    <2>1. ASSUME NEW d \in Contexts, d # c, at[d] # None
          PROVE  at[d] \in Objs /\ at[d] # o
        BY <2>1, OthersApart DEF IInv, Addressed
    <2> QED
        BY <1>2, <2>1 DEF Frame, IInv, TypeOK
<1>4. Carries(c)'
    BY DEF Carries, HasInHand, IInv, TypeOK
<1>5. Sessioned'
    <2>1. fields.handshakeDone => fields.session # NoSession
        <3>1. CASE o \in sessions
            BY <3>1 DEF Fields, IInv, Sessioned
        <3>2. CASE o \notin sessions
            BY <3>2 DEF Fields, Zeroed
        <3> QED
            BY <3>1, <3>2
    <2>2. sessions' = sessions \cup {o}
        BY DEF Link
    <2> QED
        BY <1>2, <2>1, <2>2 DEF Sessioned, IInv, TypeOK
<1> QED
    BY <1>1, <1>3, <1>4, <1>5 DEF Kept

\* Without a change to any structure.
LEMMA MoveKeeps ==
    ASSUME IInv, NEW c \in Contexts, Mild(c), obj' = obj, Carries(c)'
    PROVE  Kept(c)
BY MildKeeps DEF Kept, IInv, Sessioned, Mild

\* With one to the context's own.
LEMMA PutKeeps ==
    ASSUME IInv, NEW c \in Contexts, NEW o \in Own(c), NEW fields,
           fields.context = obj[o].context, fields.host = obj[o].host,
           fields.handshakeDone => fields.session # NoSession,
           sessions' = sessions, named' = named, Put(o, fields),
           at' = at \/ at' = [at EXCEPT ![c] = None],
           \A d \in Contexts \ {c} : pc'[d] = pc[d] /\ held'[d] = held[d],
           Carries(c)'
    PROVE  Kept(c)
<1>1. /\ Mild(c) /\ obj'[o] = fields
      /\ \A p \in Objs \ {o} : obj'[p] = obj[p]
    BY PutIsMild DEF IInv
<1>2. Sessioned'
    BY <1>1 DEF Sessioned, IInv, TypeOK
<1> QED
    BY <1>1, <1>2, MildKeeps DEF Kept, IInv

LEMMA FieldsOf ==
    ASSUME IInv, NEW c \in Contexts, NEW o \in Addressed(c)
    PROVE  /\ Fields(c, o) \in Session
           /\ Fields(c, o).context = c /\ Fields(c, o).host = named[c]
<1>1. CASE o \in sessions
    BY <1>1, AddressedType DEF IInv, Addressed, Fields, Own, PointersLive
<1>2. CASE o \notin sessions
    BY <1>2, AddressedType DEF IInv, Addressed, Fields, Own, Named, Zeroed
<1> QED
    BY <1>1, <1>2

LEMMA CallKeeps ==
    ASSUME IInv, NEW c \in Contexts, Call(c)
    PROVE  Kept(c)
<1>0. TypeOK
    BY DEF IInv
<1>1. CASE SSLSetIOFuncs(c)
    <2>1. PICK o \in Addressed(c) : Link(c, o, [Fields(c, o) EXCEPT !.io = TRUE])
        BY <1>1 DEF SSLSetIOFuncs
    <2> DEFINE f == [Fields(c, o) EXCEPT !.io = TRUE]
    <2>2. /\ f \in Session /\ f.context = c /\ f.host = named[c]
          /\ f.handshakeDone = Fields(c, o).handshakeDone
          /\ f.session = Fields(c, o).session
        <3>1. /\ Fields(c, o) \in Session /\ Fields(c, o).context = c
              /\ Fields(c, o).host = named[c]
            BY FieldsOf
        <3>2. f \in Session
            BY <3>1 DEF Session
        <3> QED
            BY <3>1, <3>2 DEF Session
    <2>3. /\ pc[c] = "idle" /\ pc' = pc /\ at' = at /\ held' = held /\ named' = named
        BY <1>1 DEF SSLSetIOFuncs, MaySet
    <2> HIDE DEF f
    <2> QED
        BY <2>1, <2>2, <2>3, SettingKeeps DEF f
<1>2. CASE SSLSetConnection(c)
    <2>1. PICK o \in Addressed(c) : Link(c, o, Fields(c, o))
        BY <1>2 DEF SSLSetConnection
    <2>2. /\ pc[c] = "idle" /\ pc' = pc /\ at' = at /\ held' = held /\ named' = named
        BY <1>2 DEF SSLSetConnection, MaySet
    <2> QED
        BY <2>1, <2>2, FieldsOf, SettingKeeps
<1>3. CASE SSLSetPeerDomainName(c)
    <2>1. PICK h \in Hosts :
              /\ \E o \in Addressed(c) : Link(c, o, [Fields(c, o) EXCEPT !.host = h])
              /\ named' = [named EXCEPT ![c] = h]
        BY <1>3 DEF SSLSetPeerDomainName
    <2>2. PICK o \in Addressed(c) : Link(c, o, [Fields(c, o) EXCEPT !.host = h])
        BY <2>1
    <2> DEFINE f == [Fields(c, o) EXCEPT !.host = h]
    <2>3. /\ f \in Session /\ f.context = c /\ f.host = h
          /\ f.handshakeDone = Fields(c, o).handshakeDone
          /\ f.session = Fields(c, o).session
        <3>1. Fields(c, o) \in Session /\ Fields(c, o).context = c
            BY FieldsOf
        <3>2. f \in Session
            BY <3>1 DEF Session
        <3> QED
            BY <3>1, <3>2 DEF Session
    <2>4. named'[c] = h /\ \A d \in Contexts \ {c} : named'[d] = named[d]
        BY <1>0, <2>1 DEF TypeOK
    <2>5. /\ pc[c] = "idle" /\ pc' = pc /\ at' = at /\ held' = held
        BY <1>3 DEF SSLSetPeerDomainName, MaySet
    <2> HIDE DEF f
    <2> QED
        BY <2>2, <2>3, <2>4, <2>5, SettingKeeps DEF f
<1>4. CASE CallHandshake(c)
    <2>1. CASE Find(c)
        <3>1. Mild(c) /\ obj' = obj
            BY <1>0, <1>4, <2>1 DEF CallHandshake, Find, Enter, Mild, TypeOK
        <3>2. Carries(c)'
            BY <1>0, <1>4 DEF CallHandshake, Enter, Carries, HasInHand, TypeOK
        <3> QED
            BY <3>1, <3>2, MoveKeeps
    <2>2. ASSUME NEW o \in Addressed(c), Link(c, o, Fields(c, o)), at' = [at EXCEPT ![c] = o]
          PROVE  Kept(c)
        <3>1. /\ pc[c] = "idle" /\ pc' = [pc EXCEPT ![c] = "SSLHandshake"]
              /\ held' = held /\ named' = named
            BY <1>4 DEF CallHandshake, Enter
        <3> QED
            BY <2>2, <3>1, FieldsOf, SettingKeeps
    <2> QED
        BY <1>4, <2>1, <2>2 DEF CallHandshake
<1>5. CASE CallRead(c)
    <2>1. PICK o \in Own(c) : at' = [at EXCEPT ![c] = o]
        BY <1>5 DEF CallRead, Find, Secured
    <2>2. /\ obj' = obj /\ sessions' = sessions /\ named' = named /\ held' = held
          /\ pc' = [pc EXCEPT ![c] = "reading"]
        BY <1>5 DEF CallRead, Find, Enter
    <2>3. Mild(c)
        BY <1>0, <2>1, <2>2 DEF Mild, TypeOK
    <2>4. obj[o].handshakeDone /\ o # None
        BY <1>0, <1>5, ShimAssumption DEF CallRead, Secured, IInv, PointersLive, Own, TypeOK
    <2>5. Carries(c)'
        BY <1>0, <2>1, <2>2, <2>4 DEF Carries, HasInHand, TypeOK
    <2> QED
        BY <2>2, <2>3, <2>5, MoveKeeps
<1>6. CASE SSLGetBufferedReadSize(c)
    <2>1. /\ obj' = obj /\ sessions' = sessions /\ named' = named /\ held' = held
          /\ pc' = pc /\ at' = at
        BY <1>6 DEF SSLGetBufferedReadSize
    <2> QED
        BY <2>1, MoveKeeps DEF Mild, IInv, InHand, Carries
<1>7. CASE SSLWrite(c)
    <2>1. PICK o \in Own(c) : Put(o, [obj[o] EXCEPT !.awaitingFirstByte = TRUE])
        BY <1>7 DEF SSLWrite
    <2> DEFINE f == [obj[o] EXCEPT !.awaitingFirstByte = TRUE]
    <2>2. obj[o] \in Session /\ o \in sessions
        BY <1>0 DEF Own, TypeOK
    <2>3. /\ f.context = obj[o].context /\ f.host = obj[o].host
          /\ f.handshakeDone = obj[o].handshakeDone /\ f.session = obj[o].session
        BY <2>2 DEF Session
    <2>4. /\ sessions' = sessions /\ named' = named /\ held' = held
          /\ pc' = pc /\ at' = at /\ pc[c] = "idle"
        BY <1>7 DEF SSLWrite
    <2>5. f.handshakeDone => f.session # NoSession
        BY <2>2, <2>3 DEF IInv, Sessioned
    <2>6. Carries(c)'
        BY <2>4 DEF Carries, HasInHand
    <2> HIDE DEF f
    <2> QED
        BY <2>1, <2>3, <2>4, <2>5, <2>6, PutKeeps DEF f
<1>8. CASE CallClose(c)
    <2>1. Mild(c) /\ obj' = obj
        BY <1>0, <1>8 DEF CallClose, Find, Enter, Mild, TypeOK
    <2>2. Carries(c)'
        BY <1>0, <1>8 DEF CallClose, Enter, Carries, HasInHand, TypeOK
    <2> QED
        BY <2>1, <2>2, MoveKeeps
<1> QED
    BY <1>1, <1>2, <1>3, <1>4, <1>5, <1>6, <1>7, <1>8 DEF Call

\* The call has the context's own structure in hand.
LEMMA InHandIsOwn ==
    ASSUME IInv, NEW c \in Contexts, at[c] # None
    PROVE  /\ at[c] \in Own(c) /\ at[c] \in sessions /\ at[c] \in Objs
           /\ obj[at[c]] \in Session
BY DEF IInv, TypeOK, PointersLive, Own

LEMMA NewSslSessionKeeps ==
    ASSUME IInv, NEW c \in Contexts, at[c] # None, NewSslSession(c),
           sessions' = sessions, named' = named, at' = at, held' = held,
           \/ pc' = pc /\ pc[c] = "reading"
           \/ pc' = [pc EXCEPT ![c] = "remember"]
    PROVE  Kept(c)
<1> DEFINE s == CHOOSE x \in SslSessions : live[x] = Freed
<1> DEFINE o == at[c]
<1> DEFINE f == [obj[o] EXCEPT !.session = s, !.ssl = "up", !.handshakeDone = TRUE]
<1>1. s \in SslSessions
    BY DEF NewSslSession
<1>2. Put(o, f)
    BY DEF NewSslSession
<1> HIDE DEF s
<1>3. o \in Own(c) /\ o \in Objs /\ obj[o] \in Session
    BY InHandIsOwn
<1>4. /\ f.context = obj[o].context /\ f.host = obj[o].host
      /\ f.handshakeDone = TRUE /\ f.session = s
    BY <1>3 DEF Session
<1>5. f.session # NoSession
    BY <1>1, <1>4, TableAssumption
<1> HIDE DEF f
<1>6. obj'[o] = f
    BY <1>2, <1>3 DEF Put, IInv, TypeOK
<1>7. pc'[c] \in {"reading", "remember"} /\ \A d \in Contexts \ {c} : pc'[d] = pc[d]
    BY DEF IInv, TypeOK
<1>8. Carries(c)'
    BY <1>4, <1>6, <1>7 DEF Carries, HasInHand
<1> QED
    BY <1>2, <1>3, <1>4, <1>5, <1>7, <1>8, PutKeeps

LEMMA StepKeeps ==
    ASSUME IInv, NEW c \in Contexts, Step(c)
    PROVE  Kept(c)
<1> DEFINE o == at[c]
<1>0. TypeOK /\ Carries(c)
    BY DEF IInv, InHand
<1>1. CASE AnswerHandshake(c)
    <2>1. Mild(c) /\ obj' = obj /\ Carries(c)'
        BY <1>0, <1>1 DEF AnswerHandshake, Return, Mild, Carries, HasInHand, TypeOK
    <2> QED
        BY <2>1, MoveKeeps
<1>2. CASE FailToStart(c)
    <2>1. PICK ssl : Put(o, [obj[o] EXCEPT !.ssl = ssl, !.failed = TRUE])
        BY <1>2 DEF FailToStart
    <2> DEFINE f == [obj[o] EXCEPT !.ssl = ssl, !.failed = TRUE]
    <2>2. o \in Own(c) /\ obj[o] \in Session /\ ~obj[o].handshakeDone
        BY <1>2, InHandIsOwn DEF FailToStart, Begins
    <2>3. /\ f.context = obj[o].context /\ f.host = obj[o].host
          /\ f.handshakeDone = obj[o].handshakeDone
        BY <2>2 DEF Session
    <2>4. /\ sessions' = sessions /\ named' = named /\ held' = held
          /\ at' = [at EXCEPT ![c] = None] /\ pc' = [pc EXCEPT ![c] = "idle"]
        BY <1>2 DEF FailToStart, Return
    <2>5. Carries(c)' /\ \A d \in Contexts \ {c} : pc'[d] = pc[d]
        BY <1>0, <2>4 DEF Carries, HasInHand, TypeOK
    <2> HIDE DEF f
    <2> QED
        BY <2>1, <2>2, <2>3, <2>4, <2>5, PutKeeps DEF f
<1>3. CASE StartSession(c)
    <2>1. o \in Own(c) /\ obj[o] \in Session /\ ~obj[o].handshakeDone /\ o # None
        BY <1>3, InHandIsOwn DEF StartSession, Begins
    <2>2. /\ sessions' = sessions /\ named' = named /\ held' = held
          /\ at' = at /\ pc' = [pc EXCEPT ![c] = "shake"]
        BY <1>3 DEF StartSession, Enter
    <2>3. Carries(c)' /\ \A d \in Contexts \ {c} : pc'[d] = pc[d]
        BY <1>0, <2>1, <2>2 DEF Carries, HasInHand, TypeOK
    <2>4. CASE obj' = obj
        BY <2>2, <2>3, <2>4, MoveKeeps DEF Mild
    <2>5. ASSUME NEW s, Put(o, [obj[o] EXCEPT !.ssl = "ready", !.session = s])
          PROVE  Kept(c)
        <3> DEFINE f == [obj[o] EXCEPT !.ssl = "ready", !.session = s]
        <3>1. /\ f.context = obj[o].context /\ f.host = obj[o].host
              /\ f.handshakeDone = obj[o].handshakeDone
            BY <2>1 DEF Session
        <3> HIDE DEF f
        <3> QED
            BY <2>1, <2>2, <2>3, <2>5, <3>1, PutKeeps DEF f
    <2>6. ASSUME Put(o, [obj[o] EXCEPT !.ssl = "ready"])
          PROVE  Kept(c)
        <3> DEFINE f == [obj[o] EXCEPT !.ssl = "ready"]
        <3>1. /\ f.context = obj[o].context /\ f.host = obj[o].host
              /\ f.handshakeDone = obj[o].handshakeDone
            BY <2>1 DEF Session
        <3> HIDE DEF f
        <3> QED
            BY <2>1, <2>2, <2>3, <2>6, <3>1, PutKeeps DEF f
    <2> QED
        BY <1>3, <2>4, <2>5, <2>6 DEF StartSession
<1>4. CASE HandshakeDone(c)
    <2>1. o # None /\ o \in Own(c) /\ o \in Objs /\ obj[o] \in Session
        BY <1>0, <1>4, InHandIsOwn DEF HandshakeDone, Carries, HasInHand
    <2>2. /\ sessions' = sessions /\ named' = named /\ held' = held
          /\ at' = at /\ pc' = [pc EXCEPT ![c] = "remember"]
        BY <1>4 DEF HandshakeDone, Enter
    <2>3. CASE NewSslSession(c)
        BY <2>1, <2>2, <2>3, NewSslSessionKeeps
    <2>4. ASSUME obj[o].session # NoSession,
                 Put(o, [obj[o] EXCEPT !.ssl = "up", !.handshakeDone = TRUE])
          PROVE  Kept(c)
        <3> DEFINE f == [obj[o] EXCEPT !.ssl = "up", !.handshakeDone = TRUE]
        <3>1. /\ f.context = obj[o].context /\ f.host = obj[o].host
              /\ f.handshakeDone = TRUE /\ f.session = obj[o].session
            BY <2>1 DEF Session
        <3> HIDE DEF f
        <3>2. obj'[o] = f
            BY <1>0, <2>1, <2>4 DEF f, Put, TypeOK
        <3>3. Carries(c)' /\ \A d \in Contexts \ {c} : pc'[d] = pc[d]
            BY <1>0, <2>1, <2>2, <3>1, <3>2 DEF Carries, HasInHand, TypeOK
        <3> QED
            BY <2>1, <2>2, <2>4, <3>1, <3>3, PutKeeps DEF f
    <2> QED
        BY <1>4, <2>3, <2>4 DEF HandshakeDone
<1>5. CASE HandshakeWouldBlock(c)
    <2>1. Mild(c) /\ obj' = obj /\ Carries(c)'
        BY <1>0, <1>5 DEF HandshakeWouldBlock, Return, Mild, Carries, HasInHand, TypeOK
    <2> QED
        BY <2>1, MoveKeeps
<1>6. CASE HandshakeFails(c)
    <2>1. PICK ssl : Put(o, [obj[o] EXCEPT !.ssl = ssl, !.failed = TRUE])
        BY <1>6 DEF HandshakeFails
    <2> DEFINE f == [obj[o] EXCEPT !.ssl = ssl, !.failed = TRUE]
    <2>2. o \in Own(c) /\ o \in sessions /\ obj[o] \in Session
        BY <1>0, <1>6, InHandIsOwn DEF HandshakeFails, Carries, HasInHand
    <2>3. /\ f.context = obj[o].context /\ f.host = obj[o].host
          /\ f.handshakeDone = obj[o].handshakeDone /\ f.session = obj[o].session
        BY <2>2 DEF Session
    <2>4. f.handshakeDone => f.session # NoSession
        BY <2>2, <2>3 DEF IInv, Sessioned
    <2>5. /\ sessions' = sessions /\ named' = named /\ held' = held
          /\ at' = [at EXCEPT ![c] = None] /\ pc' = [pc EXCEPT ![c] = "idle"]
        BY <1>6 DEF HandshakeFails, Return
    <2>6. Carries(c)' /\ \A d \in Contexts \ {c} : pc'[d] = pc[d]
        BY <1>0, <2>5 DEF Carries, HasInHand, TypeOK
    <2> HIDE DEF f
    <2> QED
        BY <2>1, <2>2, <2>3, <2>4, <2>5, <2>6, PutKeeps DEF f
<1>7. CASE Remember(c)
    <2>1. o # None /\ o \in sessions /\ obj[o].handshakeDone
        BY <1>0, <1>7, InHandIsOwn DEF Remember, Carries, HasInHand
    <2>2. obj[o].session # NoSession
        BY <2>1 DEF IInv, Sessioned
    <2>3. Mild(c) /\ obj' = obj
        BY <1>0, <1>7 DEF Remember, Return, Enter, Mild, TypeOK
    <2>4. Carries(c)'
        BY <1>0, <1>7, <2>1, <2>2 DEF Remember, Return, Enter, Carries, HasInHand, TypeOK
    <2> QED
        BY <2>3, <2>4, MoveKeeps
<1>8. CASE Store(c)
    <2>1. Mild(c) /\ obj' = obj /\ Carries(c)'
        BY <1>0, <1>8 DEF Store, Return, Mild, Carries, HasInHand, TypeOK
    <2> QED
        BY <2>1, MoveKeeps
<1>9. CASE FindNoSlot(c)
    <2>1. Mild(c) /\ obj' = obj /\ Carries(c)'
        BY <1>0, <1>9 DEF FindNoSlot, Enter, Mild, Carries, HasInHand, TypeOK
    <2> QED
        BY <2>1, MoveKeeps
<1>10. CASE Drop(c)
    <2>1. Mild(c) /\ obj' = obj /\ Carries(c)'
        BY <1>0, <1>10 DEF Drop, Return, Mild, Carries, HasInHand, TypeOK
    <2> QED
        BY <2>1, MoveKeeps
<1>11. CASE Fill(c)
    <2>1. Mild(c) /\ obj' = obj /\ Carries(c)'
        BY <1>0, <1>11 DEF Fill, Mild, Carries
    <2> QED
        BY <2>1, MoveKeeps
<1>12. CASE OpenRecord(c)
    <2>1. Mild(c) /\ obj' = obj /\ Carries(c)'
        BY <1>0, <1>12 DEF OpenRecord, Mild, Carries
    <2> QED
        BY <2>1, MoveKeeps
<1>13. CASE TakeTicket(c)
    <2>1. /\ o # None /\ NewSslSession(c)
          /\ sessions' = sessions /\ named' = named /\ held' = held
          /\ at' = at /\ pc' = pc /\ pc[c] = "reading"
        BY <1>0, <1>13 DEF TakeTicket, Carries, HasInHand
    <2> QED
        BY <2>1, NewSslSessionKeeps
<1>14. CASE EndRead(c)
    <2>1. /\ o # None /\ o \in Own(c) /\ o \in sessions /\ o \in Objs
          /\ obj[o] \in Session /\ obj[o].handshakeDone
        BY <1>0, <1>14, InHandIsOwn DEF EndRead, Carries, HasInHand
    <2>2. obj[o].session # NoSession
        BY <2>1 DEF IInv, Sessioned
    <2>3. sessions' = sessions /\ named' = named /\ held' = held
        BY <1>14 DEF EndRead
    <2>4. CASE Return(c) /\ obj' = obj
        <3>1. Mild(c) /\ Carries(c)'
            BY <1>0, <2>3, <2>4 DEF Return, Mild, Carries, HasInHand, TypeOK
        <3> QED
            BY <2>4, <3>1, MoveKeeps
    <2>5. ASSUME Put(o, [obj[o] EXCEPT !.awaitingFirstByte = FALSE]),
                 Enter(c, "remember"), UNCHANGED at
          PROVE  Kept(c)
        <3> DEFINE f == [obj[o] EXCEPT !.awaitingFirstByte = FALSE]
        <3>1. /\ f.context = obj[o].context /\ f.host = obj[o].host
              /\ f.handshakeDone = obj[o].handshakeDone /\ f.session = obj[o].session
            BY <2>1 DEF Session
        <3> HIDE DEF f
        <3>2. obj'[o] = f
            BY <1>0, <2>1, <2>5 DEF f, Put, TypeOK
        <3>3. Carries(c)' /\ \A d \in Contexts \ {c} : pc'[d] = pc[d]
            BY <1>0, <2>1, <2>5, <3>1, <3>2 DEF Carries, HasInHand, Enter, TypeOK
        <3> QED
            BY <2>1, <2>2, <2>3, <2>5, <3>1, <3>3, PutKeeps DEF f
    <2> QED
        BY <1>14, <2>4, <2>5 DEF EndRead
<1>15. CASE SSLClose(c)
    <2>1. /\ at' = [at EXCEPT ![c] = None] /\ pc' = [pc EXCEPT ![c] = "idle"]
          /\ named' = [named EXCEPT ![c] = NoHost] /\ held' = held
        BY <1>15 DEF SSLClose, Return
    <2>2. Carries(c)'
        BY <1>0, <2>1 DEF Carries, HasInHand, TypeOK
    <2>3. Own(c)' = {}
        BY <1>15 DEF SSLClose, Own, IInv, PointersLive, TypeOK
    <2>4. ASSUME NEW d \in Contexts, d # c
          PROVE  /\ Own(d)' = Own(d)
                 /\ \A p \in Own(d) : obj'[p] = obj[p]
        BY <1>0, <1>15, <2>4 DEF SSLClose, Own, TypeOK
    <2>5. \A d \in Contexts \ {c} :
              at'[d] = at[d] /\ pc'[d] = pc[d] /\ named'[d] = named[d]
        BY <1>0, <2>1 DEF TypeOK
    <2>6. named'[c] = NoHost /\ at'[c] = None
        BY <1>0, <2>1 DEF TypeOK
    <2>7. PointersLive' /\ Named'
        <3>1. ASSUME NEW d \in Contexts
              PROVE  /\ \A p, q \in Own(d)' : p = q
                     /\ \A p \in Own(d)' : obj'[p].host = named'[d]
                     /\ at'[d] # None => at'[d] \in Own(d)'
                     /\ Own(d)' = {} => named'[d] = NoHost
            <4>1. CASE d = c
                BY <2>3, <2>6, <4>1
            <4>2. CASE d # c
                BY <2>4, <2>5, <4>2 DEF IInv, PointersLive, Named
            <4> QED
                BY <4>1, <4>2
        <3> QED
            BY <3>1 DEF PointersLive, Named
    <2>8. Frame(c)
        <3>1. ASSUME NEW d \in Contexts, d # c, at[d] # None
              PROVE  at[d] \in Own(d)
            BY <3>1 DEF IInv, PointersLive
        <3> QED
            BY <2>1, <2>4, <2>5, <3>1 DEF Frame
    <2>9. Sessioned'
        BY <1>0, <1>15 DEF SSLClose, Own, Sessioned, IInv, TypeOK
    <2> QED
        BY <2>2, <2>7, <2>8, <2>9 DEF Kept
<1> QED
    BY <1>1, <1>2, <1>3, <1>4, <1>5, <1>6, <1>7, <1>8, <1>9, <1>10, <1>11, <1>12,
       <1>13, <1>14, <1>15 DEF Step

LEMMA PeerKeeps ==
    ASSUME IInv, NEW c \in Contexts, Peer(c)
    PROVE  Kept(c)
BY MoveKeeps DEF Peer, Mild, Carries, IInv, InHand

-----------------------------------------------------------------------------
(* The sessions kept per host *)

\* What is stored in a slot lands where the host will look, and nothing that is
\* kept is any harder to find for it.
LEMMA StoreKeepsPlaced ==
    ASSUME TypeOK, Placed, NEW h \in Hosts, NEW s \in SslSessions, NEW p \in Probe,
           StoresAt(table, h, p),
           table' = [table EXCEPT ![SlotOf(h, p)] = [host |-> h, session |-> s]]
    PROVE  Placed'
<1> DEFINE j == SlotOf(h, p)
<1>1. j \in Slot
    BY SlotOfIsSlot
<1>2. /\ table'[j] = [host |-> h, session |-> s]
      /\ \A i \in Slot : i # j => table'[i] = table[i]
    BY <1>1 DEF TypeOK
<1>3. /\ table[j].host \in {NoHost, h}
      /\ \A q \in Probe : q < p => table[SlotOf(h, q)].host \notin {NoHost, h}
    BY DEF StoresAt, MayHold
<1>4. h # NoHost /\ s # NoSession
    BY TableAssumption
<1> SUFFICES ASSUME NEW i \in Slot, table'[i].host # NoHost
             PROVE  /\ table'[i].session # NoSession
                    /\ \E q \in Probe : HoldsAt(i, q)'
    BY DEF Placed
<1>5. CASE i = j
    <2>1. table'[i].host = h /\ table'[i].session = s
        BY <1>2, <1>5
    <2>2. ASSUME NEW q \in Probe, q < p
          PROVE  table'[SlotOf(h, q)].host \notin {NoHost, h}
        BY <1>2, <1>3, <2>2, SlotOfIsSlot
    <2>3. HoldsAt(i, p)'
        BY <1>4, <1>5, <2>1, <2>2 DEF HoldsAt, StoresAt, MayHold
    <2> QED
        BY <1>4, <2>1, <2>3
<1>6. CASE i # j
    <2> DEFINE g == table[i].host
    <2>1. table'[i] = table[i] /\ g # NoHost
        BY <1>2, <1>6
    <2>2. g \in Hosts
        BY <2>1 DEF TypeOK, Entry
    <2>3. PICK q \in Probe : i = SlotOf(g, q) /\ StoresAt(table, g, q)
        BY <2>1 DEF Placed, HoldsAt
    <2>4. g # h
        <3>1. SUFFICES ASSUME g = h PROVE FALSE
            OBVIOUS
        <3>2. q = p
            <4>1. ~(q < p)
                BY <1>3, <2>3, <3>1
            <4>2. ~(p < q)
                BY <1>3, <2>3, <3>1 DEF StoresAt, MayHold
            <4> QED
                BY <4>1, <4>2 DEF Probe
        <3> QED
            BY <1>6, <2>3, <3>1, <3>2
    <2>5. ASSUME NEW r \in Probe, r < q
          PROVE  table'[SlotOf(g, r)].host \notin {NoHost, g}
        <3>1. table[SlotOf(g, r)].host \notin {NoHost, g} /\ SlotOf(g, r) \in Slot
            BY <2>2, <2>3, <2>5, SlotOfIsSlot DEF StoresAt, MayHold
        <3>2. SlotOf(g, r) = j => table'[SlotOf(g, r)].host = h
            BY <1>2
        <3> QED
            BY <1>2, <1>4, <2>4, <3>1, <3>2
    <2>6. HoldsAt(i, q)'
        BY <2>1, <2>3, <2>5 DEF HoldsAt, StoresAt, MayHold
    <2> QED
        BY <2>1, <2>6 DEF Placed
<1> QED
    BY <1>5, <1>6

LEMMA UnchangedPlaced == Placed /\ table' = table => Placed'
BY DEF Placed, HoldsAt, StoresAt, MayHold

LEMMA NextKeepsPlaced ==
    ASSUME IInv, NEW c \in Contexts, Call(c) \/ Step(c) \/ Peer(c)
    PROVE  Placed'
<1>1. CASE Store(c)
    <2> DEFINE h == obj[at[c]].host
    <2>1. PICK p \in Probe :
              /\ StoresAt(table, h, p)
              /\ table' = [table EXCEPT ![SlotOf(h, p)] = [host |-> h, session |-> held[c]]]
        BY <1>1 DEF Store
    <2>2. at[c] # None /\ held[c] # NoSession /\ h # NoHost
        BY <1>1 DEF Store, IInv, InHand, Carries, HasInHand
    <2>3. h \in Hosts
        BY <2>2, InHandIsOwn DEF Session
    <2>4. held[c] \in SslSessions
        BY <2>2 DEF IInv, TypeOK
    <2> QED
        BY <2>1, <2>3, <2>4, StoreKeepsPlaced DEF IInv
<1>2. CASE ~Store(c)
    <2>1. table' = table
        BY <1>2 DEF Call, Step, Peer, SSLSetIOFuncs, SSLSetConnection, SSLSetPeerDomainName,
           CallHandshake, CallRead, SSLGetBufferedReadSize, SSLWrite, CallClose,
           AnswerHandshake, FailToStart, StartSession, HandshakeDone, HandshakeWouldBlock,
           HandshakeFails, Remember, FindNoSlot, Drop, Fill, OpenRecord, TakeTicket,
           EndRead, SSLClose
    <2> QED
        BY <2>1, UnchangedPlaced DEF IInv
<1> QED
    BY <1>1, <1>2

LEMMA PlacedIsOffered == TypeOK /\ Placed => KeptIsOffered
<1> SUFFICES ASSUME TypeOK, Placed, NEW i \in Slot, table[i].host # NoHost
             PROVE  \E p \in Probe :
                        /\ i = SlotOf(table[i].host, p)
                        /\ OffersAt(table, table[i].host, p)
    BY DEF KeptIsOffered
<1>1. PICK p \in Probe : HoldsAt(i, p)
    BY DEF Placed
<1>2. OffersAt(table, table[i].host, p)
    BY <1>1 DEF Placed, HoldsAt, StoresAt, MayHold, OffersAt, Has
<1> QED
    BY <1>1, <1>2 DEF HoldsAt

-----------------------------------------------------------------------------

LEMMA InitIInv == Init => IInv
<1> SUFFICES ASSUME Init PROVE IInv
    OBVIOUS
<1>1. PointersLive /\ Named /\ InHand /\ Sessioned
    BY DEF Init, PointersLive, Own, Named, InHand, Carries, HasInHand, Sessioned
<1>2. Placed
    BY DEF Init, Placed, Empty
<1> QED
    BY <1>1, <1>2, InitTypeOK DEF IInv

LEMMA NextIInv == IInv /\ [Next]_vars => IInv'
<1> SUFFICES ASSUME IInv, [Next]_vars PROVE IInv'
    OBVIOUS
<1>1. CASE UNCHANGED vars
    BY <1>1, UnchangedPlaced DEF vars, IInv, TypeOK, PointersLive, Own, Named, InHand,
       Carries, HasInHand, Sessioned
<1>2. ASSUME NEW c \in Contexts, Call(c) \/ Step(c) \/ Peer(c)
      PROVE  IInv'
    <2>1. TypeOK'
        BY <1>2, CallTypeOK, StepTypeOK, PeerTypeOK DEF IInv
    <2>2. Kept(c)
        BY <1>2, CallKeeps, StepKeeps, PeerKeeps
    <2>3. InHand'
        BY <2>2, OthersCarry DEF IInv, Kept
    <2>4. Placed'
        BY <1>2, NextKeepsPlaced
    <2> QED
        BY <2>1, <2>2, <2>3, <2>4 DEF IInv, Kept
<1> QED
    BY <1>1, <1>2 DEF Next

LEMMA Invariance == Spec => []IInv
BY InitIInv, NextIInv, PTL DEF Spec

\* The types of the shim's state, for any number of contexts, hosts and slots.
THEOREM TypeCorrect == Spec => []TypeOK
BY Invariance, PTL DEF IInv

\* A call's pointer stays its context's own, in the list and with its name, however
\* the calls on other contexts add and free theirs (tls-openssl.c:69-101).
THEOREM PointersStayLive == Spec => []PointersLive
BY Invariance, PTL DEF IInv

\* Whatever the hosts and their hashes, rememberSession and applyRememberedSession
\* agree: what a slot keeps is what its host is offered (tls-openssl.c:183-214).
THEOREM WhatIsKeptIsOffered == Spec => []KeptIsOffered
<1>1. IInv => KeptIsOffered
    BY PlacedIsOffered DEF IInv
<1> QED
    BY <1>1, Invariance, PTL

-----------------------------------------------------------------------------
(* References *)

\* Who holds a session: connections, slots, calls of rememberSession.
ByConnection(s) == {o \in sessions : obj[o].session = s}
BySlot(s) == {i \in Slot : table[i].session = s}
ByCall(s) == {c \in Contexts : held[c] = s}

\* A structure that was not started has no session, and a call holds one only between
\* rememberSession's two critical sections.
Unstarted ==
    \A o \in sessions :
        obj[o].ssl = "none" => obj[o].session = NoSession /\ ~obj[o].handshakeDone
HeldToStore ==
    \A c \in Contexts : pc[c] \notin {"store", "drop"} => held[c] = NoSession
FiniteHolders ==
    IsFiniteSet(sessions) /\ IsFiniteSet({c \in Contexts : held[c] # NoSession})

\* Who holds a session has it for a host, and it was made with that one.
Claims(s, h) ==
    \/ \E o \in sessions : obj[o].session = s /\ obj[o].host = h
    \/ \E i \in Slot : table[i].session = s /\ table[i].host = h /\ h # NoHost
    \/ \E c \in Contexts : held[c] = s /\ named[c] = h
ClaimsHold == \A s \in SslSessions : \A h : Claims(s, h) => live[s].host = h

RInv == Unstarted /\ HeldToStore /\ FiniteHolders /\ SessionsCounted /\ ClaimsHold

One(P) == IF P THEN 1 ELSE 0

\* Two finite sets that differ in one element at most.
LEMMA OneHolder ==
    ASSUME NEW A, NEW B, NEW x, IsFiniteSet(A), B \ {x} = A \ {x}
    PROVE  /\ IsFiniteSet(B) /\ Cardinality(A) \in Nat /\ Cardinality(B) \in Nat
           /\ Cardinality(B) = Cardinality(A) - One(x \in A) + One(x \in B)
<1> DEFINE R == A \ {x}
<1>1. IsFiniteSet(R) /\ Cardinality(R) = Cardinality(A) - One(x \in A)
      /\ Cardinality(A) \in Nat
    BY FS_RemoveElement, FS_CardinalityType DEF One
<1>2. x \notin R /\ B \in {R, R \cup {x}}
    OBVIOUS
<1>3. Cardinality(R) \in Nat
    BY <1>1, FS_CardinalityType
<1>4. CASE x \in B
    <2>1. B = R \cup {x}
        BY <1>2, <1>4
    <2> HIDE DEF R
    <2>2. IsFiniteSet(B) /\ Cardinality(B) = Cardinality(R) + 1
        BY <1>1, <1>2, <2>1, FS_AddElement
    <2> QED
        BY <1>1, <1>3, <1>4, <2>2 DEF One
<1>5. CASE x \notin B
    <2>1. B = R
        BY <1>2, <1>5
    <2> HIDE DEF R
    <2> QED
        BY <1>1, <1>3, <1>5, <2>1 DEF One
<1> QED
    BY <1>4, <1>5

\* The connection o holds `new' where it held `old'.
LEMMA ConnectionTakes ==
    ASSUME IsFiniteSet(sessions), NEW o, NEW old, NEW new,
           sessions' \ {o} = sessions \ {o},
           \A p \in sessions \ {o} : obj'[p].session = obj[p].session,
           IF o \in sessions THEN obj[o].session = old ELSE old = NoSession,
           IF o \in sessions' THEN obj'[o].session = new ELSE new = NoSession
    PROVE  /\ IsFiniteSet(sessions')
           /\ \A s \in SslSessions :
                 /\ Cardinality(ByConnection(s)) \in Nat
                 /\ Cardinality(ByConnection(s))' =
                        Cardinality(ByConnection(s)) + One(s = new) - One(s = old)
<1>1. IsFiniteSet(sessions')
    BY OneHolder
<1> SUFFICES ASSUME NEW s \in SslSessions
             PROVE  /\ Cardinality(ByConnection(s)) \in Nat
                    /\ Cardinality(ByConnection(s))' =
                           Cardinality(ByConnection(s)) + One(s = new) - One(s = old)
    BY <1>1
<1> DEFINE A == ByConnection(s)
<1> DEFINE B == ByConnection(s)'
<1>2. IsFiniteSet(A)
    BY FS_Subset DEF ByConnection
<1>3. B \ {o} = A \ {o}
    BY DEF ByConnection
<1>4. (o \in A <=> s = old) /\ (o \in B <=> s = new)
    BY TableAssumption DEF ByConnection
<1> HIDE DEF A, B
<1>5. /\ Cardinality(A) \in Nat
      /\ Cardinality(B) = Cardinality(A) - One(o \in A) + One(o \in B)
    BY <1>2, <1>3, OneHolder
<1>6. One(o \in A) = One(s = old) /\ One(o \in B) = One(s = new)
    BY <1>4 DEF One
<1>7. Cardinality(B) = Cardinality(A) + One(s = new) - One(s = old)
    BY <1>5, <1>6 DEF One
<1> QED
    BY <1>5, <1>7 DEF A, B

\* The slot i is given `new' where it had `old'.
LEMMA SlotTakes ==
    ASSUME NEW i \in Slot, NEW new, table'[i].session = new,
           \A j \in Slot : j # i => table'[j] = table[j]
    PROVE  \A s \in SslSessions :
              /\ Cardinality(BySlot(s)) \in Nat
              /\ Cardinality(BySlot(s))' =
                     Cardinality(BySlot(s)) + One(s = new) - One(s = table[i].session)
<1> SUFFICES ASSUME NEW s \in SslSessions
             PROVE  /\ Cardinality(BySlot(s)) \in Nat
                    /\ Cardinality(BySlot(s))' =
                           Cardinality(BySlot(s)) + One(s = new) - One(s = table[i].session)
    OBVIOUS
<1> DEFINE A == BySlot(s)
<1> DEFINE B == BySlot(s)'
<1>1. IsFiniteSet(Slot)
    BY TableAssumption, FS_Interval DEF Slot
<1>2. IsFiniteSet(A)
    BY <1>1, FS_Subset DEF BySlot
<1>3. B \ {i} = A \ {i}
    BY DEF BySlot
<1>4. (i \in A <=> s = table[i].session) /\ (i \in B <=> s = new)
    BY DEF BySlot
<1> HIDE DEF A, B
<1>5. /\ Cardinality(A) \in Nat
      /\ Cardinality(B) = Cardinality(A) - One(i \in A) + One(i \in B)
    BY <1>2, <1>3, OneHolder
<1>6. One(i \in A) = One(s = table[i].session) /\ One(i \in B) = One(s = new)
    BY <1>4 DEF One
<1>7. Cardinality(B) = Cardinality(A) + One(s = new) - One(s = table[i].session)
    BY <1>5, <1>6 DEF One
<1> QED
    BY <1>5, <1>7 DEF A, B

\* The call on c holds `new' where it held another.
LEMMA CallTakes ==
    ASSUME FiniteHolders, NEW c \in Contexts, NEW new, held'[c] = new,
           \A d \in Contexts : d # c => held'[d] = held[d]
    PROVE  /\ IsFiniteSet({d \in Contexts : held'[d] # NoSession})
           /\ \A s \in SslSessions :
                 /\ Cardinality(ByCall(s)) \in Nat
                 /\ Cardinality(ByCall(s))' =
                        Cardinality(ByCall(s)) + One(s = new) - One(s = held[c])
<1>1. IsFiniteSet({d \in Contexts : held'[d] # NoSession})
    <2> DEFINE P == {d \in Contexts : held[d] # NoSession}
    <2> DEFINE Q == {d \in Contexts : held'[d] # NoSession}
    <2>1. IsFiniteSet(P) /\ Q \ {c} = P \ {c}
        BY DEF FiniteHolders
    <2> HIDE DEF P, Q
    <2>2. IsFiniteSet(Q)
        BY <2>1, OneHolder
    <2> QED
        BY <2>2 DEF Q
<1> SUFFICES ASSUME NEW s \in SslSessions
             PROVE  /\ Cardinality(ByCall(s)) \in Nat
                    /\ Cardinality(ByCall(s))' =
                           Cardinality(ByCall(s)) + One(s = new) - One(s = held[c])
    BY <1>1
<1> DEFINE A == ByCall(s)
<1> DEFINE B == ByCall(s)'
<1>2. IsFiniteSet(A)
    <2>1. A \subseteq {d \in Contexts : held[d] # NoSession}
        BY TableAssumption DEF ByCall
    <2> QED
        BY <2>1, FS_Subset DEF FiniteHolders
<1>3. B \ {c} = A \ {c}
    BY DEF ByCall
<1>4. (c \in A <=> s = held[c]) /\ (c \in B <=> s = new)
    BY DEF ByCall
<1> HIDE DEF A, B
<1>5. /\ Cardinality(A) \in Nat
      /\ Cardinality(B) = Cardinality(A) - One(c \in A) + One(c \in B)
    BY <1>2, <1>3, OneHolder
<1>6. One(c \in A) = One(s = held[c]) /\ One(c \in B) = One(s = new)
    BY <1>4 DEF One
<1>7. Cardinality(B) = Cardinality(A) + One(s = new) - One(s = held[c])
    BY <1>5, <1>6 DEF One
<1> QED
    BY <1>5, <1>7 DEF A, B

LEMMA ExchangedRefs ==
    ASSUME TypeOK, NEW old, NEW new, NEW s \in SslSessions
    PROVE  /\ live[s].refs \in Int
           /\ Exchanged(old, new)[s].refs = live[s].refs + One(s = new) - One(s = old)
           /\ Exchanged(old, new)[s].refs # 0 => Exchanged(old, new)[s].host = live[s].host
<1> DEFINE n == live[s].refs + (IF s = new THEN 1 ELSE 0) - (IF s = old THEN 1 ELSE 0)
<1>1. live[s] \in SslSession /\ live[s].refs \in Int
    BY DEF TypeOK, SslSession
<1>2. Exchanged(old, new)[s] = IF n = 0 THEN Freed ELSE [live[s] EXCEPT !.refs = n]
    BY DEF Exchanged
<1>3. n = live[s].refs + One(s = new) - One(s = old)
    BY DEF One
<1> HIDE DEF n
<1>4. /\ [live[s] EXCEPT !.refs = n].refs = n
      /\ [live[s] EXCEPT !.refs = n].host = live[s].host
    BY <1>1 DEF SslSession
<1>5. Freed.refs = 0
    BY DEF Freed
<1> QED
    BY <1>1, <1>2, <1>3, <1>4, <1>5

Holders(s) ==
    Cardinality(ByConnection(s)) + Cardinality(BySlot(s)) + Cardinality(ByCall(s))

LEMMA CountedAsHolders ==
    SessionsCounted <=> \A s \in SslSessions : live[s].refs = Holders(s)
BY DEF SessionsCounted, Holders, ByConnection, BySlot, ByCall

LEMMA CountedAsHoldersNext ==
    SessionsCounted' <=> \A s \in SslSessions : live'[s].refs = Holders(s)'
BY DEF SessionsCounted, Holders, ByConnection, BySlot, ByCall

LEMMA FinitelyHeld ==
    FiniteHolders => \A s \in SslSessions :
        /\ IsFiniteSet(ByConnection(s)) /\ Cardinality(ByConnection(s)) \in Nat
        /\ IsFiniteSet(BySlot(s)) /\ Cardinality(BySlot(s)) \in Nat
        /\ IsFiniteSet(ByCall(s)) /\ Cardinality(ByCall(s)) \in Nat
<1> SUFFICES ASSUME FiniteHolders, NEW s \in SslSessions
             PROVE  /\ IsFiniteSet(ByConnection(s)) /\ Cardinality(ByConnection(s)) \in Nat
                    /\ IsFiniteSet(BySlot(s)) /\ Cardinality(BySlot(s)) \in Nat
                    /\ IsFiniteSet(ByCall(s)) /\ Cardinality(ByCall(s)) \in Nat
    OBVIOUS
<1>1. IsFiniteSet(ByConnection(s))
    BY FS_Subset DEF FiniteHolders, ByConnection
<1>2. IsFiniteSet(BySlot(s))
    <2>1. IsFiniteSet(Slot)
        BY TableAssumption, FS_Interval DEF Slot
    <2> QED
        BY <2>1, FS_Subset DEF BySlot
<1>3. IsFiniteSet(ByCall(s))
    <2>1. ByCall(s) \subseteq {d \in Contexts : held[d] # NoSession}
        BY TableAssumption DEF ByCall
    <2> QED
        BY <2>1, FS_Subset DEF FiniteHolders
<1> QED
    BY <1>1, <1>2, <1>3, FS_CardinalityType

\* What is held has a reference.
LEMMA ClaimedIsCounted ==
    FiniteHolders /\ SessionsCounted =>
        \A s \in SslSessions : (\E h : Claims(s, h)) => live[s].refs > 0
<1> SUFFICES ASSUME FiniteHolders, SessionsCounted, NEW s \in SslSessions,
                    NEW h, Claims(s, h)
             PROVE  live[s].refs > 0
    OBVIOUS
<1>1. ByConnection(s) # {} \/ BySlot(s) # {} \/ ByCall(s) # {}
    BY DEF Claims, ByConnection, BySlot, ByCall
<1>2. \/ Cardinality(ByConnection(s)) # 0
      \/ Cardinality(BySlot(s)) # 0
      \/ Cardinality(ByCall(s)) # 0
    BY <1>1, FinitelyHeld, FS_EmptySet
<1> QED
    BY <1>2, FinitelyHeld, CountedAsHolders DEF Holders

LEMMA ClaimedIsCountedNext ==
    (FiniteHolders /\ SessionsCounted =>
        \A s \in SslSessions : (\E h : Claims(s, h)) => live[s].refs > 0)'
BY ClaimedIsCounted, PTL

\* A step in which a reference to `old' becomes one to `new', and nothing is had for a
\* host that was not had for it before.
Hands(old, new) ==
    \A s \in SslSessions :
        Holders(s) \in Int /\ Holders(s)' = Holders(s) + One(s = new) - One(s = old)
NoNewClaim == \A s \in SslSessions : \A h : Claims(s, h)' => Claims(s, h)

LEMMA ExchangeCounts ==
    ASSUME TypeOK, SessionsCounted, NEW old, NEW new, Hands(old, new),
           \A s \in SslSessions : live'[s].refs = Exchanged(old, new)[s].refs
    PROVE  SessionsCounted'
<1>1. \A s \in SslSessions : live'[s].refs = Holders(s)'
    BY ExchangedRefs, CountedAsHolders DEF Hands
<1> QED
    BY <1>1, CountedAsHoldersNext

LEMMA ExchangeKeeps ==
    ASSUME TypeOK, RInv, NEW old, NEW new, Hands(old, new), NoNewClaim,
           live' = Exchanged(old, new), FiniteHolders'
    PROVE  SessionsCounted' /\ ClaimsHold'
<1>1. SessionsCounted'
    BY ExchangeCounts DEF RInv
<1>2. ASSUME NEW s \in SslSessions, NEW h, Claims(s, h)'
      PROVE  live'[s].host = h
    <2>1. live'[s].refs > 0
        BY <1>1, <1>2, ClaimedIsCountedNext
    <2>2. live'[s].refs # 0
        BY <2>1, CountedAsHoldersNext
    <2>3. live'[s].host = live[s].host
        BY <2>2, ExchangedRefs
    <2> QED
        BY <1>2, <2>3 DEF NoNewClaim, RInv, ClaimsHold
<1> QED
    BY <1>1, <1>2 DEF ClaimsHold

\* A step that passes no reference on.
Quiet ==
    /\ live' = live /\ table' = table /\ held' = held
    /\ sessions' = sessions \/ \E o : sessions' = sessions \cup {o}
    /\ \A p \in sessions :
          /\ obj'[p].session = obj[p].session
          /\ obj[p].session # NoSession => obj'[p].host = obj[p].host
    /\ \A p \in sessions' \ sessions : obj'[p].session = NoSession
    /\ \A d \in Contexts : held[d] # NoSession => named'[d] = named[d]

LEMMA QuietKeeps ==
    ASSUME RInv, Quiet
    PROVE  FiniteHolders' /\ SessionsCounted' /\ ClaimsHold'
<1>1. FiniteHolders'
    BY FS_AddElement DEF Quiet, FiniteHolders, RInv
<1>2. \A s \in SslSessions :
          ByConnection(s)' = ByConnection(s) /\ BySlot(s)' = BySlot(s) /\ ByCall(s)' = ByCall(s)
    BY TableAssumption DEF Quiet, ByConnection, BySlot, ByCall
<1>3. SessionsCounted'
    BY <1>2, CountedAsHolders, CountedAsHoldersNext DEF Holders, RInv, Quiet
<1>4. \A s \in SslSessions : \A h : Claims(s, h)' => Claims(s, h)
    BY TableAssumption DEF Quiet, Claims
<1>5. ClaimsHold'
    BY <1>4 DEF ClaimsHold, RInv, Quiet
<1> QED
    BY <1>1, <1>3, <1>5

LEMMA SettingIsQuiet ==
    ASSUME IInv, RInv, NEW c \in Contexts, NEW o \in Addressed(c), NEW fields,
           Link(c, o, fields),
           fields.session = Fields(c, o).session, fields.ssl = Fields(c, o).ssl,
           fields.handshakeDone = Fields(c, o).handshakeDone,
           fields.host = Fields(c, o).host \/ Fields(c, o).session = NoSession,
           live' = live, table' = table, held' = held,
           \A d \in Contexts : held[d] # NoSession => named'[d] = named[d]
    PROVE  Quiet /\ Unstarted'
<1>1. o \in Objs /\ sessions \subseteq Objs
    BY AddressedType DEF IInv, TypeOK
<1>2. obj'[o] = fields /\ \A p \in sessions : p # o => obj'[p] = obj[p]
    BY <1>1 DEF Link, IInv, TypeOK
<1>3. sessions' = sessions \cup {o}
    BY DEF Link
<1>4. CASE o \in sessions
    <2>1. Fields(c, o) = obj[o]
        BY <1>4 DEF Fields
    <2> QED
        BY <1>2, <1>3, <1>4, <2>1 DEF Quiet, Unstarted, RInv
<1>5. CASE o \notin sessions
    <2>1. Fields(c, o).session = NoSession /\ ~Fields(c, o).handshakeDone
        BY <1>5 DEF Fields, Zeroed
    <2> QED
        BY <1>2, <1>3, <1>5, <2>1 DEF Quiet, Unstarted, RInv
<1> QED
    BY <1>4, <1>5

\* What CFNetwork sets up has nothing yet.
LEMMA SettableHasNone ==
    ASSUME RInv, NEW c \in Contexts, MaySet(c), NEW o \in Addressed(c)
    PROVE  Fields(c, o).session = NoSession /\ held[c] = NoSession
<1>1. held[c] = NoSession
    BY DEF RInv, HeldToStore, MaySet
<1>2. CASE o \in sessions
    <2>1. o \in Own(c) /\ Fields(c, o) = obj[o]
        BY <1>2 DEF Addressed, Fields, Own
    <2>2. {p \in Own(c) : obj[p].ssl # "none"} = {}
        BY DEF MaySet, Phase
    <2>3. obj[o].ssl = "none"
        BY <2>1, <2>2
    <2> QED
        BY <1>1, <1>2, <2>1, <2>3 DEF RInv, Unstarted
<1>3. CASE o \notin sessions
    BY <1>1, <1>3 DEF Fields, Zeroed
<1> QED
    BY <1>2, <1>3

LEMMA PutIsQuiet ==
    ASSUME IInv, RInv, NEW c \in Contexts, NEW o \in Own(c), NEW fields,
           Put(o, fields), fields.session = obj[o].session, fields.host = obj[o].host,
           fields.ssl = "none" => obj[o].session = NoSession /\ ~fields.handshakeDone,
           sessions' = sessions, live' = live, table' = table, held' = held, named' = named
    PROVE  Quiet /\ Unstarted'
<1>1. o \in Objs /\ sessions \subseteq Objs
    BY DEF Own, IInv, TypeOK
<1>2. obj'[o] = fields /\ \A p \in sessions : p # o => obj'[p] = obj[p]
    BY <1>1 DEF Put, IInv, TypeOK
<1> QED
    BY <1>2 DEF Quiet, Unstarted, RInv

LEMMA HeldToStoreKept ==
    ASSUME RInv, NEW c \in Contexts, Frame(c),
           pc'[c] \notin {"store", "drop"} => held'[c] = NoSession
    PROVE  HeldToStore'
BY DEF RInv, HeldToStore, Frame

LEMMA CallRefs ==
    ASSUME IInv, RInv, NEW c \in Contexts, Call(c)
    PROVE  RInv'
<1>00. SUFFICES Quiet /\ Unstarted' /\ (pc'[c] \notin {"store", "drop"} => held'[c] = NoSession)
    BY QuietKeeps, HeldToStoreKept, CallKeeps DEF Kept, RInv
<1>0. pc[c] = "idle" /\ held[c] = NoSession
    BY DEF Call, SSLSetIOFuncs, SSLSetConnection, SSLSetPeerDomainName, MaySet,
       CallHandshake, CallRead, SSLGetBufferedReadSize, SSLWrite, CallClose,
       RInv, HeldToStore
<1>2. live' = live /\ table' = table /\ held' = held
    BY DEF Call, SSLSetIOFuncs, SSLSetConnection, SSLSetPeerDomainName,
       CallHandshake, CallRead, SSLGetBufferedReadSize, SSLWrite, CallClose
<1>3. CASE SSLSetIOFuncs(c)
    <2>1. PICK o \in Addressed(c) : Link(c, o, [Fields(c, o) EXCEPT !.io = TRUE])
        BY <1>3 DEF SSLSetIOFuncs
    <2> DEFINE f == [Fields(c, o) EXCEPT !.io = TRUE]
    <2>2. Fields(c, o) \in Session
        BY FieldsOf
    <2>3. /\ f.session = Fields(c, o).session /\ f.ssl = Fields(c, o).ssl
          /\ f.handshakeDone = Fields(c, o).handshakeDone
          /\ f.host = Fields(c, o).host
        BY <2>2 DEF Session
    <2>4. named' = named
        BY <1>3 DEF SSLSetIOFuncs
    <2> HIDE DEF f
    <2>5. Quiet /\ Unstarted'
        BY <1>2, <2>1, <2>3, <2>4, SettingIsQuiet DEF f
    <2> QED
        BY <1>0, <1>2, <2>5
<1>4. CASE SSLSetConnection(c)
    <2>1. PICK o \in Addressed(c) : Link(c, o, Fields(c, o))
        BY <1>4 DEF SSLSetConnection
    <2>2. named' = named
        BY <1>4 DEF SSLSetConnection
    <2>3. Quiet /\ Unstarted'
        BY <1>2, <2>1, <2>2, SettingIsQuiet
    <2> QED
        BY <1>0, <1>2, <2>3
<1>5. CASE SSLSetPeerDomainName(c)
    <2>1. PICK h \in Hosts :
              /\ \E o \in Addressed(c) : Link(c, o, [Fields(c, o) EXCEPT !.host = h])
              /\ named' = [named EXCEPT ![c] = h]
        BY <1>5 DEF SSLSetPeerDomainName
    <2>2. PICK o \in Addressed(c) : Link(c, o, [Fields(c, o) EXCEPT !.host = h])
        BY <2>1
    <2> DEFINE f == [Fields(c, o) EXCEPT !.host = h]
    <2>3. Fields(c, o) \in Session
        BY FieldsOf
    <2>4. /\ f.session = Fields(c, o).session /\ f.ssl = Fields(c, o).ssl
          /\ f.handshakeDone = Fields(c, o).handshakeDone
        BY <2>3 DEF Session
    <2>5. Fields(c, o).session = NoSession
        BY <1>5, SettableHasNone DEF SSLSetPeerDomainName
    <2>6. \A d \in Contexts : held[d] # NoSession => named'[d] = named[d]
        BY <1>0, <2>1 DEF IInv, TypeOK
    <2> HIDE DEF f
    <2>7. Quiet /\ Unstarted'
        BY <1>2, <2>2, <2>4, <2>5, <2>6, SettingIsQuiet DEF f
    <2> QED
        BY <1>0, <1>2, <2>7
<1>6. CASE CallHandshake(c)
    <2>1. named' = named
        BY <1>6 DEF CallHandshake
    <2>2. CASE Find(c)
        BY <1>0, <1>2, <2>1, <2>2 DEF Find, Quiet, Unstarted, RInv
    <2>3. ASSUME NEW o \in Addressed(c), Link(c, o, Fields(c, o))
          PROVE  Quiet /\ Unstarted'
        BY <1>2, <2>1, <2>3, SettingIsQuiet
    <2> QED
        BY <1>0, <1>2, <1>6, <2>2, <2>3 DEF CallHandshake
<1>7. CASE CallRead(c) \/ CallClose(c) \/ SSLGetBufferedReadSize(c)
    <2>1. UNCHANGED <<sessions, obj, named>>
        BY <1>7 DEF CallRead, CallClose, Find, SSLGetBufferedReadSize
    <2> QED
        BY <1>0, <1>2, <2>1 DEF Quiet, Unstarted, RInv
<1>8. CASE SSLWrite(c)
    <2>1. PICK o \in Own(c) : Put(o, [obj[o] EXCEPT !.awaitingFirstByte = TRUE])
        BY <1>8 DEF SSLWrite
    <2> DEFINE f == [obj[o] EXCEPT !.awaitingFirstByte = TRUE]
    <2>2. obj[o] \in Session /\ o \in sessions
        BY DEF Own, IInv, TypeOK
    <2>3. /\ f.session = obj[o].session /\ f.host = obj[o].host
          /\ f.ssl = obj[o].ssl /\ f.handshakeDone = obj[o].handshakeDone
        BY <2>2 DEF Session
    <2>4. sessions' = sessions /\ named' = named
        BY <1>8 DEF SSLWrite
    <2> HIDE DEF f
    <2>5. Quiet /\ Unstarted'
        BY <1>2, <2>1, <2>2, <2>3, <2>4, PutIsQuiet DEF f, RInv, Unstarted
    <2> QED
        BY <1>0, <1>2, <2>5
<1> QED
    BY <1>3, <1>4, <1>5, <1>6, <1>7, <1>8 DEF Call

LEMMA PeerRefs ==
    ASSUME IInv, RInv, NEW c \in Contexts, Peer(c)
    PROVE  RInv'
<1>1. UNCHANGED <<sessions, obj, named, live, table, held, pc>>
    BY DEF Peer
<1>2. Quiet /\ Unstarted' /\ HeldToStore'
    BY <1>1 DEF Quiet, Unstarted, HeldToStore, RInv
<1> QED
    BY <1>2, QuietKeeps DEF RInv

\* One connection's reference, while slots and calls keep theirs.
LEMMA ConnectionHands ==
    ASSUME RInv, NEW o, NEW old, NEW new,
           sessions' \ {o} = sessions \ {o},
           \A p \in sessions \ {o} : obj'[p].session = obj[p].session,
           IF o \in sessions THEN obj[o].session = old ELSE old = NoSession,
           IF o \in sessions' THEN obj'[o].session = new ELSE new = NoSession,
           table' = table, held' = held
    PROVE  Hands(old, new) /\ FiniteHolders'
<1>1. /\ IsFiniteSet(sessions')
      /\ \A s \in SslSessions :
            /\ Cardinality(ByConnection(s)) \in Nat
            /\ Cardinality(ByConnection(s))' =
                   Cardinality(ByConnection(s)) + One(s = new) - One(s = old)
    BY ConnectionTakes DEF RInv, FiniteHolders
<1>2. \A s \in SslSessions : BySlot(s)' = BySlot(s) /\ ByCall(s)' = ByCall(s)
    BY DEF BySlot, ByCall
<1>3. \A s \in SslSessions : Cardinality(BySlot(s)) \in Nat /\ Cardinality(ByCall(s)) \in Nat
    BY FinitelyHeld DEF RInv
<1>4. ASSUME NEW s \in SslSessions
      PROVE  Holders(s) \in Int /\ Holders(s)' = Holders(s) + One(s = new) - One(s = old)
    <2>1. One(s = new) \in Int /\ One(s = old) \in Int
        BY DEF One
    <2> QED
        BY <1>1, <1>2, <1>3, <2>1 DEF Holders
<1> QED
    BY <1>1, <1>4 DEF Hands, FiniteHolders, RInv

\* A connection that gets a session of its own gives back the one it had.
LEMMA NewSslSessionRefs ==
    ASSUME IInv, RInv, NEW c \in Contexts, at[c] # None, NewSslSession(c),
           sessions' = sessions, table' = table, held' = held, named' = named
    PROVE  Unstarted' /\ FiniteHolders' /\ SessionsCounted' /\ ClaimsHold'
<1> DEFINE s == CHOOSE x \in SslSessions : live[x] = Freed
<1> DEFINE o == at[c]
<1> DEFINE old == obj[o].session
<1> DEFINE f == [obj[o] EXCEPT !.session = s, !.ssl = "up", !.handshakeDone = TRUE]
<1> DEFINE e == Exchanged(old, s)
<1>1. s \in SslSessions /\ live[s] = Freed
    BY DEF NewSslSession
<1>2. Put(o, f) /\ live' = [e EXCEPT ![s].host = named[c]]
    BY DEF NewSslSession
<1>3. e \in [SslSessions -> SslSession]
    BY ExchangedType DEF IInv
<1> HIDE DEF s
<1>4. o \in Own(c) /\ o \in Objs /\ o \in sessions /\ obj[o] \in Session
    BY InHandIsOwn
<1>5. f.host = obj[o].host /\ f.session = s /\ f.ssl = "up"
    BY <1>4 DEF Session
<1> HIDE DEF f
<1>6. obj'[o] = f /\ \A p \in sessions \ {o} : obj'[p] = obj[p]
    BY <1>2, <1>4 DEF Put, IInv, TypeOK
<1>7. Hands(old, s) /\ FiniteHolders'
    <2>1. obj'[o].session = s
        BY <1>5, <1>6
    <2>2. \A p \in sessions \ {o} : obj'[p].session = obj[p].session
        BY <1>6
    <2> QED
        BY <1>4, <2>1, <2>2, ConnectionHands
<1> HIDE DEF e
<1>8. /\ \A x \in SslSessions : live'[x].refs = e[x].refs
      /\ \A x \in SslSessions : x # s => live'[x].host = e[x].host
      /\ live'[s].host = named[c]
    BY <1>1, <1>2, <1>3 DEF SslSession
<1>9. SessionsCounted'
    BY <1>7, <1>8, ExchangeCounts DEF e, RInv, IInv
<1>10. live[s].refs = 0
    BY <1>1 DEF Freed
<1>11. \A h : ~Claims(s, h)
    BY <1>1, <1>10, ClaimedIsCounted DEF RInv
<1>12. obj[o].host = named[c]
    BY <1>4 DEF IInv, PointersLive
<1>13. \A x \in SslSessions : \A h : Claims(x, h)' => Claims(x, h) \/ (x = s /\ h = named[c])
    BY <1>5, <1>6, <1>12 DEF Claims
<1>14. ASSUME NEW x \in SslSessions, NEW h, Claims(x, h)'
       PROVE  live'[x].host = h
    <2>1. CASE x = s
        BY <1>8, <1>11, <1>13, <1>14, <2>1
    <2>2. CASE x # s
        <3>1. Claims(x, h)
            BY <1>13, <1>14, <2>2
        <3>2. live'[x].refs > 0
            BY <1>7, <1>9, <1>14, ClaimedIsCountedNext
        <3>3. e[x].refs # 0
            BY <1>8, <3>2
        <3>4. e[x].host = live[x].host
            BY <3>3, ExchangedRefs DEF e, IInv
        <3> QED
            BY <1>8, <2>2, <3>1, <3>4 DEF RInv, ClaimsHold
    <2> QED
        BY <2>1, <2>2
<1>15. Unstarted'
    BY <1>5, <1>6 DEF Unstarted, RInv
<1> QED
    BY <1>7, <1>9, <1>14, <1>15 DEF ClaimsHold

\* applyRememberedSession offers what the table has for that very host.
LEMMA OfferedIsClaimed ==
    ASSUME NEW h, NEW s \in Offered(h)
    PROVE  h # NoHost /\ \E p \in Probe : table[SlotOf(h, p)].session = s
                                          /\ table[SlotOf(h, p)].host = h
BY DEF Offered, OffersAt, Has

LEMMA StartRefs ==
    ASSUME IInv, RInv, NEW c \in Contexts, StartSession(c)
    PROVE  Unstarted' /\ FiniteHolders' /\ SessionsCounted' /\ ClaimsHold'
<1> DEFINE o == at[c]
<1>1. /\ o \in Own(c) /\ o \in sessions /\ o \in Objs /\ obj[o] \in Session
      /\ ~obj[o].handshakeDone
    BY InHandIsOwn DEF StartSession, Begins
<1>2. /\ sessions' = sessions /\ table' = table /\ held' = held /\ named' = named
    BY DEF StartSession
<1>3. CASE UNCHANGED <<obj, live>>
    <2>1. Quiet /\ Unstarted'
        BY <1>2, <1>3 DEF Quiet, Unstarted, RInv
    <2> QED
        BY <2>1, QuietKeeps
<1>4. ASSUME Put(o, [obj[o] EXCEPT !.ssl = "ready"]), UNCHANGED live
      PROVE  Unstarted' /\ FiniteHolders' /\ SessionsCounted' /\ ClaimsHold'
    <2> DEFINE f == [obj[o] EXCEPT !.ssl = "ready"]
    <2>1. f.session = obj[o].session /\ f.host = obj[o].host /\ f.ssl = "ready"
        BY <1>1 DEF Session
    <2> HIDE DEF f
    <2>2. Quiet /\ Unstarted'
        BY <1>1, <1>2, <1>4, <2>1, PutIsQuiet DEF f
    <2> QED
        BY <2>2, QuietKeeps
<1>5. ASSUME obj[o].ssl = "none", NEW s \in Offered(obj[o].host),
             live' = Exchanged(NoSession, s),
             Put(o, [obj[o] EXCEPT !.ssl = "ready", !.session = s])
      PROVE  Unstarted' /\ FiniteHolders' /\ SessionsCounted' /\ ClaimsHold'
    <2> DEFINE f == [obj[o] EXCEPT !.ssl = "ready", !.session = s]
    <2>1. f.session = s /\ f.host = obj[o].host /\ f.ssl = "ready"
        BY <1>1 DEF Session
    <2> HIDE DEF f
    <2>2. obj'[o] = f /\ \A p \in sessions \ {o} : obj'[p] = obj[p]
        BY <1>1, <1>5 DEF f, Put, IInv, TypeOK
    <2>3. obj[o].session = NoSession
        BY <1>1, <1>5 DEF RInv, Unstarted
    <2>4. Hands(NoSession, s) /\ FiniteHolders'
        BY <1>1, <1>2, <2>1, <2>2, <2>3, ConnectionHands
    <2>5. Claims(s, obj[o].host)
        <3>1. obj[o].host \in Hosts /\ obj[o].host # NoHost
            BY <1>1, <1>5, OfferedIsClaimed DEF Session
        <3>2. PICK p \in Probe : /\ table[SlotOf(obj[o].host, p)].session = s
                                 /\ table[SlotOf(obj[o].host, p)].host = obj[o].host
            BY <1>5, OfferedIsClaimed
        <3> QED
            BY <3>1, <3>2, SlotOfIsSlot DEF Claims
    <2>6. NoNewClaim
        BY <1>2, <2>1, <2>2, <2>5 DEF NoNewClaim, Claims
    <2>7. Unstarted'
        BY <1>2, <2>1, <2>2 DEF Unstarted, RInv
    <2> QED
        BY <1>5, <2>4, <2>6, <2>7, ExchangeKeeps DEF IInv
<1> QED
    BY <1>3, <1>4, <1>5 DEF StartSession

\* rememberSession takes a reference of its own.
LEMMA RememberRefs ==
    ASSUME IInv, RInv, NEW c \in Contexts, Remember(c)
    PROVE  Unstarted' /\ FiniteHolders' /\ SessionsCounted' /\ ClaimsHold'
<1> DEFINE o == at[c]
<1>1. /\ sessions' = sessions /\ obj' = obj /\ table' = table /\ named' = named
    BY DEF Remember
<1>2. Unstarted'
    BY <1>1 DEF Unstarted, RInv
<1>3. CASE obj[o].host = NoHost
    <2>1. Quiet
        BY <1>1, <1>3 DEF Remember, Quiet
    <2> QED
        BY <1>2, <2>1, QuietKeeps
<1>4. CASE obj[o].host # NoHost
    <2> DEFINE x == obj[o].session
    <2>1. held' = [held EXCEPT ![c] = x] /\ live' = Exchanged(NoSession, x)
        BY <1>4 DEF Remember
    <2>2. held[c] = NoSession
        BY DEF Remember, RInv, HeldToStore
    <2>3. o \in Own(c) /\ o \in sessions
        BY InHandIsOwn DEF Remember, IInv, InHand, Carries, HasInHand
    <2>4. obj[o].host = named[c]
        BY <2>3 DEF IInv, PointersLive
    <2>5. held'[c] = x /\ \A d \in Contexts : d # c => held'[d] = held[d]
        BY <2>1 DEF IInv, TypeOK
    <2>6. NoNewClaim
        BY <1>1, <2>3, <2>4, <2>5 DEF NoNewClaim, Claims
    <2> HIDE DEF x
    <2>7. /\ IsFiniteSet({d \in Contexts : held'[d] # NoSession})
          /\ \A s \in SslSessions :
                /\ Cardinality(ByCall(s)) \in Nat
                /\ Cardinality(ByCall(s))' =
                       Cardinality(ByCall(s)) + One(s = x) - One(s = held[c])
        BY <2>5, CallTakes DEF RInv
    <2>8. \A s \in SslSessions :
              /\ ByConnection(s)' = ByConnection(s) /\ BySlot(s)' = BySlot(s)
              /\ Cardinality(ByConnection(s)) \in Nat /\ Cardinality(BySlot(s)) \in Nat
        BY <1>1, FinitelyHeld DEF ByConnection, BySlot, RInv
    <2>9. Hands(NoSession, x)
        BY <2>2, <2>7, <2>8 DEF Hands, Holders, One
    <2>10. FiniteHolders'
        BY <1>1, <2>7 DEF FiniteHolders, RInv
    <2> QED
        BY <1>2, <2>1, <2>6, <2>9, <2>10, ExchangeKeeps DEF IInv
<1> QED
    BY <1>3, <1>4

\* The slot gets the call's reference, and what it had is released.
LEMMA StoreRefs ==
    ASSUME IInv, RInv, NEW c \in Contexts, Store(c)
    PROVE  Unstarted' /\ FiniteHolders' /\ SessionsCounted' /\ ClaimsHold'
<1> DEFINE o == at[c]
<1> DEFINE h == obj[o].host
<1>1. /\ sessions' = sessions /\ obj' = obj /\ named' = named
      /\ held' = [held EXCEPT ![c] = NoSession]
    BY DEF Store
<1>2. PICK p \in Probe :
          /\ table' = [table EXCEPT ![SlotOf(h, p)] = [host |-> h, session |-> held[c]]]
          /\ live' = Exchanged(table[SlotOf(h, p)].session, NoSession)
    BY DEF Store
<1>3. o \in Own(c) /\ o \in sessions /\ h \in Hosts
    <2>1. o # None /\ h # NoHost
        BY DEF Store, IInv, InHand, Carries, HasInHand
    <2> QED
        BY <2>1, InHandIsOwn DEF Session
<1> DEFINE i == SlotOf(h, p)
<1> DEFINE e == [host |-> h, session |-> held[c]]
<1> DEFINE old == table[i].session
<1>4. i \in Slot
    BY <1>3, SlotOfIsSlot
<1>5. h = named[c]
    BY <1>3 DEF IInv, PointersLive
<1>6. /\ table'[i] = e /\ \A j \in Slot : j # i => table'[j] = table[j]
      /\ held'[c] = NoSession /\ \A d \in Contexts : d # c => held'[d] = held[d]
    BY <1>1, <1>2, <1>4 DEF IInv, TypeOK
<1>7. e.host = h /\ e.session = held[c]
    OBVIOUS
<1> HIDE DEF i, e, h
<1>8. NoNewClaim
    BY <1>1, <1>5, <1>6, <1>7, TableAssumption DEF NoNewClaim, Claims
<1>9. \A s \in SslSessions :
          /\ Cardinality(BySlot(s)) \in Nat
          /\ Cardinality(BySlot(s))' =
                 Cardinality(BySlot(s)) + One(s = held[c]) - One(s = old)
    BY <1>4, <1>6, <1>7, SlotTakes
<1>10. /\ IsFiniteSet({d \in Contexts : held'[d] # NoSession})
       /\ \A s \in SslSessions :
             /\ Cardinality(ByCall(s)) \in Nat
             /\ Cardinality(ByCall(s))' =
                    Cardinality(ByCall(s)) + One(s = NoSession) - One(s = held[c])
    BY <1>6, CallTakes DEF RInv
<1>11. \A s \in SslSessions :
           ByConnection(s)' = ByConnection(s) /\ Cardinality(ByConnection(s)) \in Nat
    BY <1>1, FinitelyHeld DEF ByConnection, RInv
<1>12. Hands(old, NoSession)
    BY <1>9, <1>10, <1>11 DEF Hands, Holders, One
<1>13. FiniteHolders' /\ Unstarted'
    BY <1>1, <1>10 DEF FiniteHolders, Unstarted, RInv
<1> QED
    BY <1>2, <1>8, <1>12, <1>13, ExchangeKeeps DEF IInv, i

LEMMA DropRefs ==
    ASSUME IInv, RInv, NEW c \in Contexts, Drop(c)
    PROVE  Unstarted' /\ FiniteHolders' /\ SessionsCounted' /\ ClaimsHold'
<1>1. /\ sessions' = sessions /\ obj' = obj /\ table' = table /\ named' = named
      /\ held' = [held EXCEPT ![c] = NoSession] /\ live' = Exchanged(held[c], NoSession)
    BY DEF Drop
<1>2. held'[c] = NoSession /\ \A d \in Contexts : d # c => held'[d] = held[d]
    BY <1>1 DEF IInv, TypeOK
<1>3. NoNewClaim
    BY <1>1, <1>2, TableAssumption DEF NoNewClaim, Claims
<1>4. /\ IsFiniteSet({d \in Contexts : held'[d] # NoSession})
      /\ \A s \in SslSessions :
            /\ Cardinality(ByCall(s)) \in Nat
            /\ Cardinality(ByCall(s))' =
                   Cardinality(ByCall(s)) + One(s = NoSession) - One(s = held[c])
    BY <1>2, CallTakes DEF RInv
<1>5. \A s \in SslSessions :
          /\ ByConnection(s)' = ByConnection(s) /\ BySlot(s)' = BySlot(s)
          /\ Cardinality(ByConnection(s)) \in Nat /\ Cardinality(BySlot(s)) \in Nat
    BY <1>1, FinitelyHeld DEF ByConnection, BySlot, RInv
<1>6. Hands(held[c], NoSession)
    BY <1>4, <1>5 DEF Hands, Holders, One
<1>7. FiniteHolders' /\ Unstarted'
    BY <1>1, <1>4 DEF FiniteHolders, Unstarted, RInv
<1> QED
    BY <1>1, <1>3, <1>6, <1>7, ExchangeKeeps DEF IInv

\* SSL_free gives back the connection's reference.
LEMMA CloseRefs ==
    ASSUME IInv, RInv, NEW c \in Contexts, SSLClose(c)
    PROVE  Unstarted' /\ FiniteHolders' /\ SessionsCounted' /\ ClaimsHold'
<1>1. table' = table /\ held' = held /\ named' = [named EXCEPT ![c] = NoHost]
      /\ held[c] = NoSession
    BY DEF SSLClose, RInv, HeldToStore
<1>2. \A d \in Contexts : held[d] # NoSession => named'[d] = named[d]
    BY <1>1 DEF IInv, TypeOK
<1>3. CASE UNCHANGED <<sessions, obj, live>>
    <2>1. Quiet /\ Unstarted'
        BY <1>1, <1>2, <1>3 DEF Quiet, Unstarted, RInv
    <2> QED
        BY <2>1, QuietKeeps
<1>4. ASSUME NEW o \in Own(c), sessions' = sessions \ {o},
             obj' = [obj EXCEPT ![o] = Zeroed(None)],
             live' = Exchanged(obj[o].session, NoSession)
      PROVE  Unstarted' /\ FiniteHolders' /\ SessionsCounted' /\ ClaimsHold'
    <2>1. o \in sessions /\ \A p \in sessions \ {o} : obj'[p] = obj[p]
        BY <1>4 DEF Own, IInv, TypeOK
    <2>2. Hands(obj[o].session, NoSession) /\ FiniteHolders'
        BY <1>1, <1>4, <2>1, ConnectionHands
    <2>3. NoNewClaim
        BY <1>1, <1>2, <1>4, <2>1, TableAssumption DEF NoNewClaim, Claims
    <2>4. Unstarted'
        BY <1>4, <2>1 DEF Unstarted, RInv
    <2> QED
        BY <1>4, <2>2, <2>3, <2>4, ExchangeKeeps DEF IInv
<1> QED
    BY <1>3, <1>4 DEF SSLClose

LEMMA StepRefs ==
    ASSUME IInv, RInv, NEW c \in Contexts, Step(c)
    PROVE  RInv'
<1> DEFINE o == at[c]
<1>0. TypeOK /\ Carries(c) /\ Kept(c)
    BY StepKeeps DEF IInv, InHand
<1>1. SUFFICES /\ Unstarted' /\ FiniteHolders' /\ SessionsCounted' /\ ClaimsHold'
               /\ pc'[c] \notin {"store", "drop"} => held'[c] = NoSession
    BY <1>0, HeldToStoreKept DEF Kept, RInv
<1>2. CASE StartSession(c) \/ HandshakeDone(c) \/ TakeTicket(c)
    <2>1. pc[c] \notin {"store", "drop"} /\ held' = held
        BY <1>2 DEF StartSession, Begins, HandshakeDone, TakeTicket
    <2>2. held'[c] = NoSession
        BY <2>1 DEF RInv, HeldToStore
    <2>3. CASE StartSession(c)
        BY <2>2, <2>3, StartRefs
    <2>4. CASE HandshakeDone(c) \/ TakeTicket(c)
        <3>1. /\ o # None
              /\ sessions' = sessions /\ table' = table /\ held' = held /\ named' = named
            BY <1>0, <2>4 DEF HandshakeDone, TakeTicket, Carries, HasInHand
        <3>2. CASE NewSslSession(c)
            BY <2>2, <3>1, <3>2, NewSslSessionRefs
        <3>3. ASSUME Put(o, [obj[o] EXCEPT !.ssl = "up", !.handshakeDone = TRUE]),
                     UNCHANGED live
              PROVE  Quiet /\ Unstarted'
            <4> DEFINE f == [obj[o] EXCEPT !.ssl = "up", !.handshakeDone = TRUE]
            <4>1. o \in Own(c) /\ obj[o] \in Session
                BY <3>1, InHandIsOwn
            <4>2. f.session = obj[o].session /\ f.host = obj[o].host /\ f.ssl = "up"
                BY <4>1 DEF Session
            <4> HIDE DEF f
            <4> QED
                BY <3>1, <3>3, <4>1, <4>2, PutIsQuiet DEF f
        <3> QED
            BY <2>2, <2>4, <3>2, <3>3, QuietKeeps DEF HandshakeDone, TakeTicket
    <2> QED
        BY <1>2, <2>3, <2>4
<1>3. CASE Remember(c)
    <2>1. held[c] = NoSession
        BY <1>3 DEF Remember, RInv, HeldToStore
    <2>2. pc'[c] \notin {"store", "drop"} => held'[c] = NoSession
        BY <1>0, <1>3, <2>1 DEF Remember, Enter, TypeOK
    <2> QED
        BY <1>3, <2>2, RememberRefs
<1>4. CASE Store(c)
    <2>1. held'[c] = NoSession
        BY <1>0, <1>4 DEF Store, TypeOK
    <2> QED
        BY <1>4, <2>1, StoreRefs
<1>5. CASE Drop(c)
    <2>1. held'[c] = NoSession
        BY <1>0, <1>5 DEF Drop, TypeOK
    <2> QED
        BY <1>5, <2>1, DropRefs
<1>6. CASE SSLClose(c)
    <2>1. held'[c] = NoSession
        BY <1>6 DEF SSLClose, RInv, HeldToStore
    <2> QED
        BY <1>6, <2>1, CloseRefs
<1>7. CASE AnswerHandshake(c) \/ HandshakeWouldBlock(c) \/ FindNoSlot(c) \/ Fill(c)
           \/ OpenRecord(c)
    <2>1. UNCHANGED <<sessions, obj, named, live, table, held>>
        BY <1>7 DEF AnswerHandshake, HandshakeWouldBlock, FindNoSlot, Fill, OpenRecord
    <2>2. Quiet /\ Unstarted'
        BY <2>1 DEF Quiet, Unstarted, RInv
    <2>3. pc'[c] \notin {"store", "drop"} => held'[c] = NoSession
        BY <1>0, <1>7, <2>1 DEF AnswerHandshake, HandshakeWouldBlock, FindNoSlot, Fill,
           OpenRecord, Enter, TypeOK, RInv, HeldToStore
    <2> QED
        BY <2>2, <2>3, QuietKeeps
<1>8. CASE FailToStart(c) \/ HandshakeFails(c)
    <2>1. /\ UNCHANGED <<sessions, named, live, table, held>>
          /\ o # None /\ pc[c] \notin {"store", "drop"}
        BY <1>0, <1>8 DEF FailToStart, Begins, HandshakeFails, Carries, HasInHand
    <2>2. o \in Own(c) /\ o \in sessions /\ obj[o] \in Session
        BY <2>1, InHandIsOwn
    <2>3. PICK ssl : /\ Put(o, [obj[o] EXCEPT !.ssl = ssl, !.failed = TRUE])
                     /\ ssl = "none" => obj[o].ssl = "none"
        BY <1>8 DEF FailToStart, HandshakeFails
    <2> DEFINE f == [obj[o] EXCEPT !.ssl = ssl, !.failed = TRUE]
    <2>4. /\ f.session = obj[o].session /\ f.host = obj[o].host /\ f.ssl = ssl
          /\ f.handshakeDone = obj[o].handshakeDone
        BY <2>2 DEF Session
    <2> HIDE DEF f
    <2>5. Quiet /\ Unstarted'
        BY <2>1, <2>2, <2>3, <2>4, PutIsQuiet DEF f, RInv, Unstarted
    <2> QED
        BY <2>1, <2>5, QuietKeeps DEF RInv, HeldToStore
<1>9. CASE EndRead(c)
    <2>1. /\ UNCHANGED <<sessions, named, live, table, held>>
          /\ o # None /\ pc[c] \notin {"store", "drop"}
        BY <1>0, <1>9 DEF EndRead, Carries, HasInHand
    <2>2. CASE obj' = obj
        <3>1. Quiet /\ Unstarted'
            BY <2>1, <2>2 DEF Quiet, Unstarted, RInv
        <3> QED
            BY <2>1, <3>1, QuietKeeps DEF RInv, HeldToStore
    <2>3. CASE Put(o, [obj[o] EXCEPT !.awaitingFirstByte = FALSE])
        <3> DEFINE f == [obj[o] EXCEPT !.awaitingFirstByte = FALSE]
        <3>1. o \in Own(c) /\ o \in sessions /\ obj[o] \in Session
            BY <2>1, InHandIsOwn
        <3>2. /\ f.session = obj[o].session /\ f.host = obj[o].host
              /\ f.ssl = obj[o].ssl /\ f.handshakeDone = obj[o].handshakeDone
            BY <3>1 DEF Session
        <3> HIDE DEF f
        <3>3. Quiet /\ Unstarted'
            BY <2>1, <2>3, <3>1, <3>2, PutIsQuiet DEF f, RInv, Unstarted
        <3> QED
            BY <2>1, <3>3, QuietKeeps DEF RInv, HeldToStore
    <2> QED
        BY <1>9, <2>2, <2>3 DEF EndRead
<1> QED
    BY <1>2, <1>3, <1>4, <1>5, <1>6, <1>7, <1>8, <1>9 DEF Step

LEMMA InitRInv == Init => RInv
<1> SUFFICES ASSUME Init PROVE RInv
    OBVIOUS
<1>1. Unstarted /\ HeldToStore
    BY DEF Init, Unstarted, HeldToStore
<1>2. {c \in Contexts : held[c] # NoSession} = {}
    BY DEF Init
<1>3. FiniteHolders
    BY <1>2, FS_EmptySet DEF Init, FiniteHolders
<1>4. \A s \in SslSessions :
          /\ ByConnection(s) = {} /\ BySlot(s) = {} /\ ByCall(s) = {}
          /\ live[s].refs = 0 /\ \A h : ~Claims(s, h)
    BY TableAssumption DEF Init, ByConnection, BySlot, ByCall, Claims, Empty, Freed
<1>5. SessionsCounted
    BY <1>4, FS_EmptySet, CountedAsHolders DEF Holders
<1> QED
    BY <1>1, <1>3, <1>4, <1>5 DEF RInv, ClaimsHold

LEMMA NextRInv == IInv /\ RInv /\ [Next]_vars => RInv'
<1> SUFFICES ASSUME IInv, RInv, [Next]_vars PROVE RInv'
    OBVIOUS
<1>1. CASE UNCHANGED vars
    <2>1. Quiet /\ Unstarted' /\ HeldToStore'
        BY <1>1 DEF vars, Quiet, Unstarted, HeldToStore, RInv
    <2> QED
        BY <2>1, QuietKeeps DEF RInv
<1>2. ASSUME NEW c \in Contexts, Call(c) \/ Step(c) \/ Peer(c)
      PROVE  RInv'
    BY <1>2, CallRefs, StepRefs, PeerRefs
<1> QED
    BY <1>1, <1>2 DEF Next

LEMMA ReferencesInvariance == Spec => []RInv
BY InitRInv, NextRInv, Invariance, PTL DEF Spec

\* However many connections share, resume and replace them, an SSL_SESSION has a
\* reference for each holder and none else: tls-openssl.c:85-101, 168-217.
THEOREM SessionsStayCounted == Spec => []SessionsCounted
BY ReferencesInvariance, PTL DEF RInv

\* No session is kept for, or offered to, a host it was not made with, also when the
\* address of one that was freed is used for another host's (tls-openssl.c:183-214).
THEOREM ResumesWithItsHost == Spec => []ResumedIsOfHost
<1>1. IInv /\ RInv => ResumedIsOfHost
    <2> SUFFICES ASSUME IInv, RInv PROVE ResumedIsOfHost
        OBVIOUS
    <2>1. ASSUME NEW i \in Slot, table[i].host # NoHost
          PROVE  live[table[i].session].host = table[i].host
        <3>1. table[i].session \in SslSessions
            BY <2>1 DEF IInv, Placed, TypeOK, Entry
        <3> QED
            BY <2>1, <3>1 DEF RInv, ClaimsHold, Claims
    <2>2. ASSUME NEW o \in sessions, obj[o].session # NoSession
          PROVE  live[obj[o].session].host = obj[o].host
        <3>1. obj[o].session \in SslSessions
            BY <2>2 DEF IInv, TypeOK, Session
        <3> QED
            BY <3>1 DEF RInv, ClaimsHold, Claims
    <2> QED
        BY <2>1, <2>2 DEF ResumedIsOfHost
<1> QED
    BY <1>1, Invariance, ReferencesInvariance, PTL

-----------------------------------------------------------------------------
(* The stream of each context *)

\* A call shakes hands on a structure that is started and not yet connected; a read
\* has asked for something and was told no end yet.
Engaged(c) ==
    /\ pc[c] = "shake" => ~obj[at[c]].handshakeDone /\ obj[at[c]].ssl # "none"
    /\ pc[c] = "reading" => want[c] > 0 /\ stream[c].ending = "none"
    /\ pc[c] # "reading" => filled[c] = 0

\* What is told, being read, decrypted and sent; whole records are sent and decrypted.
Records == {k * RecordSize : k \in Nat}
Flows(c) ==
    /\ stream[c].told + filled[c] <= stream[c].opened
    /\ stream[c].opened <= stream[c].sent
    /\ stream[c].opened \in Records /\ stream[c].sent \in Records

EInv == \A c \in Contexts : Engaged(c) /\ Flows(c)

LEMMA NextRecord ==
    ASSUME NEW a \in Records
    PROVE  a \in Nat /\ a + RecordSize \in Records /\ a < a + RecordSize
<1>1. PICK k \in Nat : a = k * RecordSize
    BY DEF Records
<1>2. RecordSize \in Nat \ {0}
    BY ShimAssumption
<1>3. a + RecordSize = (k + 1) * RecordSize /\ k + 1 \in Nat
    BY <1>1, <1>2
<1>4. a \in Nat
    BY <1>1, <1>2
<1>5. a + RecordSize \in Records
    <2> DEFINE b == (k + 1) * RecordSize
    <2>1. b \in Records
        BY <1>3 DEF Records
    <2> QED
        BY <1>3, <2>1
<1> QED
    BY <1>2, <1>4, <1>5

LEMMA WholeRecord ==
    ASSUME NEW a \in Records, NEW b \in Records, a < b
    PROVE  a + RecordSize <= b
<1>1. PICK k \in Nat : a = k * RecordSize
    BY DEF Records
<1>2. PICK m \in Nat : b = m * RecordSize
    BY DEF Records
<1>3. RecordSize \in Nat \ {0}
    BY ShimAssumption
<1>4. k < m
    <2>1. SUFFICES ASSUME m <= k PROVE b <= a
        BY <1>1, <1>2, <1>3
    <2> DEFINE d == k - m
    <2>2. d \in Nat /\ k = m + d
        BY <2>1
    <2>3. a = m * RecordSize + d * RecordSize /\ d * RecordSize \in Nat
        BY <1>1, <1>3, <2>2
    <2> QED
        BY <1>2, <1>3, <2>3
<1>5. (k + 1) * RecordSize <= m * RecordSize
    <2> DEFINE d == m - (k + 1)
    <2>1. d \in Nat /\ m = (k + 1) + d
        BY <1>4
    <2>2. m * RecordSize = (k + 1) * RecordSize + d * RecordSize /\ d * RecordSize \in Nat
        BY <1>3, <2>1
    <2>3. (k + 1) * RecordSize \in Nat
        BY <1>3
    <2> HIDE DEF d
    <2> QED
        BY <2>2, <2>3
<1> QED
    BY <1>1, <1>2, <1>3, <1>5

\* A step of one context's call, or of its peer, leaves the other contexts their
\* structures and streams.
Apart(c) ==
    \A d \in Contexts \ {c} :
        /\ Own(d)' = Own(d)
        /\ \A o \in Own(d) : obj'[o] = obj[o]
        /\ want'[d] = want[d] /\ filled'[d] = filled[d] /\ stream'[d] = stream[d]

\* One structure is linked, changed or freed, and it is none of theirs.
LEMMA OwnApart ==
    ASSUME IInv, NEW c \in Contexts, NEW o \in Objs,
           o \in sessions => o \in Own(c),
           sessions' = sessions \cup {o} \/ sessions' = sessions \ {o},
           \A p \in Objs \ {o} : obj'[p] = obj[p],
           obj'[o].context = c \/ o \notin sessions'
    PROVE  \A d \in Contexts \ {c} : Own(d)' = Own(d) /\ \A p \in Own(d) : obj'[p] = obj[p]
<1> SUFFICES ASSUME NEW d \in Contexts \ {c}
             PROVE  Own(d)' = Own(d) /\ \A p \in Own(d) : obj'[p] = obj[p]
    OBVIOUS
<1>1. sessions \subseteq Objs /\ sessions' \subseteq Objs
    BY DEF IInv, TypeOK
<1>2. o \notin Own(d) /\ o \notin Own(d)'
    BY DEF Own
<1> QED
    BY <1>1, <1>2 DEF Own

LEMMA StreamsApart ==
    ASSUME IInv, NEW c \in Contexts,
           want' = want \/ \E n : want' = [want EXCEPT ![c] = n],
           filled' = filled \/ \E n : filled' = [filled EXCEPT ![c] = n],
           stream' = stream \/ \E s : stream' = [stream EXCEPT ![c] = s]
    PROVE  \A d \in Contexts \ {c} :
              want'[d] = want[d] /\ filled'[d] = filled[d] /\ stream'[d] = stream[d]
BY DEF IInv, TypeOK

LEMMA PutApart ==
    ASSUME IInv, NEW c \in Contexts, NEW o \in Own(c), NEW fields,
           fields.context = c, sessions' = sessions, Put(o, fields)
    PROVE  \A d \in Contexts \ {c} : Own(d)' = Own(d) /\ \A p \in Own(d) : obj'[p] = obj[p]
<1>1. o \in Objs /\ o \in sessions
    BY DEF IInv, TypeOK, Own
<1>2. obj'[o] = fields /\ \A p \in Objs \ {o} : obj'[p] = obj[p]
    BY <1>1 DEF Put, IInv, TypeOK
<1>3. sessions' = sessions \cup {o}
    BY <1>1
<1> QED
    BY <1>1, <1>2, <1>3, OwnApart

LEMMA LinkApart ==
    ASSUME IInv, NEW c \in Contexts, NEW o \in Addressed(c), NEW fields,
           fields.context = c, Link(c, o, fields)
    PROVE  \A d \in Contexts \ {c} : Own(d)' = Own(d) /\ \A p \in Own(d) : obj'[p] = obj[p]
<1>1. o \in Objs /\ (o \in sessions => o \in Own(c))
    BY AddressedType DEF IInv, Addressed
<1>2. /\ obj'[o] = fields /\ \A p \in Objs \ {o} : obj'[p] = obj[p]
      /\ sessions' = sessions \cup {o}
    BY <1>1 DEF Link, IInv, TypeOK
<1> QED
    BY <1>1, <1>2, OwnApart

LEMMA CallApart ==
    ASSUME IInv, NEW c \in Contexts, Call(c)
    PROVE  Apart(c)
<1>1. \A d \in Contexts \ {c} :
          want'[d] = want[d] /\ filled'[d] = filled[d] /\ stream'[d] = stream[d]
    <2>1. filled' = filled /\ stream' = stream
        BY DEF Call, SSLSetIOFuncs, SSLSetConnection, SSLSetPeerDomainName,
           CallHandshake, CallRead, SSLGetBufferedReadSize, SSLWrite, CallClose, readVars
    <2>2. want' = want \/ \E n : want' = [want EXCEPT ![c] = n]
        BY DEF Call, SSLSetIOFuncs, SSLSetConnection, SSLSetPeerDomainName,
           CallHandshake, CallRead, SSLGetBufferedReadSize, SSLWrite, CallClose, readVars
    <2> QED
        BY <2>1, <2>2, StreamsApart
<1> SUFFICES \A d \in Contexts \ {c} : Own(d)' = Own(d) /\ \A p \in Own(d) : obj'[p] = obj[p]
    BY <1>1 DEF Apart
<1>2. ASSUME NEW o \in Addressed(c), Link(c, o, [Fields(c, o) EXCEPT !.io = TRUE])
      PROVE  \A d \in Contexts \ {c} : Own(d)' = Own(d) /\ \A p \in Own(d) : obj'[p] = obj[p]
    <2> DEFINE f == [Fields(c, o) EXCEPT !.io = TRUE]
    <2>1. f.context = c
        BY FieldsOf DEF Session
    <2> HIDE DEF f
    <2> QED
        BY <1>2, <2>1, LinkApart DEF f
<1>3. ASSUME NEW o \in Addressed(c), NEW h, Link(c, o, [Fields(c, o) EXCEPT !.host = h])
      PROVE  \A d \in Contexts \ {c} : Own(d)' = Own(d) /\ \A p \in Own(d) : obj'[p] = obj[p]
    <2> DEFINE f == [Fields(c, o) EXCEPT !.host = h]
    <2>1. f.context = c
        BY FieldsOf DEF Session
    <2> HIDE DEF f
    <2> QED
        BY <1>3, <2>1, LinkApart DEF f
<1>4. ASSUME NEW o \in Addressed(c), Link(c, o, Fields(c, o))
      PROVE  \A d \in Contexts \ {c} : Own(d)' = Own(d) /\ \A p \in Own(d) : obj'[p] = obj[p]
    BY <1>4, FieldsOf, LinkApart
<1>5. ASSUME NEW o \in Own(c), sessions' = sessions,
             Put(o, [obj[o] EXCEPT !.awaitingFirstByte = TRUE])
      PROVE  \A d \in Contexts \ {c} : Own(d)' = Own(d) /\ \A p \in Own(d) : obj'[p] = obj[p]
    <2> DEFINE f == [obj[o] EXCEPT !.awaitingFirstByte = TRUE]
    <2>1. f.context = c
        BY DEF Own, IInv, TypeOK, Session
    <2> HIDE DEF f
    <2> QED
        BY <1>5, <2>1, PutApart DEF f
<1>6. ASSUME UNCHANGED <<sessions, obj>>
      PROVE  \A d \in Contexts \ {c} : Own(d)' = Own(d) /\ \A p \in Own(d) : obj'[p] = obj[p]
    BY <1>6 DEF Own
<1>7. CASE SSLSetIOFuncs(c) \/ SSLSetConnection(c) \/ SSLSetPeerDomainName(c)
    BY <1>2, <1>3, <1>4, <1>7 DEF SSLSetIOFuncs, SSLSetConnection, SSLSetPeerDomainName
<1>8. CASE CallHandshake(c) \/ CallRead(c) \/ CallClose(c)
    BY <1>4, <1>6, <1>8 DEF CallHandshake, CallRead, CallClose, Find
<1>9. CASE SSLGetBufferedReadSize(c) \/ SSLWrite(c)
    BY <1>5, <1>6, <1>9 DEF SSLGetBufferedReadSize, SSLWrite
<1> QED
    BY <1>7, <1>8, <1>9 DEF Call

LEMMA StepApart ==
    ASSUME IInv, NEW c \in Contexts, Step(c) \/ Peer(c)
    PROVE  Apart(c)
<1> DEFINE o == at[c]
<1>0. TypeOK /\ Carries(c)
    BY DEF IInv, InHand
<1>1. \A d \in Contexts \ {c} :
          want'[d] = want[d] /\ filled'[d] = filled[d] /\ stream'[d] = stream[d]
    <2>1. CASE Fill(c) \/ OpenRecord(c) \/ TakeTicket(c) \/ EndRead(c)
        BY <2>1, <1>0 DEF Fill, OpenRecord, TakeTicket, EndRead, readVars, TypeOK
    <2>2. CASE SSLClose(c)
        BY <2>2, <1>0 DEF SSLClose, TypeOK
    <2>3. CASE Peer(c)
        BY <2>3, <1>0 DEF Peer, PeerSends, PeerSendsTicket, PeerEnds, readVars, TypeOK
    <2>4. CASE ~(Fill(c) \/ OpenRecord(c) \/ TakeTicket(c) \/ EndRead(c) \/ SSLClose(c)
                 \/ Peer(c))
        BY <2>4 DEF Step, AnswerHandshake, FailToStart, StartSession, HandshakeDone,
           HandshakeWouldBlock, HandshakeFails, Remember, Store, FindNoSlot, Drop, readVars
    <2> QED
        BY <2>1, <2>2, <2>3, <2>4
<1> SUFFICES \A d \in Contexts \ {c} : Own(d)' = Own(d) /\ \A p \in Own(d) : obj'[p] = obj[p]
    BY <1>1 DEF Apart
<1>2. ASSUME UNCHANGED <<sessions, obj>>
      PROVE  \A d \in Contexts \ {c} : Own(d)' = Own(d) /\ \A p \in Own(d) : obj'[p] = obj[p]
    BY <1>2 DEF Own
<1>3. CASE UNCHANGED <<sessions, obj>>
    BY <1>2, <1>3
<1>4. CASE SSLClose(c) /\ ~UNCHANGED <<sessions, obj>>
    <2>1. PICK p \in Own(c) : /\ sessions' = sessions \ {p}
                              /\ obj' = [obj EXCEPT ![p] = Zeroed(None)]
        BY <1>4 DEF SSLClose
    <2>2. p \in Objs /\ p \notin sessions' /\ \A q \in Objs \ {p} : obj'[q] = obj[q]
        BY <1>0, <2>1 DEF Own, TypeOK
    <2> QED
        BY <2>1, <2>2, OwnApart
<1>5. CASE ~SSLClose(c) /\ ~UNCHANGED <<sessions, obj>>
    <2>1. /\ sessions' = sessions /\ o # None
          /\ \/ FailToStart(c) \/ StartSession(c) \/ HandshakeDone(c) \/ HandshakeFails(c)
             \/ TakeTicket(c) \/ EndRead(c)
        BY <1>0, <1>5 DEF Step, Peer, AnswerHandshake, FailToStart, StartSession, Begins,
           HandshakeDone, HandshakeWouldBlock, HandshakeFails, Remember, Store, FindNoSlot,
           Drop, Fill, OpenRecord, TakeTicket, EndRead, Carries, HasInHand
    <2>2. o \in Own(c) /\ obj[o] \in Session /\ obj[o].context = c
        BY <2>1, InHandIsOwn DEF Own
    <2>3. obj'[o].context = c /\ \A p \in Objs \ {o} : obj'[p] = obj[p]
        <3>1. ASSUME NEW f, f.context = c, Put(o, f)
              PROVE  obj'[o].context = c /\ \A p \in Objs \ {o} : obj'[p] = obj[p]
            BY <1>0, <2>2, <3>1 DEF Put, TypeOK, Own
        <3>2. ASSUME NEW x, NEW y, NEW z
              PROVE  /\ [obj[o] EXCEPT !.ssl = x, !.failed = TRUE].context = c
                     /\ [obj[o] EXCEPT !.ssl = x].context = c
                     /\ [obj[o] EXCEPT !.ssl = x, !.session = y].context = c
                     /\ [obj[o] EXCEPT !.ssl = x, !.handshakeDone = TRUE].context = c
                     /\ [obj[o] EXCEPT !.session = y, !.ssl = x, !.handshakeDone = TRUE].context = c
                     /\ [obj[o] EXCEPT !.awaitingFirstByte = z].context = c
            BY <2>2 DEF Session
        <3>3. CASE FailToStart(c) \/ HandshakeFails(c)
            BY <3>1, <3>2, <3>3 DEF FailToStart, HandshakeFails
        <3>4. CASE StartSession(c)
            BY <1>5, <2>1, <3>1, <3>2, <3>4 DEF StartSession
        <3>5. CASE NewSslSession(c)
            BY <3>1, <3>2, <3>5 DEF NewSslSession
        <3>6. CASE HandshakeDone(c) \/ TakeTicket(c)
            BY <3>1, <3>2, <3>5, <3>6 DEF HandshakeDone, TakeTicket
        <3>7. CASE EndRead(c)
            BY <1>5, <2>1, <3>1, <3>2, <3>7 DEF EndRead
        <3> QED
            BY <2>1, <3>3, <3>4, <3>6, <3>7
    <2>4. o \in Objs /\ o \in sessions /\ sessions' = sessions \cup {o}
        BY <2>1, <2>2 DEF Own, IInv, TypeOK
    <2> QED
        BY <2>2, <2>3, <2>4, OwnApart
<1> QED
    BY <1>3, <1>4, <1>5

LEMMA OthersFlow ==
    ASSUME IInv, EInv, NEW c \in Contexts, Frame(c), Apart(c), Engaged(c)', Flows(c)'
    PROVE  EInv'
<1> SUFFICES ASSUME NEW d \in Contexts, d # c
             PROVE  Engaged(d)' /\ Flows(d)'
    BY DEF EInv
<1>1. Engaged(d) /\ Flows(d) /\ Carries(d)
    BY DEF EInv, IInv, InHand
<1>2. /\ pc'[d] = pc[d] /\ at'[d] = at[d]
      /\ at[d] # None => obj'[at[d]] = obj[at[d]]
      /\ want'[d] = want[d] /\ filled'[d] = filled[d] /\ stream'[d] = stream[d]
    BY DEF Frame, Apart
<1>3. Flows(d)'
    BY <1>1, <1>2 DEF Flows
<1>4. Engaged(d)'
    BY <1>1, <1>2 DEF Engaged, Carries, HasInHand
<1> QED
    BY <1>3, <1>4

LEMMA CallFlows ==
    ASSUME IInv, EInv, NEW c \in Contexts, Call(c)
    PROVE  EInv'
<1>0. TypeOK /\ Engaged(c) /\ Flows(c)
    BY DEF IInv, EInv
<1>1. pc[c] = "idle" /\ filled' = filled /\ stream' = stream
    BY DEF Call, SSLSetIOFuncs, SSLSetConnection, SSLSetPeerDomainName, MaySet,
       CallHandshake, CallRead, SSLGetBufferedReadSize, SSLWrite, CallClose, readVars
<1>2. Flows(c)'
    BY <1>0, <1>1 DEF Flows
<1>3. CASE CallRead(c)
    <2>1. PICK n \in 1..MaxLength : want' = [want EXCEPT ![c] = n]
        BY <1>3 DEF CallRead
    <2>2. want'[c] > 0 /\ stream'[c].ending = "none" /\ pc'[c] = "reading"
        BY <1>0, <1>3, <2>1, ShimAssumption DEF CallRead, Enter, TypeOK
    <2> QED
        BY <1>2, <2>2, OthersFlow, CallKeeps, CallApart DEF Engaged, Kept
<1>4. CASE ~CallRead(c)
    <2>1. pc'[c] \in {"idle", "SSLHandshake", "SSLClose"}
        BY <1>0, <1>1, <1>4 DEF Call, SSLSetIOFuncs, SSLSetConnection, SSLSetPeerDomainName,
           CallHandshake, SSLGetBufferedReadSize, SSLWrite, CallClose, Enter, TypeOK
    <2>2. filled'[c] = 0
        BY <1>0, <1>1 DEF Engaged
    <2> QED
        BY <1>2, <2>1, <2>2, OthersFlow, CallKeeps, CallApart DEF Engaged, Kept
<1> QED
    BY <1>3, <1>4

\* Numbers of a context's stream.
LEMMA StreamType ==
    ASSUME TypeOK, NEW c \in Contexts
    PROVE  /\ stream[c] \in Stream
           /\ stream[c].told \in Nat /\ stream[c].opened \in Nat /\ stream[c].sent \in Nat
           /\ filled[c] \in Nat /\ want[c] \in Nat
BY DEF TypeOK, Stream

LEMMA StepFlows ==
    ASSUME IInv, RInv, EInv, NEW c \in Contexts, Step(c) \/ Peer(c)
    PROVE  EInv'
<1> DEFINE o == at[c]
<1> DEFINE s == stream[c]
<1>0. TypeOK /\ Engaged(c) /\ Flows(c) /\ Carries(c) /\ Frame(c) /\ Apart(c)
    BY StepKeeps, PeerKeeps, StepApart DEF IInv, EInv, InHand, Kept
<1>1. SUFFICES Engaged(c)' /\ Flows(c)'
    BY <1>0, OthersFlow
<1>2. /\ s \in Stream /\ s.told \in Nat /\ s.opened \in Nat /\ s.sent \in Nat
      /\ filled[c] \in Nat /\ want[c] \in Nat
    BY <1>0, StreamType
<1>3. CASE Fill(c)
    <2>1. /\ pc' = pc /\ want' = want /\ stream' = stream /\ pc[c] = "reading"
          /\ filled' = [filled EXCEPT ![c] =
                 IF Pending(c) < want[c] - @ THEN @ + Pending(c) ELSE want[c]]
        BY <1>3 DEF Fill
    <2>2. filled'[c] = IF Pending(c) < want[c] - filled[c] THEN filled[c] + Pending(c) ELSE want[c]
        BY <1>0, <2>1 DEF TypeOK
    <2>3. Flows(c)'
        BY <1>0, <1>2, <2>1, <2>2 DEF Flows, Pending
    <2> QED
        BY <1>0, <2>1, <2>3 DEF Engaged
<1>4. CASE OpenRecord(c)
    <2>1. /\ pc' = pc /\ want' = want /\ filled' = filled /\ pc[c] = "reading"
          /\ Pending(c) = 0 /\ s.opened < s.sent
          /\ stream' = [stream EXCEPT ![c].opened = @ + RecordSize]
        BY <1>2, <1>4 DEF OpenRecord, readVars
    <2>2. stream'[c] = [s EXCEPT !.opened = @ + RecordSize]
        BY <1>0, <2>1 DEF TypeOK
    <2>3. /\ stream'[c].told = s.told /\ stream'[c].sent = s.sent
          /\ stream'[c].opened = s.opened + RecordSize /\ stream'[c].ending = s.ending
        BY <1>2, <2>2 DEF Stream
    <2>4. s.opened + RecordSize <= s.sent /\ s.opened + RecordSize \in Records
          /\ s.opened < s.opened + RecordSize /\ s.opened + RecordSize \in Nat
        BY <1>0, <2>1, NextRecord, WholeRecord DEF Flows
    <2>5. Flows(c)'
        BY <1>0, <1>2, <2>1, <2>3, <2>4 DEF Flows
    <2> QED
        BY <1>0, <2>1, <2>3, <2>5 DEF Engaged
<1>5. CASE TakeTicket(c)
    <2>1. /\ pc' = pc /\ want' = want /\ filled' = filled /\ pc[c] = "reading"
          /\ stream' = [stream EXCEPT ![c].ticket = "taken"]
        BY <1>5 DEF TakeTicket, readVars
    <2>2. stream'[c] = [s EXCEPT !.ticket = "taken"]
        BY <1>0, <2>1 DEF TypeOK
    <2>3. /\ stream'[c].told = s.told /\ stream'[c].sent = s.sent
          /\ stream'[c].opened = s.opened /\ stream'[c].ending = s.ending
        BY <1>2, <2>2 DEF Stream
    <2> QED
        BY <1>0, <2>1, <2>3 DEF Engaged, Flows
<1>6. CASE EndRead(c)
    <2>1. /\ pc[c] = "reading" /\ filled' = [filled EXCEPT ![c] = 0]
          /\ stream' = IF filled[c] > 0 THEN [stream EXCEPT ![c].told = @ + filled[c]]
                       ELSE [stream EXCEPT ![c].ending = EndingOf(stream[c].peer)]
        BY <1>6 DEF EndRead
    <2>2. pc'[c] \in {"idle", "remember"} /\ filled'[c] = 0
        BY <1>0, <1>6, <2>1 DEF EndRead, Enter, Return, TypeOK
    <2>3. stream'[c] = IF filled[c] > 0 THEN [s EXCEPT !.told = @ + filled[c]]
                       ELSE [s EXCEPT !.ending = EndingOf(stream[c].peer)]
        BY <1>0, <2>1 DEF TypeOK
    <2>4. stream'[c].told = s.told + filled[c]
        BY <1>2, <2>3 DEF Stream
    <2>5. stream'[c].sent = s.sent /\ stream'[c].opened = s.opened
        BY <1>2, <2>3 DEF Stream
    <2>6. Flows(c)'
        BY <1>0, <1>2, <2>2, <2>4, <2>5 DEF Flows
    <2> QED
        BY <2>2, <2>6 DEF Engaged
<1>7. CASE SSLClose(c)
    <2>1. /\ pc[c] = "SSLClose" /\ filled' = filled /\ stream' = [stream EXCEPT ![c] = NewStream]
          /\ pc' = [pc EXCEPT ![c] = "idle"]
        BY <1>7 DEF SSLClose, Return
    <2>2. stream'[c] = NewStream /\ pc'[c] = "idle" /\ filled'[c] = 0
        BY <1>0, <2>1 DEF TypeOK, Engaged
    <2>3. 0 \in Records
        <3>1. 0 * RecordSize \in Records /\ 0 * RecordSize = 0
            BY ShimAssumption DEF Records
        <3> QED
            BY <3>1
    <2> QED
        BY <2>2, <2>3 DEF Flows, Engaged, NewStream
<1>8. CASE Peer(c)
    <2>1. pc' = pc /\ want' = want /\ filled' = filled /\ at' = at /\ obj' = obj
        BY <1>8 DEF Peer, readVars
    <2>2. /\ stream'[c].told = s.told /\ stream'[c].opened = s.opened
          /\ stream'[c].ending = s.ending
          /\ stream'[c].sent \in {s.sent, s.opened, s.sent + RecordSize}
        <3>1. CASE PeerSends(c)
            BY <1>0, <1>2, <3>1 DEF PeerSends, TypeOK, Stream
        <3>2. CASE PeerSendsTicket(c)
            BY <1>0, <1>2, <3>2 DEF PeerSendsTicket, TypeOK, Stream
        <3>3. ASSUME NEW how, PeerEnds(c, how)
              PROVE  /\ stream'[c].told = s.told /\ stream'[c].opened = s.opened
                     /\ stream'[c].ending = s.ending
                     /\ stream'[c].sent \in {s.sent, s.opened}
            BY <1>0, <1>2, <3>3 DEF PeerEnds, TypeOK, Stream
        <3> QED
            BY <1>8, <3>1, <3>2, <3>3 DEF Peer
    <2>3. /\ s.sent + RecordSize \in Records /\ s.sent < s.sent + RecordSize
          /\ s.sent + RecordSize \in Nat
        BY <1>0, NextRecord DEF Flows
    <2>4. stream'[c].sent \in Records /\ s.opened <= stream'[c].sent
        BY <1>0, <1>2, <2>2, <2>3 DEF Flows
    <2>5. Flows(c)'
        BY <1>0, <2>1, <2>2, <2>4 DEF Flows
    <2> QED
        BY <1>0, <2>1, <2>2, <2>5 DEF Engaged
<1>9. CASE StartSession(c)
    <2>1. /\ pc' = [pc EXCEPT ![c] = "shake"] /\ want' = want /\ filled' = filled
          /\ stream' = stream /\ pc[c] = "SSLHandshake" /\ at' = at
        BY <1>9 DEF StartSession, Begins, Enter, readVars
    <2>2. o \in Objs /\ obj[o] \in Session /\ ~obj[o].handshakeDone
        BY <1>9, InHandIsOwn DEF StartSession, Begins
    <2>3. ~obj'[o].handshakeDone /\ obj'[o].ssl # "none"
        <3>1. CASE obj[o].ssl # "none" /\ obj' = obj
            BY <2>2, <3>1
        <3>2. ASSUME NEW x, Put(o, [obj[o] EXCEPT !.ssl = "ready", !.session = x])
              PROVE  ~obj'[o].handshakeDone /\ obj'[o].ssl # "none"
            <4>1. obj'[o] = [obj[o] EXCEPT !.ssl = "ready", !.session = x]
                BY <1>0, <2>2, <3>2 DEF Put, TypeOK
            <4> QED
                BY <2>2, <4>1 DEF Session
        <3>3. ASSUME Put(o, [obj[o] EXCEPT !.ssl = "ready"])
              PROVE  ~obj'[o].handshakeDone /\ obj'[o].ssl # "none"
            <4>1. obj'[o] = [obj[o] EXCEPT !.ssl = "ready"]
                BY <1>0, <2>2, <3>3 DEF Put, TypeOK
            <4> QED
                BY <2>2, <4>1 DEF Session
        <3> QED
            BY <1>9, <3>1, <3>2, <3>3 DEF StartSession
    <2>4. pc'[c] = "shake" /\ filled'[c] = 0
        BY <1>0, <2>1 DEF TypeOK, Engaged
    <2> QED
        BY <1>0, <2>1, <2>3, <2>4 DEF Engaged, Flows
<1>10. CASE AnswerHandshake(c) \/ FailToStart(c) \/ HandshakeDone(c) \/ HandshakeWouldBlock(c)
            \/ HandshakeFails(c) \/ Remember(c) \/ Store(c) \/ FindNoSlot(c) \/ Drop(c)
    <2>1. pc[c] # "reading" /\ want' = want /\ filled' = filled /\ stream' = stream
        BY <1>10 DEF AnswerHandshake, FailToStart, Begins, HandshakeDone, HandshakeWouldBlock,
           HandshakeFails, Remember, Store, FindNoSlot, Drop, readVars
    <2>2. pc'[c] \in {"idle", "remember", "store", "drop"}
        BY <1>0, <1>10 DEF AnswerHandshake, FailToStart, HandshakeDone, HandshakeWouldBlock,
           HandshakeFails, Remember, Store, FindNoSlot, Drop, Enter, Return, TypeOK
    <2> QED
        BY <1>0, <2>1, <2>2 DEF Engaged, Flows
<1> QED
    BY <1>3, <1>4, <1>5, <1>6, <1>7, <1>8, <1>9, <1>10 DEF Step

LEMMA InitEInv == Init => EInv
<1> SUFFICES ASSUME Init PROVE EInv
    OBVIOUS
<1>1. 0 \in Records
    <2>1. 0 * RecordSize \in Records /\ 0 * RecordSize = 0
        BY ShimAssumption DEF Records
    <2> QED
        BY <2>1
<1> QED
    BY <1>1 DEF Init, EInv, Engaged, Flows, NewStream

LEMMA NextEInv == IInv /\ RInv /\ EInv /\ [Next]_vars => EInv'
<1> SUFFICES ASSUME IInv, RInv, EInv, [Next]_vars PROVE EInv'
    OBVIOUS
<1>1. CASE UNCHANGED vars
    BY <1>1 DEF vars, readVars, EInv, Engaged, Flows
<1>2. ASSUME NEW c \in Contexts, Call(c) \/ Step(c) \/ Peer(c)
      PROVE  EInv'
    BY <1>2, CallFlows, StepFlows
<1> QED
    BY <1>1, <1>2 DEF Next

LEMMA StreamsInvariance == Spec => []EInv
BY InitEInv, NextEInv, Invariance, ReferencesInvariance, PTL DEF Spec

-----------------------------------------------------------------------------
(* What CFNetwork sees of a context *)

PhaseOf(f) ==
    IF f.ssl = "none" THEN "idle"
    ELSE IF f.failed THEN "closed"
    ELSE IF f.handshakeDone THEN "connected" ELSE "handshake"

LEMMA OwnView ==
    ASSUME NEW c \in Contexts, NEW o, Own(c) = {o}, obj[o].failed \in BOOLEAN,
           obj[o].handshakeDone \in BOOLEAN
    PROVE  Phase(c) = PhaseOf(obj[o]) /\ Secured(c) = obj[o].handshakeDone
<1> DEFINE started == {p \in Own(c) : obj[p].ssl # "none"}
<1>1. Secured(c) = obj[o].handshakeDone
    BY DEF Secured
<1>2. CASE obj[o].ssl = "none"
    <2>1. started = {}
        BY <1>2
    <2> QED
        BY <1>1, <1>2, <2>1 DEF Phase, PhaseOf
<1>3. CASE obj[o].ssl # "none"
    <2>1. started = {o}
        BY <1>3
    <2> HIDE DEF started
    <2>2. /\ started # {}
          /\ (\E p \in started : obj[p].failed) <=> obj[o].failed
          /\ (\E p \in started : ~obj[p].failed /\ obj[p].handshakeDone)
                <=> ~obj[o].failed /\ obj[o].handshakeDone
        BY <2>1
    <2>3. CASE obj[o].failed
        BY <1>1, <1>3, <2>2, <2>3 DEF Phase, PhaseOf, started
    <2>4. CASE ~obj[o].failed /\ obj[o].handshakeDone
        BY <1>1, <1>3, <2>2, <2>4 DEF Phase, PhaseOf, started
    <2>5. CASE ~obj[o].failed /\ ~obj[o].handshakeDone
        BY <1>1, <1>3, <2>2, <2>5 DEF Phase, PhaseOf, started
    <2> QED
        BY <2>3, <2>4, <2>5
<1> QED
    BY <1>2, <1>3

LEMMA NoView ==
    ASSUME NEW c \in Contexts, Own(c) = {}
    PROVE  Phase(c) = "idle" /\ Secured(c) = FALSE
BY DEF Phase, Secured

\* A context's view, by its structure.
LEMMA ViewIs ==
    IInv => \A c \in Contexts :
        /\ \A o \in Own(c) : /\ phase[c] = PhaseOf(obj[o])
                             /\ secured[c] = obj[o].handshakeDone
        /\ Own(c) = {} => phase[c] = "idle" /\ secured[c] = FALSE
        /\ sent[c] = stream[c].sent /\ received[c] = stream[c].told
        /\ peer[c] = stream[c].peer /\ ending[c] = stream[c].ending
<1> SUFFICES ASSUME IInv, NEW c \in Contexts
             PROVE  /\ \A o \in Own(c) : /\ phase[c] = PhaseOf(obj[o])
                                         /\ secured[c] = obj[o].handshakeDone
                    /\ Own(c) = {} => phase[c] = "idle" /\ secured[c] = FALSE
                    /\ sent[c] = stream[c].sent /\ received[c] = stream[c].told
                    /\ peer[c] = stream[c].peer /\ ending[c] = stream[c].ending
    OBVIOUS
<1>1. phase[c] = Phase(c) /\ secured[c] = Secured(c)
    BY DEF phase, secured
<1>2. ASSUME NEW o \in Own(c)
      PROVE  phase[c] = PhaseOf(obj[o]) /\ secured[c] = obj[o].handshakeDone
    <2>1. Own(c) = {o} /\ obj[o] \in Session
        BY DEF IInv, PointersLive, TypeOK, Own
    <2>2. obj[o].failed \in BOOLEAN /\ obj[o].handshakeDone \in BOOLEAN
        BY <2>1 DEF Session
    <2> QED
        BY <1>1, <2>1, <2>2, OwnView
<1>3. Own(c) = {} => phase[c] = "idle" /\ secured[c] = FALSE
    BY <1>1, NoView
<1>4. /\ sent[c] = stream[c].sent /\ received[c] = stream[c].told
      /\ peer[c] = stream[c].peer /\ ending[c] = stream[c].ending
    BY DEF sent, received, peer, ending
<1> QED
    BY <1>2, <1>3, <1>4

LEMMA ViewIsNext ==
    (IInv => \A c \in Contexts :
        /\ \A o \in Own(c) : /\ phase[c] = PhaseOf(obj[o])
                             /\ secured[c] = obj[o].handshakeDone
        /\ Own(c) = {} => phase[c] = "idle" /\ secured[c] = FALSE
        /\ sent[c] = stream[c].sent /\ received[c] = stream[c].told
        /\ peer[c] = stream[c].peer /\ ending[c] = stream[c].ending)'
BY ViewIs, PTL

\* A step changes only its own context's view.
LEMMA OthersView ==
    ASSUME IInv, IInv', NEW c \in Contexts, Apart(c), NEW d \in Contexts, d # c
    PROVE  /\ phase'[d] = phase[d] /\ secured'[d] = secured[d]
           /\ sent'[d] = sent[d] /\ received'[d] = received[d]
           /\ peer'[d] = peer[d] /\ ending'[d] = ending[d]
<1>1. /\ Own(d)' = Own(d) /\ \A o \in Own(d) : obj'[o] = obj[o]
      /\ stream'[d] = stream[d]
    BY DEF Apart
<1>2. CASE Own(d) = {}
    <2>1. phase[d] = "idle" /\ secured[d] = FALSE
        BY <1>2, ViewIs
    <2>2. Own(d)' = {}
        BY <1>1, <1>2
    <2>3. phase'[d] = "idle" /\ secured'[d] = FALSE
        BY <2>2, ViewIsNext
    <2>4. /\ sent'[d] = sent[d] /\ received'[d] = received[d]
          /\ peer'[d] = peer[d] /\ ending'[d] = ending[d]
        BY <1>1, ViewIs, ViewIsNext
    <2> QED
        BY <2>1, <2>3, <2>4
<1>3. CASE Own(d) # {}
    <2>1. PICK o \in Own(d) : TRUE
        BY <1>3
    <2>2. PhaseOf(obj'[o]) = PhaseOf(obj[o]) /\ obj'[o].handshakeDone = obj[o].handshakeDone
        BY <1>1
    <2> QED
        BY <1>1, <2>1, <2>2, ViewIs, ViewIsNext
<1> QED
    BY <1>2, <1>3

\* Functions that differ at the step's context at most.
LEMMA OneViewChanges ==
    ASSUME IInv, IInv', NEW c \in Contexts, Apart(c)
    PROVE  /\ \A v : phase'[c] = v => phase' = [phase EXCEPT ![c] = v]
           /\ \A v : secured'[c] = v => secured' = [secured EXCEPT ![c] = v]
           /\ \A v : sent'[c] = v => sent' = [sent EXCEPT ![c] = v]
           /\ \A v : received'[c] = v => received' = [received EXCEPT ![c] = v]
           /\ \A v : peer'[c] = v => peer' = [peer EXCEPT ![c] = v]
           /\ \A v : ending'[c] = v => ending' = [ending EXCEPT ![c] = v]
<1>1. /\ phase = [d \in Contexts |-> phase[d]] /\ phase' = [d \in Contexts |-> phase'[d]]
      /\ secured = [d \in Contexts |-> secured[d]] /\ secured' = [d \in Contexts |-> secured'[d]]
      /\ sent = [d \in Contexts |-> sent[d]] /\ sent' = [d \in Contexts |-> sent'[d]]
    BY DEF phase, secured, sent
<1>2. /\ received = [d \in Contexts |-> received[d]] /\ received' = [d \in Contexts |-> received'[d]]
      /\ peer = [d \in Contexts |-> peer[d]] /\ peer' = [d \in Contexts |-> peer'[d]]
      /\ ending = [d \in Contexts |-> ending[d]] /\ ending' = [d \in Contexts |-> ending'[d]]
    BY DEF received, peer, ending
<1>3. \A v : phase'[c] = v => phase' = [phase EXCEPT ![c] = v]
    BY <1>1, OthersView
<1>4. \A v : secured'[c] = v => secured' = [secured EXCEPT ![c] = v]
    BY <1>1, OthersView
<1>5. \A v : sent'[c] = v => sent' = [sent EXCEPT ![c] = v]
    BY <1>1, OthersView
<1>6. \A v : received'[c] = v => received' = [received EXCEPT ![c] = v]
    BY <1>2, OthersView
<1>7. \A v : peer'[c] = v => peer' = [peer EXCEPT ![c] = v]
    BY <1>2, OthersView
<1>8. \A v : ending'[c] = v => ending' = [ending EXCEPT ![c] = v]
    BY <1>2, OthersView
<1> QED
    BY <1>3, <1>4, <1>5, <1>6, <1>7, <1>8

Seen == <<phase, secured, sent, received, peer, ending>>

LEMMA StreamUnseen == stream' = stream => UNCHANGED <<sent, received, peer, ending>>
BY DEF sent, received, peer, ending

LEMMA StructuresUnseen == UNCHANGED <<sessions, obj>> => UNCHANGED <<phase, secured>>
BY DEF phase, secured, Phase, Secured, Own

\* A change to the context's own structure.
LEMMA PutView ==
    ASSUME IInv, IInv', NEW c \in Contexts, NEW o \in Own(c), NEW f, f.context = c,
           sessions' = sessions, Put(o, f)
    PROVE  /\ phase[c] = PhaseOf(obj[o]) /\ secured[c] = obj[o].handshakeDone
           /\ phase'[c] = PhaseOf(f) /\ secured'[c] = f.handshakeDone
<1>1. o \in Objs /\ o \in sessions
    BY DEF Own, IInv, TypeOK
<1>2. obj'[o] = f
    BY <1>1 DEF Put, IInv, TypeOK
<1>3. o \in Own(c)'
    BY <1>1, <1>2 DEF Own
<1> QED
    BY <1>2, <1>3, ViewIs, ViewIsNext

\* One that does not show.
LEMMA PutUnseen ==
    ASSUME IInv, IInv', NEW c \in Contexts, Apart(c), NEW o \in Own(c), NEW f,
           f.context = c, sessions' = sessions, Put(o, f),
           PhaseOf(f) = PhaseOf(obj[o]), f.handshakeDone = obj[o].handshakeDone
    PROVE  UNCHANGED <<phase, secured>>
<1>1. phase'[c] = phase[c] /\ secured'[c] = secured[c]
    BY PutView
<1>2. phase' = [phase EXCEPT ![c] = phase[c]] /\ secured' = [secured EXCEPT ![c] = secured[c]]
    BY <1>1, OneViewChanges
<1> QED
    BY <1>2 DEF phase, secured

LEMMA LinkUnseen ==
    ASSUME IInv, IInv', NEW c \in Contexts, Apart(c), NEW o \in Addressed(c), NEW f,
           f.context = c, Link(c, o, f), f.ssl = Fields(c, o).ssl,
           f.failed = Fields(c, o).failed, f.handshakeDone = Fields(c, o).handshakeDone
    PROVE  UNCHANGED <<phase, secured>>
<1>1. o \in Objs
    BY AddressedType DEF IInv
<1>2. obj'[o] = f /\ o \in sessions'
    BY <1>1 DEF Link, IInv, TypeOK
<1>3. o \in Own(c)'
    BY <1>2 DEF Own
<1>4. phase'[c] = PhaseOf(f) /\ secured'[c] = f.handshakeDone
    BY <1>2, <1>3, ViewIsNext
<1>5. phase[c] = PhaseOf(f) /\ secured[c] = f.handshakeDone
    <2>1. CASE Own(c) = {}
        <3>1. Fields(c, o) = Zeroed(c)
            BY <2>1 DEF Addressed, Fields
        <3>2. PhaseOf(f) = "idle" /\ f.handshakeDone = FALSE
            BY <3>1 DEF Zeroed, PhaseOf
        <3> QED
            BY <2>1, <3>2, ViewIs
    <2>2. CASE Own(c) # {}
        <3>1. o \in Own(c) /\ Fields(c, o) = obj[o]
            BY <2>2 DEF Addressed, Fields, Own
        <3>2. PhaseOf(f) = PhaseOf(obj[o])
            BY <3>1 DEF PhaseOf
        <3> QED
            BY <3>1, <3>2, ViewIs
    <2> QED
        BY <2>1, <2>2
<1>6. phase' = [phase EXCEPT ![c] = phase[c]] /\ secured' = [secured EXCEPT ![c] = secured[c]]
    BY <1>4, <1>5, OneViewChanges
<1> QED
    BY <1>6 DEF phase, secured

LEMMA CallUnseen ==
    ASSUME IInv, IInv', NEW c \in Contexts, Call(c)
    PROVE  UNCHANGED Seen
<1>1. Apart(c)
    BY CallApart
<1>2. UNCHANGED <<sent, received, peer, ending>>
    <2>1. stream' = stream
        BY DEF Call, SSLSetIOFuncs, SSLSetConnection, SSLSetPeerDomainName,
           CallHandshake, CallRead, SSLGetBufferedReadSize, SSLWrite, CallClose
    <2> QED
        BY <2>1, StreamUnseen
<1> SUFFICES UNCHANGED <<phase, secured>>
    BY <1>2 DEF Seen
<1>3. ASSUME NEW o \in Addressed(c), NEW h,
             \/ Link(c, o, [Fields(c, o) EXCEPT !.io = TRUE])
             \/ Link(c, o, [Fields(c, o) EXCEPT !.host = h])
             \/ Link(c, o, Fields(c, o))
      PROVE  UNCHANGED <<phase, secured>>
    <2> DEFINE f == [Fields(c, o) EXCEPT !.io = TRUE]
    <2> DEFINE g == [Fields(c, o) EXCEPT !.host = h]
    <2>1. Fields(c, o) \in Session /\ Fields(c, o).context = c
        BY FieldsOf
    <2>2. /\ f.context = c /\ f.ssl = Fields(c, o).ssl
          /\ f.failed = Fields(c, o).failed /\ f.handshakeDone = Fields(c, o).handshakeDone
        BY <2>1 DEF Session
    <2>3. /\ g.context = c /\ g.ssl = Fields(c, o).ssl
          /\ g.failed = Fields(c, o).failed /\ g.handshakeDone = Fields(c, o).handshakeDone
        BY <2>1 DEF Session
    <2>4. Link(c, o, f) \/ Link(c, o, g) \/ Link(c, o, Fields(c, o))
        BY <1>3
    <2> HIDE DEF f, g
    <2>5. CASE Link(c, o, f)
        BY <1>1, <2>2, <2>5, LinkUnseen
    <2>6. CASE Link(c, o, g)
        BY <1>1, <2>3, <2>6, LinkUnseen
    <2>7. CASE Link(c, o, Fields(c, o))
        BY <1>1, <2>1, <2>7, LinkUnseen
    <2> QED
        BY <2>4, <2>5, <2>6, <2>7
<1>4. CASE SSLSetIOFuncs(c) \/ SSLSetConnection(c) \/ SSLSetPeerDomainName(c)
    BY <1>3, <1>4 DEF SSLSetIOFuncs, SSLSetConnection, SSLSetPeerDomainName
<1>5. CASE CallHandshake(c) \/ CallRead(c) \/ CallClose(c) \/ SSLGetBufferedReadSize(c)
    BY <1>3, <1>5, StructuresUnseen
       DEF CallHandshake, CallRead, CallClose, SSLGetBufferedReadSize, Find
<1>6. CASE SSLWrite(c)
    <2>1. PICK o \in Own(c) : Put(o, [obj[o] EXCEPT !.awaitingFirstByte = TRUE])
        BY <1>6 DEF SSLWrite
    <2> DEFINE f == [obj[o] EXCEPT !.awaitingFirstByte = TRUE]
    <2>2. obj[o] \in Session /\ obj[o].context = c
        BY DEF Own, IInv, TypeOK
    <2>3. /\ f.context = c /\ f.ssl = obj[o].ssl
          /\ f.failed = obj[o].failed /\ f.handshakeDone = obj[o].handshakeDone
        BY <2>2 DEF Session
    <2>4. PhaseOf(f) = PhaseOf(obj[o])
        BY <2>3 DEF PhaseOf
    <2>5. sessions' = sessions
        BY <1>6 DEF SSLWrite
    <2> HIDE DEF f
    <2> QED
        BY <1>1, <2>1, <2>3, <2>4, <2>5, PutUnseen DEF f
<1> QED
    BY <1>4, <1>5, <1>6 DEF Call

\* A start that fails leaves an SSL without a BIO, or nothing to be seen.
LEMMA FailToStartFails ==
    ASSUME IInv, IInv', NEW c \in Contexts, FailToStart(c)
    PROVE  Contract!Fail(c) \/ UNCHANGED Seen
<1> DEFINE o == at[c]
<1>1. o \in Own(c) /\ obj[o] \in Session /\ obj[o].context = c
      /\ ~obj[o].handshakeDone /\ obj[o].ssl = "none"
    BY InHandIsOwn DEF FailToStart, Begins, Own
<1>2. Apart(c) /\ sessions' = sessions /\ UNCHANGED <<sent, received, peer, ending>>
    BY StepApart, StreamUnseen DEF FailToStart, Step
<1>3. PICK ssl \in {"none", "bare"} :
          Put(o, [obj[o] EXCEPT !.ssl = ssl, !.failed = TRUE])
    BY DEF FailToStart
<1> DEFINE f == [obj[o] EXCEPT !.ssl = ssl, !.failed = TRUE]
<1>4. f.context = c /\ f.ssl = ssl /\ f.failed = TRUE
      /\ f.handshakeDone = obj[o].handshakeDone
    BY <1>1 DEF Session
<1> HIDE DEF f
<1>5. /\ phase[c] = PhaseOf(obj[o]) /\ secured[c] = obj[o].handshakeDone
      /\ phase'[c] = PhaseOf(f) /\ secured'[c] = f.handshakeDone
    <2>1. Put(o, f)
        BY <1>3 DEF f
    <2> QED
        BY <1>1, <1>2, <1>4, <2>1, PutView
<1>6. secured' = secured
    <2>1. secured' = [secured EXCEPT ![c] = secured[c]]
        BY <1>2, <1>4, <1>5, OneViewChanges
    <2> QED
        BY <2>1 DEF secured
<1>7. CASE ssl = "none"
    <2>1. PhaseOf(f) = PhaseOf(obj[o])
        BY <1>1, <1>4, <1>7 DEF PhaseOf
    <2>2. phase' = [phase EXCEPT ![c] = phase[c]]
        BY <1>2, <1>5, <2>1, OneViewChanges
    <2>3. phase' = phase
        BY <2>2 DEF phase
    <2> QED
        BY <1>2, <1>6, <2>3 DEF Seen
<1>8. CASE ssl = "bare"
    <2>1. PhaseOf(f) = "closed"
        BY <1>4, <1>8 DEF PhaseOf
    <2>2. phase' = [phase EXCEPT ![c] = "closed"]
        BY <1>2, <1>5, <2>1, OneViewChanges
    <2> QED
        BY <1>1, <1>2, <1>5, <1>6, <2>2 DEF Contract!Fail
<1> QED
    BY <1>7, <1>8

\* startSession: the context leaves "idle", for "closed" if an earlier start failed.
LEMMA StartBegins ==
    ASSUME IInv, IInv', NEW c \in Contexts, StartSession(c)
    PROVE  Contract!Begin(c) \/ Contract!Fail(c) \/ UNCHANGED Seen
<1> DEFINE o == at[c]
<1>1. /\ o \in Own(c) /\ obj[o] \in Session /\ obj[o].context = c
      /\ ~obj[o].handshakeDone
    BY InHandIsOwn DEF StartSession, Begins, Own
<1>2. Apart(c) /\ sessions' = sessions /\ UNCHANGED <<sent, received, peer, ending>>
    BY StepApart, StreamUnseen DEF StartSession, Step
<1>3. CASE UNCHANGED obj
    BY <1>2, <1>3, StructuresUnseen DEF Seen
<1>4. ASSUME obj[o].ssl = "none", NEW f, f.context = c, f.ssl = "ready",
             f.failed = obj[o].failed, f.handshakeDone = obj[o].handshakeDone, Put(o, f)
      PROVE  Contract!Begin(c) \/ Contract!Fail(c)
    <2>1. /\ phase[c] = PhaseOf(obj[o]) /\ secured[c] = obj[o].handshakeDone
          /\ phase'[c] = PhaseOf(f) /\ secured'[c] = f.handshakeDone
        BY <1>1, <1>2, <1>4, PutView
    <2>2. secured' = secured
        <3>1. secured' = [secured EXCEPT ![c] = secured[c]]
            BY <1>2, <1>4, <2>1, OneViewChanges
        <3> QED
            BY <3>1 DEF secured
    <2>3. CASE obj[o].failed
        <3>1. PhaseOf(f) = "closed"
            BY <1>4, <2>3 DEF PhaseOf
        <3>2. phase' = [phase EXCEPT ![c] = "closed"]
            BY <1>2, <2>1, <3>1, OneViewChanges
        <3> QED
            BY <1>1, <1>2, <2>1, <2>2, <3>2 DEF Contract!Fail
    <2>4. CASE ~obj[o].failed
        <3>1. PhaseOf(f) = "handshake" /\ PhaseOf(obj[o]) = "idle"
            BY <1>1, <1>4, <2>4 DEF PhaseOf
        <3>2. phase' = [phase EXCEPT ![c] = "handshake"]
            BY <1>2, <2>1, <3>1, OneViewChanges
        <3> QED
            BY <1>2, <2>1, <2>2, <3>1, <3>2 DEF Contract!Begin
    <2> QED
        BY <2>3, <2>4
<1>5. ASSUME obj[o].ssl = "none", NEW s,
             \/ Put(o, [obj[o] EXCEPT !.ssl = "ready", !.session = s])
             \/ Put(o, [obj[o] EXCEPT !.ssl = "ready"])
      PROVE  Contract!Begin(c) \/ Contract!Fail(c)
    <2> DEFINE f == [obj[o] EXCEPT !.ssl = "ready", !.session = s]
    <2> DEFINE g == [obj[o] EXCEPT !.ssl = "ready"]
    <2>1. /\ f.context = c /\ f.ssl = "ready"
          /\ f.failed = obj[o].failed /\ f.handshakeDone = obj[o].handshakeDone
        BY <1>1 DEF Session
    <2>2. /\ g.context = c /\ g.ssl = "ready"
          /\ g.failed = obj[o].failed /\ g.handshakeDone = obj[o].handshakeDone
        BY <1>1 DEF Session
    <2>3. Put(o, f) \/ Put(o, g)
        BY <1>5
    <2> HIDE DEF f, g
    <2> QED
        BY <1>4, <1>5, <2>1, <2>2, <2>3
<1> QED
    BY <1>3, <1>5 DEF StartSession

LEMMA HandshakeDoneConnects ==
    ASSUME IInv, IInv', EInv, NEW c \in Contexts, HandshakeDone(c)
    PROVE  Contract!Connect(c)
<1> DEFINE o == at[c]
<1>1. o # None /\ ~obj[o].handshakeDone /\ obj[o].ssl = "ready"
    BY DEF HandshakeDone, IInv, InHand, Carries, HasInHand, EInv, Engaged
<1>2. o \in Own(c) /\ obj[o] \in Session /\ obj[o].context = c
    BY <1>1, InHandIsOwn DEF Own
<1>3. Apart(c) /\ sessions' = sessions /\ UNCHANGED <<sent, received, peer, ending>>
    BY StepApart, StreamUnseen DEF HandshakeDone, Step
<1>4. ASSUME NEW s,
             \/ Put(o, [obj[o] EXCEPT !.session = s, !.ssl = "up", !.handshakeDone = TRUE])
             \/ Put(o, [obj[o] EXCEPT !.ssl = "up", !.handshakeDone = TRUE])
      PROVE  Contract!Connect(c)
    <2> DEFINE f == [obj[o] EXCEPT !.session = s, !.ssl = "up", !.handshakeDone = TRUE]
    <2> DEFINE g == [obj[o] EXCEPT !.ssl = "up", !.handshakeDone = TRUE]
    <2>1. /\ f.context = c /\ f.ssl = "up"
          /\ f.failed = obj[o].failed /\ f.handshakeDone = TRUE
        BY <1>2 DEF Session
    <2>2. /\ g.context = c /\ g.ssl = "up"
          /\ g.failed = obj[o].failed /\ g.handshakeDone = TRUE
        BY <1>2 DEF Session
    <2>3. Put(o, f) \/ Put(o, g)
        BY <1>4
    <2> HIDE DEF f, g
    <2>4. ASSUME NEW k, Put(o, k), k.context = c, k.ssl = "up",
                 k.failed = obj[o].failed, k.handshakeDone = TRUE
          PROVE  Contract!Connect(c)
        <3>1. /\ phase[c] = PhaseOf(obj[o]) /\ secured[c] = obj[o].handshakeDone
              /\ phase'[c] = PhaseOf(k) /\ secured'[c] = k.handshakeDone
            BY <1>2, <1>3, <2>4, PutView
        <3>2. PhaseOf(obj[o]) = IF obj[o].failed THEN "closed" ELSE "handshake"
            BY <1>1 DEF PhaseOf
        <3>3. PhaseOf(k) = IF obj[o].failed THEN "closed" ELSE "connected"
            BY <2>4 DEF PhaseOf
        <3>4. secured' = [secured EXCEPT ![c] = TRUE]
            BY <1>3, <2>4, <3>1, OneViewChanges
        <3>5. phase' = [phase EXCEPT ![c] = IF phase[c] = "handshake" THEN "connected" ELSE phase[c]]
            BY <1>3, <3>1, <3>2, <3>3, OneViewChanges
        <3> QED
            BY <1>1, <1>3, <3>1, <3>2, <3>4, <3>5 DEF Contract!Connect
    <2> QED
        BY <2>1, <2>2, <2>3, <2>4
<1> QED
    BY <1>4 DEF HandshakeDone, NewSslSession

LEMMA HandshakeFailsFails ==
    ASSUME IInv, IInv', EInv, NEW c \in Contexts, HandshakeFails(c)
    PROVE  Contract!Fail(c)
<1> DEFINE o == at[c]
<1>1. o # None /\ ~obj[o].handshakeDone /\ obj[o].ssl # "none"
    BY DEF HandshakeFails, IInv, InHand, Carries, HasInHand, EInv, Engaged
<1>2. o \in Own(c) /\ obj[o] \in Session /\ obj[o].context = c
    BY <1>1, InHandIsOwn DEF Own
<1>3. Apart(c) /\ sessions' = sessions /\ UNCHANGED <<sent, received, peer, ending>>
    BY StepApart, StreamUnseen DEF HandshakeFails, Step
<1>4. PICK ssl \in {obj[o].ssl, "broken"} :
          Put(o, [obj[o] EXCEPT !.ssl = ssl, !.failed = TRUE])
    BY DEF HandshakeFails
<1> DEFINE f == [obj[o] EXCEPT !.ssl = ssl, !.failed = TRUE]
<1>5. f.context = c /\ f.ssl = ssl /\ f.failed = TRUE
      /\ f.handshakeDone = obj[o].handshakeDone
    BY <1>2 DEF Session
<1> HIDE DEF f
<1>6. /\ phase[c] = PhaseOf(obj[o]) /\ secured[c] = obj[o].handshakeDone
      /\ phase'[c] = PhaseOf(f) /\ secured'[c] = f.handshakeDone
    BY <1>2, <1>3, <1>4, <1>5, PutView DEF f
<1>7. PhaseOf(f) = "closed"
    BY <1>1, <1>4, <1>5 DEF PhaseOf
<1>8. phase' = [phase EXCEPT ![c] = "closed"]
    BY <1>3, <1>6, <1>7, OneViewChanges
<1>9. secured' = secured
    <2>1. secured' = [secured EXCEPT ![c] = secured[c]]
        BY <1>3, <1>5, <1>6, OneViewChanges
    <2> QED
        BY <2>1 DEF secured
<1> QED
    BY <1>1, <1>3, <1>6, <1>8, <1>9 DEF Contract!Fail

\* A ticket's session is not seen.
LEMMA TakeTicketUnseen ==
    ASSUME IInv, IInv', RInv, NEW c \in Contexts, TakeTicket(c)
    PROVE  UNCHANGED Seen
<1> DEFINE o == at[c]
<1>1. o # None /\ obj[o].handshakeDone
    BY DEF TakeTicket, IInv, InHand, Carries, HasInHand
<1>2. o \in Own(c) /\ obj[o] \in Session /\ obj[o].context = c /\ obj[o].ssl # "none"
    BY <1>1, InHandIsOwn DEF Own, RInv, Unstarted
<1>3. Apart(c) /\ sessions' = sessions
    BY StepApart DEF TakeTicket, Step
<1>4. UNCHANGED <<sent, received, peer, ending>>
    <2>1. stream' = [stream EXCEPT ![c].ticket = "taken"]
        BY DEF TakeTicket
    <2>2. \A d \in Contexts :
              /\ stream'[d].sent = stream[d].sent /\ stream'[d].told = stream[d].told
              /\ stream'[d].peer = stream[d].peer /\ stream'[d].ending = stream[d].ending
        <3>1. \A d \in Contexts : stream[d] \in Stream
            BY DEF IInv, TypeOK
        <3> QED
            BY <2>1, <3>1 DEF IInv, TypeOK, Stream
    <2> QED
        BY <2>2 DEF sent, received, peer, ending
<1>5. PICK s : Put(o, [obj[o] EXCEPT !.session = s, !.ssl = "up", !.handshakeDone = TRUE])
    BY DEF TakeTicket, NewSslSession
<1> DEFINE f == [obj[o] EXCEPT !.session = s, !.ssl = "up", !.handshakeDone = TRUE]
<1>6. /\ f.context = c /\ f.ssl = "up"
      /\ f.failed = obj[o].failed /\ f.handshakeDone = TRUE
    BY <1>2 DEF Session
<1>7. Put(o, f)
    BY <1>5
<1> HIDE DEF f
<1>8. PhaseOf(f) = PhaseOf(obj[o])
    BY <1>1, <1>2, <1>6 DEF PhaseOf
<1>9. f.handshakeDone = obj[o].handshakeDone
    BY <1>1, <1>2, <1>6 DEF Session
<1>10. UNCHANGED <<phase, secured>>
    BY <1>2, <1>3, <1>6, <1>7, <1>8, <1>9, PutUnseen
<1> QED
    BY <1>4, <1>10 DEF Seen

\* SSLRead answers with bytes that arrived, or with the end, or with neither.
LEMMA EndReadReceives ==
    ASSUME IInv, IInv', EInv, NEW c \in Contexts, EndRead(c)
    PROVE  Contract!Receive(c) \/ Contract!TellEnd(c) \/ UNCHANGED Seen
<1> DEFINE o == at[c]
<1> DEFINE s == stream[c]
<1>1. o # None /\ obj[o].handshakeDone /\ pc[c] = "reading"
    BY DEF EndRead, IInv, InHand, Carries, HasInHand
<1>2. o \in Own(c) /\ obj[o] \in Session /\ obj[o].context = c
    BY <1>1, InHandIsOwn DEF Own
<1>3. Apart(c) /\ sessions' = sessions
    BY StepApart DEF EndRead, Step
<1>4. UNCHANGED <<phase, secured>>
    <2>1. CASE obj' = obj
        BY <1>3, <2>1, StructuresUnseen
    <2>2. CASE Put(o, [obj[o] EXCEPT !.awaitingFirstByte = FALSE])
        <3> DEFINE f == [obj[o] EXCEPT !.awaitingFirstByte = FALSE]
        <3>1. /\ f.context = c /\ f.ssl = obj[o].ssl
              /\ f.failed = obj[o].failed /\ f.handshakeDone = obj[o].handshakeDone
            BY <1>2 DEF Session
        <3>2. PhaseOf(f) = PhaseOf(obj[o])
            BY <3>1 DEF PhaseOf
        <3> HIDE DEF f
        <3> QED
            BY <1>2, <1>3, <2>2, <3>1, <3>2, PutUnseen DEF f
    <2> QED
        BY <2>1, <2>2 DEF EndRead
<1>5. /\ s \in Stream /\ s.told \in Nat /\ s.opened \in Nat /\ s.sent \in Nat
      /\ filled[c] \in Nat /\ want[c] \in Nat
    BY StreamType DEF IInv
<1>6. /\ s.told + filled[c] <= s.opened /\ s.opened <= s.sent
      /\ want[c] > 0 /\ s.ending = "none"
    BY <1>1 DEF EInv, Flows, Engaged
<1>7. /\ secured[c] = TRUE
      /\ sent[c] = s.sent /\ received[c] = s.told /\ peer[c] = s.peer /\ ending[c] = s.ending
    <2>1. secured[c] = obj[o].handshakeDone /\ obj[o].handshakeDone = TRUE
        BY <1>1, <1>2, ViewIs DEF Session
    <2> QED
        BY <2>1, ViewIs
<1>8. /\ sent'[c] = stream'[c].sent /\ received'[c] = stream'[c].told
      /\ peer'[c] = stream'[c].peer /\ ending'[c] = stream'[c].ending
    BY ViewIsNext
<1>9. CASE filled[c] > 0
    <2>1. stream'[c] = [s EXCEPT !.told = @ + filled[c]]
        BY <1>9 DEF EndRead, IInv, TypeOK
    <2>2. /\ stream'[c].told = s.told + filled[c] /\ stream'[c].sent = s.sent
          /\ stream'[c].peer = s.peer /\ stream'[c].ending = s.ending
        BY <1>5, <2>1 DEF Stream
    <2> DEFINE n == s.told + filled[c]
    <2>3. n \in (received[c] + 1)..sent[c]
        BY <1>5, <1>6, <1>7, <1>9
    <2>4. received' = [received EXCEPT ![c] = n]
        BY <1>3, <1>8, <2>2, OneViewChanges
    <2>5. /\ sent' = [sent EXCEPT ![c] = sent[c]] /\ peer' = [peer EXCEPT ![c] = peer[c]]
          /\ ending' = [ending EXCEPT ![c] = ending[c]]
        BY <1>3, <1>7, <1>8, <2>2, OneViewChanges
    <2>6. UNCHANGED <<sent, peer, ending>>
        BY <2>5 DEF sent, peer, ending
    <2> HIDE DEF n
    <2> QED
        BY <1>4, <1>6, <1>7, <2>3, <2>4, <2>6 DEF Contract!Receive
<1>10. CASE ~(filled[c] > 0)
    <2>1. filled[c] = 0 /\ s.sent = s.opened /\ s.told = s.opened
        BY <1>5, <1>6, <1>10 DEF EndRead, Exhausted, Pending
    <2>2. stream'[c] = [s EXCEPT !.ending = EndingOf(s.peer)]
        BY <1>10 DEF EndRead, IInv, TypeOK
    <2>3. /\ stream'[c].told = s.told /\ stream'[c].sent = s.sent
          /\ stream'[c].peer = s.peer /\ stream'[c].ending = EndingOf(s.peer)
        BY <1>5, <2>2 DEF Stream
    <2>4. /\ sent' = [sent EXCEPT ![c] = sent[c]] /\ peer' = [peer EXCEPT ![c] = peer[c]]
          /\ received' = [received EXCEPT ![c] = received[c]]
        BY <1>3, <1>7, <1>8, <2>3, OneViewChanges
    <2>5. UNCHANGED <<sent, peer, received>>
        BY <2>4 DEF sent, peer, received
    <2>6. ending' = [ending EXCEPT ![c] = EndingOf(s.peer)]
        BY <1>3, <1>8, <2>3, OneViewChanges
    <2>7. s.peer \in {"open", "notified", "gone"}
        BY <1>5 DEF Stream
    <2>8. CASE s.peer = "open"
        <3>1. EndingOf(s.peer) = "none"
            BY <2>8 DEF EndingOf
        <3>2. ending' = [ending EXCEPT ![c] = ending[c]]
            BY <1>6, <1>7, <2>6, <3>1
        <3>3. ending' = ending
            BY <3>2 DEF ending
        <3> QED
            BY <1>4, <2>5, <3>3 DEF Seen
    <2>9. CASE s.peer = "notified"
        <3>1. EndingOf(s.peer) = "graceful"
            BY <2>9 DEF EndingOf
        <3> QED
            BY <1>4, <1>7, <2>1, <2>5, <2>6, <2>9, <3>1 DEF Contract!TellEnd
    <2>10. CASE s.peer = "gone"
        <3>1. EndingOf(s.peer) = "abort"
            BY <2>10 DEF EndingOf
        <3> QED
            BY <1>4, <1>7, <2>1, <2>5, <2>6, <2>10, <3>1 DEF Contract!TellEnd
    <2> QED
        BY <2>7, <2>8, <2>9, <2>10
<1> QED
    BY <1>9, <1>10

LEMMA SSLCloseCloses ==
    ASSUME IInv, IInv', NEW c \in Contexts, SSLClose(c)
    PROVE  Contract!Close(c)
<1>1. Apart(c)
    BY StepApart DEF Step
<1>2. Own(c)' = {}
    <2>1. CASE UNCHANGED <<sessions, obj>>
        BY <2>1 DEF SSLClose, Own
    <2>2. CASE ~UNCHANGED <<sessions, obj>>
        BY <2>2 DEF SSLClose, Own, IInv, PointersLive, TypeOK
    <2> QED
        BY <2>1, <2>2
<1>3. stream'[c] = NewStream
    BY DEF SSLClose, IInv, TypeOK
<1>4. /\ phase'[c] = "idle" /\ secured'[c] = FALSE
      /\ sent'[c] = 0 /\ received'[c] = 0 /\ peer'[c] = "open" /\ ending'[c] = "none"
    BY <1>2, <1>3, ViewIsNext DEF NewStream
<1> QED
    BY <1>1, <1>4, OneViewChanges DEF Contract!Close

LEMMA PeerSendsOrEnds ==
    ASSUME IInv, IInv', EInv, NEW c \in Contexts, Peer(c)
    PROVE  \/ Contract!Send(c) \/ UNCHANGED Seen
           \/ \E how \in {"notified", "gone"} : Contract!PeerEnds(c, how)
<1> DEFINE s == stream[c]
<1>1. Apart(c) /\ UNCHANGED <<phase, secured>>
    BY StepApart, StructuresUnseen DEF Peer
<1>2. secured[c] = TRUE
    <2>1. PICK o \in Own(c) : obj[o].handshakeDone
        BY DEF Peer, Secured
    <2>2. obj[o].handshakeDone = TRUE
        BY <2>1 DEF Own, IInv, TypeOK, Session
    <2> QED
        BY <2>1, <2>2, ViewIs
<1>3. /\ s \in Stream /\ s.told \in Nat /\ s.opened \in Nat /\ s.sent \in Nat
      /\ filled[c] \in Nat /\ s.told + filled[c] <= s.opened /\ s.opened <= s.sent
      /\ s.peer = "open"
    BY StreamType DEF IInv, EInv, Flows, Peer
<1>4. /\ sent[c] = s.sent /\ received[c] = s.told /\ peer[c] = s.peer /\ ending[c] = s.ending
      /\ sent'[c] = stream'[c].sent /\ received'[c] = stream'[c].told
      /\ peer'[c] = stream'[c].peer /\ ending'[c] = stream'[c].ending
    BY ViewIs, ViewIsNext
<1>5. CASE PeerSends(c)
    <2>1. stream'[c] = [s EXCEPT !.sent = @ + RecordSize]
        BY <1>5 DEF PeerSends, IInv, TypeOK
    <2>2. /\ stream'[c].told = s.told /\ stream'[c].sent = s.sent + RecordSize
          /\ stream'[c].peer = s.peer /\ stream'[c].ending = s.ending
        BY <1>3, <2>1 DEF Stream
    <2>3. sent' = [sent EXCEPT ![c] = sent[c] + RecordSize]
        BY <1>1, <1>4, <2>2, OneViewChanges
    <2>4. /\ received' = [received EXCEPT ![c] = received[c]]
          /\ peer' = [peer EXCEPT ![c] = peer[c]] /\ ending' = [ending EXCEPT ![c] = ending[c]]
        BY <1>1, <1>4, <2>2, OneViewChanges
    <2>5. UNCHANGED <<received, peer, ending>>
        BY <2>4 DEF received, peer, ending
    <2> QED
        BY <1>1, <1>2, <1>3, <1>4, <2>3, <2>5 DEF Contract!Send
<1>6. CASE PeerSendsTicket(c)
    <2>1. stream'[c] = [s EXCEPT !.ticket = "arrived"]
        BY <1>6 DEF PeerSendsTicket, IInv, TypeOK
    <2>2. /\ stream'[c].told = s.told /\ stream'[c].sent = s.sent
          /\ stream'[c].peer = s.peer /\ stream'[c].ending = s.ending
        BY <1>3, <2>1 DEF Stream
    <2>3. /\ sent' = [sent EXCEPT ![c] = sent[c]]
          /\ received' = [received EXCEPT ![c] = received[c]]
          /\ peer' = [peer EXCEPT ![c] = peer[c]] /\ ending' = [ending EXCEPT ![c] = ending[c]]
        BY <1>1, <1>4, <2>2, OneViewChanges
    <2>4. UNCHANGED <<sent, received, peer, ending>>
        BY <2>3 DEF sent, received, peer, ending
    <2> QED
        BY <1>1, <2>4 DEF Seen
<1>7. ASSUME NEW how \in {"notified", "gone"}, PeerEnds(c, how)
      PROVE  Contract!PeerEnds(c, how)
    <2>1. PICK kept \in {s.opened, s.sent} :
              /\ how = "notified" => kept = s.sent
              /\ stream' = [stream EXCEPT ![c].peer = how, ![c].sent = kept]
        BY <1>7 DEF PeerEnds
    <2>2. stream'[c] = [s EXCEPT !.peer = how, !.sent = kept]
        BY <2>1 DEF IInv, TypeOK
    <2>3. /\ stream'[c].told = s.told /\ stream'[c].sent = kept
          /\ stream'[c].peer = how /\ stream'[c].ending = s.ending
        BY <1>3, <2>2 DEF Stream
    <2>4. sent' = [sent EXCEPT ![c] = kept] /\ peer' = [peer EXCEPT ![c] = how]
        BY <1>1, <1>4, <2>3, OneViewChanges
    <2>5. /\ received' = [received EXCEPT ![c] = received[c]]
          /\ ending' = [ending EXCEPT ![c] = ending[c]]
        BY <1>1, <1>4, <2>3, OneViewChanges
    <2>6. UNCHANGED <<received, ending>>
        BY <2>5 DEF received, ending
    <2>7. kept \in received[c]..sent[c] /\ (how = "notified" => kept = sent[c])
        BY <1>3, <1>4, <2>1
    <2> QED
        BY <1>1, <1>3, <1>4, <2>4, <2>6, <2>7 DEF Contract!PeerEnds
<1> QED
    BY <1>5, <1>6, <1>7 DEF Peer

LEMMA NextImplements ==
    ASSUME IInv, IInv', RInv, EInv, [Next]_vars
    PROVE  Contract!Next \/ UNCHANGED Seen
<1>1. CASE UNCHANGED vars
    BY <1>1, StreamUnseen, StructuresUnseen DEF vars, Seen
<1>2. ASSUME NEW c \in Contexts, Call(c)
      PROVE  UNCHANGED Seen
    BY <1>2, CallUnseen
<1>3. ASSUME NEW c \in Contexts, Step(c)
      PROVE  Contract!Next \/ UNCHANGED Seen
    <2>1. CASE FailToStart(c) \/ StartSession(c) \/ HandshakeDone(c) \/ HandshakeFails(c)
        BY <2>1, FailToStartFails, StartBegins, HandshakeDoneConnects, HandshakeFailsFails
           DEF Contract!Next
    <2>2. CASE TakeTicket(c) \/ EndRead(c) \/ SSLClose(c)
        BY <2>2, TakeTicketUnseen, EndReadReceives, SSLCloseCloses DEF Contract!Next
    <2>3. CASE OpenRecord(c)
        <3>1. UNCHANGED <<sessions, obj>> /\ stream' = [stream EXCEPT ![c].opened = @ + RecordSize]
            BY <2>3 DEF OpenRecord
        <3>2. \A d \in Contexts :
                  /\ stream'[d].sent = stream[d].sent /\ stream'[d].told = stream[d].told
                  /\ stream'[d].peer = stream[d].peer /\ stream'[d].ending = stream[d].ending
            <4>1. \A d \in Contexts : stream[d] \in Stream
                BY DEF IInv, TypeOK
            <4> QED
                BY <3>1, <4>1 DEF IInv, TypeOK, Stream
        <3>3. UNCHANGED <<sent, received, peer, ending>>
            BY <3>2 DEF sent, received, peer, ending
        <3> QED
            BY <3>1, <3>3, StructuresUnseen DEF Seen
    <2>4. CASE AnswerHandshake(c) \/ HandshakeWouldBlock(c) \/ Remember(c) \/ Store(c)
               \/ FindNoSlot(c) \/ Drop(c) \/ Fill(c)
        <3>1. UNCHANGED <<sessions, obj, stream>>
            BY <2>4 DEF AnswerHandshake, HandshakeWouldBlock, Remember, Store, FindNoSlot,
               Drop, Fill
        <3> QED
            BY <3>1, StreamUnseen, StructuresUnseen DEF Seen
    <2> QED
        BY <1>3, <2>1, <2>2, <2>3, <2>4 DEF Step
<1>4. ASSUME NEW c \in Contexts, Peer(c)
      PROVE  Contract!Next \/ UNCHANGED Seen
    BY <1>4, PeerSendsOrEnds DEF Contract!Next
<1> QED
    BY <1>1, <1>2, <1>3, <1>4 DEF Next

LEMMA InitImplements == Init => Contract!Init
<1> SUFFICES ASSUME Init PROVE Contract!Init
    OBVIOUS
<1>1. \A c \in Contexts : Phase(c) = "idle" /\ Secured(c) = FALSE
    <2>1. \A c \in Contexts : Own(c) = {}
        BY DEF Init, Own
    <2> QED
        BY <2>1, NoView
<1>2. \A c \in Contexts : stream[c] = NewStream
    BY DEF Init
<1>3. phase = [c \in Contexts |-> "idle"] /\ secured = [c \in Contexts |-> FALSE]
    BY <1>1 DEF phase, secured
<1>4. /\ sent = [c \in Contexts |-> 0] /\ received = [c \in Contexts |-> 0]
      /\ peer = [c \in Contexts |-> "open"] /\ ending = [c \in Contexts |-> "none"]
    BY <1>2 DEF sent, received, peer, ending, NewStream
<1> QED
    BY <1>3, <1>4 DEF Contract!Init

\* Whatever the calls, the peers and the failures, CFNetwork is given the states and the
\* bytes of a Secure Transport context: none before the handshake, none lost or twice,
\* the end after all of them (tls-openssl.c:315-462, 535-549).
THEOREM ShimImplementsSecureTransport == Spec => ImplementsSecureTransport
<1>1. IInv /\ IInv' /\ RInv /\ EInv /\ [Next]_vars =>
          [Contract!Next]_<<phase, secured, sent, received, peer, ending>>
    BY NextImplements DEF Seen
<1> QED
    BY <1>1, InitImplements, Invariance, ReferencesInvariance, StreamsInvariance, PTL
       DEF Spec, ImplementsSecureTransport, Contract!Spec, Contract!vars
=============================================================================
