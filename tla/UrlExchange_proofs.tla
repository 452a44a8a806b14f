-------------------------- MODULE UrlExchange_proofs --------------------------
(***************************************************************************)
(* What one load tells its client, and what it leaves in the cache and on  *)
(* its connection, for bodies and drain limits of any length.  IInv counts *)
(* what has been read of a reply and what of it the writer has been given; *)
(* PInv says what has been posted at each place of the worker and that the *)
(* client has heard the first part of it, from which what is stored is what*)
(* was delivered and the exchange implements UrlLoad.                      *)
(***************************************************************************)
EXTENDS UrlExchange, SequenceTheorems, FiniteSetTheorems, TLAPS

\* From the head of a reply to the end of its body.
Reading == {"redirect", "response", "body", "image", "imageData", "store", "end"}

One(condition) == IF condition THEN 1 ELSE 0

\* How often the request can still be sent.
Sendings ==
    /\ pc = "start" => attempts = 0 /\ entry = None
    /\ pc = "send" => attempts + One(pooled) + One(entry # None) <= 2
    /\ pc = "head" => attempts + One(pooled) + One(entry # None) <= 3

\* Before the head of a reply nothing is left of an earlier one.
Before ==
    /\ pc \in {"start", "send", "head", "replay"} => unread = 0 /\ writer = None
    /\ pc \in {"start", "send", "head"} => taken = 0
    /\ pc = "replay" => entry # None

\* What was read of the body is what the writer, where there still is one, was given.
During ==
    pc \in Reading =>
        /\ reply \in Replies
        /\ keepable => reply.framing # "close"
        /\ taken <= reply.length
        /\ writer # None => writer = BodyOf(attempts, taken) /\ reply.kind # "image"
        /\ pc \in {"redirect", "response"} => taken = 0
        /\ pc \in {"redirect", "response", "body"} => unread = Reads(reply) - taken
        /\ pc \in {"image", "imageData", "store", "end"} /\ whole /\ Announced(reply.framing)
           => taken = reply.length /\ unread = 0

\* A connection that may be kept has nothing left to read.
After ==
    pc \in {"return", "done"} /\ keepable => unread = 0 \/ reply.framing = "garbled"

\* Bodies are no longer than MaxBody.
Bounded ==
    /\ stored # None => Len(stored.body) <= MaxBody
    /\ entry # None => Len(entry.body) <= MaxBody

IInv ==
    /\ TypeOK /\ Sendings /\ Before /\ During /\ After /\ Bounded
    /\ LengthsCatchTruncation

-----------------------------------------------------------------------------
(* Bodies, entries and calls. *)

LEMMA BodyProperties ==
    ASSUME NEW a \in 0..3, NEW n \in 0..MaxBody
    PROVE  /\ BodyOf(a, n) \in Seq(Parts) /\ Len(BodyOf(a, n)) = n
           /\ BodyOf(a, 0) = <<>>
           /\ n < MaxBody => /\ <<a, n + 1>> \in Parts
                             /\ Append(BodyOf(a, n), <<a, n + 1>>) = BodyOf(a, n + 1)
<1>1. MaxBody \in Nat
    BY ConstantsAssumption
<1>2. \A m \in 0..MaxBody :
          /\ BodyOf(a, m) \in Seq(Parts) /\ Len(BodyOf(a, m)) = m
          /\ \A i \in 1..m : BodyOf(a, m)[i] = <<a, i>>
    <2> SUFFICES ASSUME NEW m \in 0..MaxBody
                 PROVE  /\ BodyOf(a, m) \in Seq(Parts) /\ Len(BodyOf(a, m)) = m
                        /\ \A i \in 1..m : BodyOf(a, m)[i] = <<a, i>>
        OBVIOUS
    <2>1. m \in Nat /\ \A i \in 1..m : <<a, i>> \in Parts
        BY <1>1 DEF Parts
    <2>2. BodyOf(a, m) \in Seq(Parts)
        BY <2>1, IsASeq DEF BodyOf
    <2> QED
        BY <2>1, <2>2 DEF BodyOf
<1>3. BodyOf(a, 0) = <<>>
    BY DEF BodyOf
<1>4. ASSUME n < MaxBody
      PROVE  /\ <<a, n + 1>> \in Parts
             /\ Append(BodyOf(a, n), <<a, n + 1>>) = BodyOf(a, n + 1)
    <2>1. <<a, n + 1>> \in Parts /\ n + 1 \in 0..MaxBody
        BY <1>1, <1>4 DEF Parts
    <2> DEFINE longer == Append(BodyOf(a, n), <<a, n + 1>>)
    <2>2. /\ longer \in Seq(Parts) /\ Len(longer) = n + 1
          /\ \A i \in 1..n : longer[i] = <<a, i>>
          /\ longer[n + 1] = <<a, n + 1>>
        BY <1>2, <2>1, AppendProperties
    <2>3. \A i \in 1..(n + 1) : longer[i] = BodyOf(a, n + 1)[i]
        <3> HIDE DEF longer
        <3> SUFFICES ASSUME NEW i \in 1..(n + 1)
                     PROVE  longer[i] = <<a, i>>
            BY <1>2, <2>1
        <3>1. i \in 1..n \/ i = n + 1
            OBVIOUS
        <3> QED
            BY <2>2, <3>1
    <2> QED
        BY <1>2, <2>1, <2>2, <2>3, SeqEqual
<1> QED
    BY <1>2, <1>3, <1>4

LEMMA EntryType ==
    ASSUME NEW kind \in {"page", "moved", "astray"}, NEW a \in 0..3, NEW n \in 0..MaxBody,
           NEW framing \in Framings, NEW body \in Seq(Parts)
    PROVE  [kind |-> kind, of |-> a, length |-> n, framing |-> framing, body |-> body] \in Entries
BY DEF Entries

LEMMA CallType ==
    /\ \A name \in {"response", "finish", "redirect", "error"} : Call(name) \in Events
    /\ \A part \in Parts \cup {None} : Data(part) \in Events
BY DEF Call, Data, Events

LEMMA PostType ==
    ASSUME TypeOK, NEW event \in Events, Post(event)
    PROVE  posted' \in Seq(Events) /\ handled \in 0..Len(posted')
<1>1. posted \in Seq(Events) /\ handled \in 0..Len(posted)
    BY DEF TypeOK
<1>2. Append(posted, event) \in Seq(Events) /\ Len(Append(posted, event)) = Len(posted) + 1
    BY <1>1, AppendProperties
<1>3. Len(posted) \in Nat
    BY <1>1, LenProperties
<1> QED
    BY <1>1, <1>2, <1>3 DEF Post

LEMMA FailType ==
    ASSUME TypeOK, Fail
    PROVE  posted' \in Seq(Events) /\ handled \in 0..Len(posted')
BY PostType, CallType DEF Fail

LEMMA ReplyType ==
    ASSUME NEW r \in Replies
    PROVE  /\ r.kind \in Kinds /\ r.framing \in Framings /\ r.length \in 0..MaxBody
           /\ Reads(r) \in 0..(MaxBody + 1) /\ r.length <= Reads(r)
BY ConstantsAssumption DEF Replies, Reads

LEMMA InitInv ==
    ASSUME Init
    PROVE  IInv
<1>1. /\ <<>> \in Seq(Events) /\ Len(<<>>) = 0
      /\ 0 \in 0..3 /\ 0 \in 0..MaxBody /\ MaxBody \in 0..MaxBody /\ MaxBody \in Nat
    BY ConstantsAssumption, EmptySeq
<1>2. ASSUME NEW kind \in {"page", "moved", "astray"}, NEW n \in 0..MaxBody
      PROVE  /\ OldEntry(kind, n) \in Entries
             /\ OldEntry(kind, n).body = BodyOf(OldEntry(kind, n).of, OldEntry(kind, n).length)
             /\ Len(OldEntry(kind, n).body) <= MaxBody
    <2>1. BodyOf(0, n) \in Seq(Parts) /\ Len(BodyOf(0, n)) = n
        BY <1>1, BodyProperties
    <2>2. "length" \in Framings
        BY DEF Framings
    <2>3. OldEntry(kind, n) \in Entries
        BY <1>1, <2>1, <2>2, EntryType DEF OldEntry
    <2> QED
        BY <1>1, <2>1, <2>3 DEF OldEntry
<1>3. stored # None => /\ stored \in Entries /\ IsWhole(stored) /\ Len(stored.body) <= MaxBody
    BY <1>1, <1>2 DEF Init, IsWhole
<1>4. TypeOK
    <2>1. posted \in Seq(Events) /\ client \in Seq(Events) /\ handled \in 0..Len(posted)
        BY <1>1 DEF Init
    <2>2. stored \in Entries \cup {None}
        BY <1>3
    <2>3. /\ pc \in Locations /\ cancelled \in BOOLEAN /\ keyed \in BOOLEAN
          /\ pooled \in BOOLEAN /\ whole \in BOOLEAN /\ keepable \in BOOLEAN
          /\ entry = None /\ reply = None /\ writer = None
          /\ attempts \in 0..3 /\ unread \in 0..(MaxBody + 1) /\ taken \in 0..MaxBody
        <3>1. 0 \in 0..(MaxBody + 1)
            BY <1>1
        <3> QED
            BY <3>1, <1>1 DEF Init, Locations
    <2> QED
        BY <2>1, <2>2, <2>3 DEF TypeOK
<1> QED
    BY <1>1, <1>3, <1>4 DEF Init, IInv, Sendings, One, Before, During, Reading, After, Bounded,
                            LengthsCatchTruncation

-----------------------------------------------------------------------------
(* The client's thread. *)

LEMMA ClientStep ==
    ASSUME IInv, Handle \/ StopLoading
    PROVE  IInv'
<1>1. UNCHANGED <<pc, posted, keyed, stored, writer, entry, pooled, attempts, reply, unread,
                  taken, whole, keepable>>
    BY DEF Handle, StopLoading, shared, clientVars, cacheVars, wireVars
<1>2. posted \in Seq(Events) /\ handled \in 0..Len(posted) /\ Len(posted) \in Nat
    BY LenProperties DEF IInv, TypeOK
<1>3. cancelled' \in BOOLEAN
    BY DEF Handle, StopLoading, shared, IInv, TypeOK
<1>4. client' \in Seq(Events) /\ handled' \in 0..Len(posted)
    <2>1. CASE Handle
        <3>1. posted[handled + 1] \in Events
            BY <2>1, <1>2, ElementOfSeq DEF Handle
        <3>2. client \in Seq(Events)
            BY DEF IInv, TypeOK
        <3>3. Append(client, posted[handled + 1]) \in Seq(Events)
            BY <3>1, <3>2, AppendProperties
        <3> QED
            BY <2>1, <1>2, <3>2, <3>3 DEF Handle
    <2>2. CASE StopLoading
        BY <2>2, <1>2 DEF StopLoading, clientVars, IInv, TypeOK
    <2> QED
        BY <2>1, <2>2
<1>5. TypeOK'
    BY <1>1, <1>3, <1>4 DEF IInv, TypeOK
<1>6. Sendings' /\ Before' /\ During' /\ After' /\ Bounded' /\ LengthsCatchTruncation'
    BY <1>1 DEF IInv, Sendings, One, Before, During, After, Bounded, LengthsCatchTruncation
<1> QED
    BY <1>5, <1>6 DEF IInv

-----------------------------------------------------------------------------
(* Before the head of a reply. *)

LEMMA MissInv ==
    ASSUME IInv, Miss
    PROVE  IInv'
<1>1. /\ UNCHANGED <<posted, cancelled, handled, client, keyed, stored, writer, entry, attempts,
                     reply, unread, taken, whole, keepable>>
      /\ pc = "start" /\ pc' = "send" /\ pooled' \in BOOLEAN
    BY DEF Miss, shared, clientVars, cacheVars, wireVars
<1>2. TypeOK'
    BY <1>1 DEF IInv, TypeOK, Locations
<1> QED
    BY <1>1, <1>2 DEF IInv, Sendings, One, Before, During, Reading, After, Bounded,
                      LengthsCatchTruncation

LEMMA ValidateInv ==
    ASSUME IInv, Validate
    PROVE  IInv'
<1>1. /\ UNCHANGED <<posted, cancelled, handled, client, keyed, stored, writer, attempts,
                     reply, unread, taken, whole, keepable>>
      /\ pc = "start" /\ pc' = "send" /\ pooled' \in BOOLEAN /\ entry' = stored
    BY DEF Validate, shared, clientVars, cacheVars, wireVars
<1>2. TypeOK'
    BY <1>1 DEF IInv, TypeOK, Locations
<1> QED
    BY <1>1, <1>2 DEF IInv, Sendings, One, Before, During, Reading, After, Bounded,
                      LengthsCatchTruncation

\* deliverEntry of the stored entry, or of the one a 304 confirmed.
LEMMA DeliverEntryInv ==
    ASSUME IInv, NEW e \in Entries, Len(e.body) <= MaxBody, e # None, DeliverEntry(e),
           pc \in {"start", "head"}, keepable' \in BOOLEAN,
           UNCHANGED <<cancelled, handled, client, keyed, stored, writer, pooled, attempts,
                       reply, unread, taken, whole>>
    PROVE  IInv'
<1>1. PICK name \in {"redirect", "response"} : Post(Call(name))
    BY DEF DeliverEntry
<1>2. posted' \in Seq(Events) /\ handled \in 0..Len(posted')
    BY <1>1, CallType, PostType DEF IInv
<1>3. /\ entry' = entry \/ entry' = e
      /\ pc' = "return" \/ (pc' = "replay" /\ entry' = e)
    BY DEF DeliverEntry
<1>4. TypeOK'
    BY <1>2, <1>3 DEF IInv, TypeOK, Locations
<1>5. unread = 0 /\ writer = None
    BY DEF IInv, Before
<1> QED
    BY <1>3, <1>4, <1>5 DEF IInv, Sendings, One, Before, During, Reading, After, Bounded,
                            LengthsCatchTruncation

LEMMA HitInv ==
    ASSUME IInv, Hit
    PROVE  IInv'
<1>1. /\ UNCHANGED <<cancelled, handled, client, keyed, stored, writer, pooled, attempts,
                     reply, unread, taken, whole, keepable>>
      /\ pc = "start" /\ stored # None /\ DeliverEntry(stored)
    BY DEF Hit, clientVars, cacheVars, wireVars
<1>2. stored \in Entries /\ Len(stored.body) <= MaxBody /\ keepable' \in BOOLEAN
    BY <1>1 DEF IInv, TypeOK, Bounded
<1> QED
    BY <1>1, <1>2, DeliverEntryInv

LEMMA UnmodifiedInv ==
    ASSUME IInv, Unmodified
    PROVE  IInv'
<1>1. /\ UNCHANGED <<cancelled, handled, client, keyed, stored, writer, pooled, attempts,
                     reply, unread, taken, whole>>
      /\ pc = "head" /\ entry # None /\ DeliverEntry(entry) /\ keepable' \in BOOLEAN
    BY DEF Unmodified, clientVars, cacheVars
<1>2. entry \in Entries /\ Len(entry.body) <= MaxBody
    BY <1>1 DEF IInv, TypeOK, Bounded
<1> QED
    BY <1>1, <1>2, DeliverEntryInv

LEMMA HitUndeliverableInv ==
    ASSUME IInv, HitUndeliverable
    PROVE  IInv'
<1>1. /\ UNCHANGED <<cancelled, handled, client, keyed, writer, entry, attempts,
                     reply, unread, taken, whole, keepable>>
      /\ pc = "start" /\ stored' = None /\ pooled' \in BOOLEAN
      /\ pc' = "send" \/ pc' = "return"
    BY DEF HitUndeliverable, clientVars, wireVars, IInv, TypeOK
<1>2. posted' \in Seq(Events) /\ handled \in 0..Len(posted')
    BY FailType DEF HitUndeliverable, IInv, TypeOK
<1>3. TypeOK'
    BY <1>1, <1>2 DEF IInv, TypeOK, Locations
<1> QED
    BY <1>1, <1>3 DEF IInv, Sendings, One, Before, During, Reading, After, Bounded,
                      LengthsCatchTruncation

\* The load fails before a head has been read.
LEMMA FailsInv ==
    ASSUME IInv, FailAtOnce \/ ConnectFails \/ BadHead
    PROVE  IInv'
<1>1. /\ UNCHANGED <<cancelled, handled, client, keyed, stored, writer, entry, pooled, attempts,
                     reply, unread, taken, whole, keepable>>
      /\ pc \in {"start", "send", "head"} /\ pc' = "return" /\ Fail
    BY DEF FailAtOnce, ConnectFails, BadHead, clientVars, cacheVars, wireVars
<1>2. TypeOK'
    BY <1>1, FailType DEF IInv, TypeOK, Locations
<1> QED
    BY <1>1, <1>2 DEF IInv, Sendings, One, Before, During, Reading, After, Bounded,
                      LengthsCatchTruncation

LEMMA ReplayInv ==
    ASSUME IInv, Replay
    PROVE  IInv'
<1>1. /\ UNCHANGED <<cancelled, handled, client, keyed, stored, writer, entry, pooled, attempts,
                     reply, unread, whole, keepable>>
      /\ pc = "replay" /\ entry # None
    BY DEF Replay, clientVars, cacheVars, IInv, Before
<1>2. entry \in Entries /\ Len(entry.body) <= MaxBody /\ entry.body \in Seq(Parts)
    BY <1>1 DEF IInv, TypeOK, Bounded, Entries
<1>3. CASE taken < Len(entry.body) /\ ~cancelled
    <2>1. taken' = taken + 1 /\ pc' = pc /\ Post(Data(entry.body[taken + 1]))
        BY <1>3 DEF Replay
    <2>2. taken \in Nat /\ Len(entry.body) \in Nat /\ MaxBody \in Nat
        BY <1>2, LenProperties, ConstantsAssumption DEF IInv, TypeOK
    <2>3. entry.body[taken + 1] \in Parts /\ taken + 1 \in 0..MaxBody
        BY <1>2, <1>3, <2>2, ElementOfSeq
    <2>4. posted' \in Seq(Events) /\ handled \in 0..Len(posted')
        BY <2>1, <2>3, CallType, PostType DEF IInv
    <2>5. TypeOK'
        BY <1>1, <2>1, <2>3, <2>4 DEF IInv, TypeOK
    <2> QED
        BY <1>1, <2>1, <2>5 DEF IInv, Sendings, One, Before, During, Reading, After, Bounded,
                                LengthsCatchTruncation
<1>4. CASE ~(taken < Len(entry.body) /\ ~cancelled)
    <2>1. taken' = taken /\ pc' = "return" /\ Post(Call("finish"))
        BY <1>4 DEF Replay
    <2>2. posted' \in Seq(Events) /\ handled \in 0..Len(posted')
        BY <2>1, CallType, PostType DEF IInv
    <2>3. TypeOK'
        BY <1>1, <2>1, <2>2 DEF IInv, TypeOK, Locations
    <2> QED
        BY <1>1, <2>1, <2>3 DEF IInv, Sendings, One, Before, During, Reading, After, Bounded,
                                LengthsCatchTruncation
<1> QED
    BY <1>3, <1>4

\* A request is sent again only after a pooled connection said nothing, or without the
\* validators that a 304 did not match.
LEMMA SendInv ==
    ASSUME IInv, Send \/ Unanswered \/ Mismatched
    PROVE  IInv'
<1>1. /\ UNCHANGED <<cancelled, handled, client, keyed, writer, reply, unread, taken, whole,
                     keepable>>
      /\ pc \in {"send", "head"} /\ pc' \in {"send", "head", "return"}
      /\ stored' \in {stored, None} /\ entry' \in {entry, None} /\ pooled' \in BOOLEAN
      /\ attempts' \in {attempts, attempts + 1}
    BY DEF Send, Unanswered, Mismatched, shared, clientVars, cacheVars, wireVars, PooledOnRetry,
           IInv, TypeOK
<1>2. posted' \in Seq(Events) /\ handled \in 0..Len(posted')
    BY FailType DEF Send, Unanswered, Mismatched, shared, IInv, TypeOK
<1>3. One(pooled) \in {0, 1} /\ One(entry # None) \in {0, 1} /\ attempts \in Nat
    BY DEF One, IInv, TypeOK
<1>4. Sendings' /\ attempts' \in 0..3
    <2>1. CASE Send
        <3>1. /\ pc = "send" /\ pc' = "head" /\ attempts' = attempts + 1
              /\ pooled' = pooled /\ entry' = entry
            BY <2>1 DEF Send
        <3>2. attempts + One(pooled) + One(entry # None) <= 2
            BY <3>1 DEF IInv, Sendings
        <3> QED
            BY <1>3, <3>1, <3>2 DEF Sendings
    <2>2. CASE Unanswered
        <3>1. /\ pc = "head" /\ attempts' = attempts /\ entry' = entry
              /\ pc' = "return" \/ (pc' = "send" /\ pooled /\ ~pooled')
            BY <2>2 DEF Unanswered, PooledOnRetry
        <3>2. attempts + One(pooled) + One(entry # None) <= 3
            BY <3>1 DEF IInv, Sendings
        <3>3. attempts' \in 0..3
            BY <3>1 DEF IInv, TypeOK
        <3> QED
            BY <1>3, <3>1, <3>2, <3>3 DEF Sendings, One
    <2>3. CASE Mismatched
        <3>1. /\ pc = "head" /\ pc' = "send" /\ attempts' = attempts
              /\ entry # None /\ entry' = None /\ ~pooled'
            BY <2>3 DEF Mismatched, PooledOnRetry
        <3>2. attempts + One(pooled) + One(entry # None) <= 3
            BY <3>1 DEF IInv, Sendings
        <3>3. attempts' \in 0..3
            BY <3>1 DEF IInv, TypeOK
        <3> QED
            BY <1>3, <3>1, <3>2, <3>3 DEF Sendings, One
    <2> QED
        BY <2>1, <2>2, <2>3
<1>5. TypeOK'
    BY <1>1, <1>2, <1>4 DEF IInv, TypeOK, Locations
<1> QED
    BY <1>1, <1>4, <1>5 DEF IInv, Before, During, Reading, After, Bounded, LengthsCatchTruncation

LEMMA ReadHeadInv ==
    ASSUME IInv, NEW r \in Replies, ReadHead(r)
    PROVE  IInv'
<1>1. /\ UNCHANGED <<posted, cancelled, handled, client, keyed, pooled, attempts, whole>>
      /\ pc = "head" /\ pc' \in {"redirect", "response"}
      /\ reply' = r /\ unread' = Reads(r) /\ taken' = 0 /\ entry' = None
      /\ keepable' \in BOOLEAN /\ (r.framing = "close" => keepable' = FALSE)
    BY DEF ReadHead, shared, clientVars
<1>2. /\ stored' \in {stored, None}
      /\ writer' = None \/ (writer' = <<>> /\ r.kind # "image")
    BY <1>1 DEF ReadHead, BeginCaching, IInv, Before
<1>3. attempts \in 0..3 /\ 0 \in 0..MaxBody
    BY ConstantsAssumption DEF IInv, TypeOK
<1>4. BodyOf(attempts, 0) = <<>> /\ <<>> \in Seq(Parts)
    BY <1>3, BodyProperties, EmptySeq
<1>5. Reads(r) \in 0..(MaxBody + 1) /\ r.length \in 0..MaxBody
    BY ReplyType
<1>6. TypeOK'
    BY <1>1, <1>2, <1>3, <1>4, <1>5 DEF IInv, TypeOK, Locations
<1>7. During'
    <2>1. taken' <= reply'.length /\ unread' = Reads(reply') - taken'
        BY <1>1, <1>5
    <2>2. writer' # None => writer' = BodyOf(attempts', taken') /\ reply'.kind # "image"
        BY <1>1, <1>2, <1>4
    <2> QED
        BY <1>1, <2>1, <2>2 DEF During
<1>8. Sendings' /\ Before' /\ After' /\ Bounded' /\ LengthsCatchTruncation'
    BY <1>1, <1>2 DEF IInv, Sendings, Before, After, Bounded, LengthsCatchTruncation
<1> QED
    BY <1>6, <1>7, <1>8 DEF IInv

-----------------------------------------------------------------------------
(* From the head of a reply to the end. *)

LEMMA ReadingFacts ==
    ASSUME IInv, pc \in Reading
    PROVE  /\ reply.kind \in Kinds /\ reply.framing \in Framings /\ reply.length \in 0..MaxBody
           /\ Reads(reply) \in 0..(MaxBody + 1) /\ reply.length <= Reads(reply)
           /\ attempts \in 0..3 /\ taken \in 0..MaxBody /\ MaxBody \in Nat
           /\ BodyOf(attempts, taken) \in Seq(Parts) /\ Len(BodyOf(attempts, taken)) = taken
           /\ BodyOf(attempts, 0) = <<>>
<1>1. attempts \in 0..3 /\ taken \in 0..MaxBody /\ MaxBody \in Nat
    BY ConstantsAssumption DEF IInv, TypeOK
<1>2. reply \in Replies
    BY DEF IInv, During
<1> QED
    BY <1>1, <1>2, ReplyType, BodyProperties

\* What a commit leaves, if the body it is given is the whole one where the framing
\* says how long that is.
LEMMA CommitInv ==
    ASSUME IInv, NEW kind \in {"page", "moved", "astray"}, NEW framing \in Framings,
           NEW length \in 0..MaxBody, NEW body \in Seq(Parts), Len(body) <= MaxBody,
           Announced(framing) => body = BodyOf(attempts, length),
           Commit(kind, framing, length, body)
    PROVE  /\ stored' \in Entries \cup {None}
           /\ (stored # None => Len(stored.body) <= MaxBody)'
           /\ LengthsCatchTruncation'
<1> DEFINE new == [kind |-> kind, of |-> attempts, length |-> length, framing |-> framing,
                   body |-> body]
<1>1. new \in Entries
    BY EntryType DEF IInv, TypeOK
<1>2. new.body = body /\ new.of = attempts /\ new.length = length /\ new.framing = framing
    OBVIOUS
<1>3. CASE stored' = new
    <2> HIDE DEF new
    <2> QED
        BY <1>1, <1>2, <1>3 DEF Bounded, LengthsCatchTruncation, IsWhole
<1>4. CASE UNCHANGED stored
    BY <1>4 DEF IInv, TypeOK, Bounded, LengthsCatchTruncation
<1> QED
    BY <1>3, <1>4 DEF Commit

LEMMA RedirectInv ==
    ASSUME IInv, Redirect
    PROVE  IInv'
<1>1. /\ UNCHANGED <<cancelled, handled, client, keyed, entry, pooled, attempts, reply, taken,
                     whole>>
      /\ pc = "redirect" /\ pc' = "return" /\ writer' = None
      /\ Post(Call("redirect"))
    BY DEF Redirect, clientVars
<1>2. /\ stored' \in Entries \cup {None}
      /\ (stored # None => Len(stored.body) <= MaxBody)'
      /\ LengthsCatchTruncation'
    <2>1. CASE writer = None
        BY <2>1 DEF Redirect, IInv, TypeOK, Bounded, LengthsCatchTruncation
    <2>2. CASE writer # None
        <3>1. /\ "none" \in Framings /\ 0 \in 0..MaxBody
              /\ <<>> \in Seq(Parts) /\ Len(<<>>) <= MaxBody
              /\ <<>> = BodyOf(attempts, 0)
            BY <1>1, ReadingFacts, EmptySeq DEF Framings, Reading
        <3> QED
            BY <2>2, <3>1, CommitInv DEF Redirect
    <2> QED
        BY <2>1, <2>2
<1>3. /\ keepable' \in BOOLEAN /\ unread' \in 0..(MaxBody + 1)
      /\ keepable' => unread' = 0 \/ reply.framing = "garbled"
    <2>1. MaxBody \in Nat /\ unread \in 0..(MaxBody + 1) /\ keepable \in BOOLEAN
        BY ConstantsAssumption DEF IInv, TypeOK
    <2>2. CASE Drained /\ UNCHANGED keepable
        <3>1. unread' \in 0..unread /\ (unread' = 0 \/ reply.framing = "garbled")
            BY <2>1, <2>2 DEF Drained
        <3> QED
            BY <2>1, <2>2, <3>1
    <2>3. CASE keepable' = FALSE /\ UNCHANGED unread
        BY <2>1, <2>3
    <2> QED
        BY <2>2, <2>3 DEF Redirect
<1>4. posted' \in Seq(Events) /\ handled \in 0..Len(posted')
    BY <1>1, CallType, PostType DEF IInv
<1>5. TypeOK'
    BY <1>1, <1>2, <1>3, <1>4 DEF IInv, TypeOK, Locations
<1>6. Sendings' /\ Before' /\ During' /\ After' /\ Bounded'
    BY <1>1, <1>2, <1>3 DEF IInv, Sendings, Before, During, Reading, After, Bounded
<1> QED
    BY <1>2, <1>5, <1>6 DEF IInv

LEMMA ReturnInv ==
    ASSUME IInv, Return
    PROVE  IInv'
<1>1. /\ UNCHANGED <<posted, cancelled, handled, client, keyed, stored, entry, pooled, attempts,
                     reply, unread, taken, whole>>
      /\ pc = "return" /\ pc' = "done" /\ writer' = None
      /\ keepable' = (keepable /\ ~cancelled)
    BY DEF Return, shared, clientVars
<1>2. TypeOK'
    BY <1>1 DEF IInv, TypeOK, Locations
<1> QED
    BY <1>1, <1>2 DEF IInv, Sendings, Before, During, Reading, After, Bounded,
                      LengthsCatchTruncation

\* The steps that only post, and may give the connection up.
LEMMA PostsInv ==
    ASSUME IInv, RedirectAstray \/ Response \/ ImageResponse \/ ImageData
    PROVE  IInv'
<1>1. /\ UNCHANGED <<cancelled, handled, client, keyed, stored, writer, entry, pooled, attempts,
                     reply, unread, taken, whole>>
      /\ pc \in {"redirect", "response", "image", "imageData"}
      /\ keepable' \in {keepable, FALSE}
    BY DEF RedirectAstray, Response, ImageResponse, ImageData, clientVars, cacheVars, wireVars
<1>2. posted' \in Seq(Events) /\ handled \in 0..Len(posted')
    <2>1. CASE UNCHANGED posted
        BY <2>1 DEF IInv, TypeOK
    <2>2. CASE ~UNCHANGED posted
        <3>1. Post(Call("response")) \/ Post(Call("error")) \/ Post(Data(None))
            BY <2>2 DEF RedirectAstray, Response, ImageResponse, ImageData, Fail
        <3> QED
            BY <3>1, CallType, PostType DEF IInv
    <2> QED
        BY <2>1, <2>2
<1>3. \/ pc' = "return" /\ keepable' = FALSE
      \/ pc = "response" /\ pc' = "body"
      \/ pc = "image" /\ pc' = "imageData"
      \/ pc = "imageData" /\ pc' = "store"
    BY DEF RedirectAstray, Response, ImageResponse, ImageData
<1>4. TypeOK'
    <2>1. pc' \in Locations
        BY <1>3 DEF Locations
    <2>2. keepable' \in BOOLEAN
        BY <1>1 DEF IInv, TypeOK
    <2> QED
        BY <1>1, <1>2, <2>1, <2>2 DEF IInv, TypeOK
<1>5. During'
    BY <1>1, <1>3 DEF IInv, During, Reading
<1>6. Sendings' /\ Before' /\ After' /\ Bounded' /\ LengthsCatchTruncation'
    BY <1>1, <1>3 DEF IInv, Sendings, Before, After, Bounded, LengthsCatchTruncation
<1> QED
    BY <1>4, <1>5, <1>6 DEF IInv

LEMMA ReadPartInv ==
    ASSUME IInv, ReadPart
    PROVE  IInv'
<1>1. /\ UNCHANGED <<pc, cancelled, handled, client, keyed, stored, entry, pooled, attempts,
                     reply, whole, keepable>>
      /\ pc = "body" /\ taken < reply.length
      /\ unread' = unread - 1 /\ taken' = taken + 1 /\ Emit(<<attempts, taken + 1>>)
    BY DEF ReadPart, clientVars
<1>2. /\ reply.length \in 0..MaxBody /\ Reads(reply) \in 0..(MaxBody + 1)
      /\ reply.length <= Reads(reply) /\ attempts \in 0..3 /\ taken \in 0..MaxBody
      /\ MaxBody \in Nat
    BY <1>1, ReadingFacts DEF Reading
<1>3. /\ <<attempts, taken + 1>> \in Parts
      /\ Append(BodyOf(attempts, taken), <<attempts, taken + 1>>) = BodyOf(attempts, taken + 1)
      /\ BodyOf(attempts, taken + 1) \in Seq(Parts)
    <2>1. taken < MaxBody /\ taken + 1 \in 0..MaxBody
        BY <1>1, <1>2
    <2> QED
        BY <1>2, <2>1, BodyProperties
<1>4. writer # None => writer = BodyOf(attempts, taken) /\ reply.kind # "image"
    BY <1>1 DEF IInv, During, Reading
<1>5. /\ writer' # None => writer' = BodyOf(attempts, taken + 1) /\ reply.kind # "image"
      /\ posted' \in Seq(Events) /\ handled \in 0..Len(posted')
    <2>1. CASE reply.kind = "image"
        BY <1>1, <1>4, <2>1 DEF Emit, IInv, TypeOK
    <2>2. CASE reply.kind # "image"
        <3>1. Post(Data(<<attempts, taken + 1>>))
            BY <1>1, <2>2 DEF Emit
        <3>2. posted' \in Seq(Events) /\ handled \in 0..Len(posted')
            BY <1>3, <3>1, CallType, PostType DEF IInv
        <3>3. \/ writer # None /\ writer' = Append(writer, <<attempts, taken + 1>>)
              \/ writer' = None
            BY <1>1, <2>2 DEF Emit, WriterOnRefusal
        <3> QED
            BY <1>3, <1>4, <2>2, <3>2, <3>3
    <2> QED
        BY <2>1, <2>2
<1>6. unread = Reads(reply) - taken
    BY <1>1 DEF IInv, During, Reading
<1>7. /\ unread' \in 0..(MaxBody + 1) /\ taken' \in 0..MaxBody
      /\ taken' <= reply.length /\ unread' = Reads(reply) - taken'
    BY <1>1, <1>2, <1>6
<1>8. writer' \in Seq(Parts) \cup {None}
    BY <1>3, <1>5
<1>9. TypeOK'
    BY <1>1, <1>5, <1>7, <1>8 DEF IInv, TypeOK
<1>10. During'
    BY <1>1, <1>5, <1>7 DEF IInv, During, Reading
<1>11. Sendings' /\ Before' /\ After' /\ Bounded' /\ LengthsCatchTruncation'
    BY <1>1 DEF IInv, Sendings, Before, After, Bounded, LengthsCatchTruncation
<1> QED
    BY <1>9, <1>10, <1>11 DEF IInv

\* Only an announced end, or that of the connection where it ends the body, makes the
\* body whole.
LEMMA EndBodyInv ==
    ASSUME IInv, ReadEnd \/ ReadGarbled \/ ReadFails \/ ReadStops \/ Undecodable
    PROVE  IInv'
<1>1. /\ UNCHANGED <<posted, cancelled, handled, client, keyed, stored, writer, entry, pooled,
                     attempts, reply, taken, keepable>>
      /\ pc = "body" /\ pc' \in {"image", "store"} /\ whole' \in BOOLEAN
    BY DEF ReadEnd, ReadGarbled, ReadFails, ReadStops, Undecodable, EndBody, EndsBody, shared, clientVars,
           cacheVars
<1>2. /\ unread' \in {unread, 0} \cup 0..unread
      /\ whole' /\ Announced(reply.framing) => taken = reply.length /\ unread' = 0
    BY DEF ReadEnd, ReadGarbled, ReadFails, ReadStops, Undecodable, EndBody, EndsBody,
           Announced
<1>3. unread' \in 0..(MaxBody + 1)
    BY <1>2, ConstantsAssumption DEF IInv, TypeOK
<1>4. TypeOK'
    BY <1>1, <1>3 DEF IInv, TypeOK, Locations
<1>5. During'
    BY <1>1, <1>2 DEF IInv, During, Reading
<1>6. Sendings' /\ Before' /\ After' /\ Bounded' /\ LengthsCatchTruncation'
    BY <1>1 DEF IInv, Sendings, Before, After, Bounded, LengthsCatchTruncation
<1> QED
    BY <1>4, <1>5, <1>6 DEF IInv

LEMMA StoreInv ==
    ASSUME IInv, Store
    PROVE  IInv'
<1>1. /\ UNCHANGED <<posted, cancelled, handled, client, keyed, entry, pooled, attempts,
                     reply, unread, taken, whole, keepable>>
      /\ pc = "store" /\ pc' = "end" /\ writer' = None
    BY DEF Store, shared, clientVars, wireVars
<1>2. /\ stored' \in Entries \cup {None}
      /\ (stored # None => Len(stored.body) <= MaxBody)'
      /\ LengthsCatchTruncation'
    <2>1. CASE writer # None /\ whole /\ ~cancelled
        <3>1. /\ writer = BodyOf(attempts, taken)
              /\ Announced(reply.framing) => taken = reply.length
            BY <1>1, <2>1 DEF IInv, During, Reading
        <3>2. /\ reply.framing \in Framings /\ reply.length \in 0..MaxBody
              /\ writer \in Seq(Parts) /\ Len(writer) <= MaxBody
              /\ Announced(reply.framing) => writer = BodyOf(attempts, reply.length)
            BY <1>1, <3>1, ReadingFacts DEF Reading
        <3>3. Commit("page", reply.framing, reply.length, writer)
            BY <2>1 DEF Store
        <3> QED
            BY <3>2, <3>3, CommitInv
    <2>2. CASE ~(writer # None /\ whole /\ ~cancelled)
        BY <2>2 DEF Store, IInv, TypeOK, Bounded, LengthsCatchTruncation
    <2> QED
        BY <2>1, <2>2
<1>3. TypeOK'
    BY <1>1, <1>2 DEF IInv, TypeOK, Locations
<1>4. During'
    BY <1>1 DEF IInv, During, Reading
<1>5. Sendings' /\ Before' /\ After' /\ Bounded'
    BY <1>1, <1>2 DEF IInv, Sendings, Before, After, Bounded
<1> QED
    BY <1>2, <1>3, <1>4, <1>5 DEF IInv

LEMMA EndInv ==
    ASSUME IInv, End
    PROVE  IInv'
<1>1. /\ UNCHANGED <<cancelled, handled, client, keyed, stored, writer, entry, pooled, attempts,
                     reply, unread, taken, whole>>
      /\ pc = "end" /\ pc' = "return"
      /\ keepable' = FALSE \/ (whole /\ keepable' = keepable)
    BY DEF End, clientVars, cacheVars
<1>2. posted' \in Seq(Events) /\ handled \in 0..Len(posted')
    BY CallType, PostType DEF End, EndReported, Fail, IInv
<1>3. keepable' => unread' = 0 \/ reply.framing = "garbled"
    BY <1>1, ReadingFacts DEF IInv, During, Reading, Announced, Framings
<1>4. TypeOK'
    BY <1>1, <1>2 DEF IInv, TypeOK, Locations
<1> QED
    BY <1>1, <1>3, <1>4 DEF IInv, Sendings, Before, During, Reading, After, Bounded,
                            LengthsCatchTruncation

-----------------------------------------------------------------------------
(* The cache and the connection. *)

LEMMA NextInv ==
    ASSUME IInv, [Next]_vars
    PROVE  IInv'
<1>1. CASE Miss
    BY <1>1, MissInv
<1>2. CASE Validate
    BY <1>2, ValidateInv
<1>3. CASE Hit
    BY <1>3, HitInv
<1>4. CASE HitUndeliverable
    BY <1>4, HitUndeliverableInv
<1>5. CASE FailAtOnce \/ ConnectFails \/ BadHead
    BY <1>5, FailsInv
<1>6. CASE Replay
    BY <1>6, ReplayInv
<1>7. CASE Send \/ Unanswered \/ Mismatched
    BY <1>7, SendInv
<1>8. CASE Unmodified
    BY <1>8, UnmodifiedInv
<1>9. CASE \E r \in Replies : ReadHead(r)
    BY <1>9, ReadHeadInv
<1>10. CASE Redirect
    BY <1>10, RedirectInv
<1>11. CASE RedirectAstray \/ Response \/ ImageResponse \/ ImageData
    BY <1>11, PostsInv
<1>12. CASE ReadPart
    BY <1>12, ReadPartInv
<1>13. CASE ReadEnd \/ ReadGarbled \/ ReadFails \/ ReadStops \/ Undecodable
    BY <1>13, EndBodyInv
<1>14. CASE Store
    BY <1>14, StoreInv
<1>15. CASE End
    BY <1>15, EndInv
<1>16. CASE Return
    BY <1>16, ReturnInv
<1>17. CASE Handle \/ StopLoading
    BY <1>17, ClientStep
<1>18. CASE UNCHANGED vars
    BY <1>18 DEF vars, IInv, TypeOK, Sendings, One, Before, During, After, Bounded,
                 LengthsCatchTruncation
<1> QED
    BY <1>1, <1>2, <1>3, <1>4, <1>5, <1>6, <1>7, <1>8, <1>9, <1>10, <1>11, <1>12, <1>13,
       <1>14, <1>15, <1>16, <1>17, <1>18 DEF Next, Worker

LEMMA Invariance == Spec => []IInv
BY InitInv, NextInv, PTL DEF Spec

\* Every variable keeps its type, and the calls handled are among those posted.
THEOREM TypeCorrect == Spec => []TypeOK
<1>1. IInv => TypeOK
    BY DEF IInv
<1> QED
    BY <1>1, Invariance, PTL

\* performRequest hands a connection back to the pool only when nothing of the response is
\* left on it, for bodies of any length and any drain limit.
THEOREM KeptConnectionsAreEmpty == Spec => []ReturnedAtEnd
<1>1. IInv => ReturnedAtEnd
    BY DEF IInv, After, ReturnedAtEnd
<1> QED
    BY <1>1, Invariance, PTL

\* Wherever the framing tells the end of a body, what exchangeOn commits under the key is
\* all of it, in order.
THEOREM TruncationIsNeverStored == Spec => []LengthsCatchTruncation
<1>1. IInv => LengthsCatchTruncation
    BY DEF IInv
<1> QED
    BY <1>1, Invariance, PTL

\* performRequest sends a request at most three times: once more when a pooled connection
\* gives no answer, once more when a 304 does not match, and never again after both.
THEOREM SentAtMostThrice ==
    Spec => [](/\ attempts <= 3
               /\ pc = "head" /\ attempts = 3 => ~pooled /\ entry = None)
<1>1. IInv => /\ attempts <= 3
              /\ pc = "head" /\ attempts = 3 => ~pooled /\ entry = None
    BY DEF IInv, TypeOK, Sendings, One
<1> QED
    BY <1>1, Invariance, PTL

-----------------------------------------------------------------------------
(* What is posted, and what of it the client hears.                        *)

\* The client has been told what was posted first: all that has been handled,
\* unless it stopped the load.
Heard ==
    /\ Len(client) <= handled
    /\ ~cancelled => Len(client) = handled
    /\ \A i \in 1..Len(client) : client[i] = posted[i]

\* What is posted is in an order that a client may be told it.
Ordered ==
    \A i \in 1..Len(posted) :
        /\ posted[i].call \in {"response", "redirect"} => i = 1
        /\ posted[i].call \in {"data", "finish"} => i > 1 /\ posted[1].call = "response"
        /\ posted[i].call \in {"finish", "error", "redirect"} => i = Len(posted)

\* A response, no end yet.
Opened ==
    /\ posted # <<>>
    /\ posted[1] = Call("response")
    /\ \A i \in 2..Len(posted) : posted[i].call = "data"

\* A response and what has been taken of the body.
PassedOn ==
    /\ Len(posted) = taken + 1
    /\ \A n \in 1..taken : posted[n + 1] = Data(<<attempts, n>>)
Replayed ==
    /\ Len(posted) = taken + 1
    /\ taken <= Len(entry.body)
    /\ \A n \in 1..taken : posted[n + 1] = Data(entry.body[n])

\* Where the worker is, and what it has posted; nothing more once it is cancelled.
Quiet ==
    ~cancelled =>
        /\ pc \in {"start", "send", "head", "redirect", "response", "image"} => posted = <<>>
        /\ pc = "body" /\ reply.kind = "image" => posted = <<>>
Underway ==
    ~cancelled =>
        /\ pc \in {"replay", "imageData", "store", "end"} => Opened
        /\ pc = "body" /\ reply.kind # "image" => Opened
        /\ pc \in {"body", "store"} /\ reply.kind # "image" => PassedOn
        /\ pc = "replay" => Replayed

Finished == \E i \in DOMAIN posted : posted[i].call = "finish"

\* Only a load that is over has posted a finish, or committed a page.
OverWhenFinished ==
    /\ Finished => pc \in {"return", "done"}
    /\ stored # None /\ stored.of > 0 /\ stored.kind = "page" => pc \in {"end", "return", "done"}
    /\ pc \in Reading => entry = None
    /\ pc \in {"image", "imageData"} => reply.kind = "image"

\* What was replayed to its finish is the entry.
ReplayIsTheEntry == entry # None /\ Finished => Carries(posted, entry.body)

PInv ==
    /\ Heard /\ Ordered /\ Quiet /\ Underway /\ OverWhenFinished
    /\ StoredIsDelivered /\ ReplayIsTheEntry

LEMMA PostedType ==
    ASSUME IInv
    PROVE  /\ posted \in Seq(Events) /\ Len(posted) \in Nat /\ DOMAIN posted = 1..Len(posted)
           /\ posted = <<>> <=> Len(posted) = 0
           /\ client \in Seq(Events) /\ Len(client) \in Nat /\ DOMAIN client = 1..Len(client)
           /\ client = <<>> <=> Len(client) = 0
           /\ handled \in 0..Len(posted)
<1>1. posted \in Seq(Events) /\ client \in Seq(Events) /\ handled \in 0..Len(posted)
    BY DEF IInv, TypeOK
<1> QED
    BY <1>1, LenProperties, EmptySeq

\* What onClientThread: appends.
LEMMA Posting ==
    ASSUME IInv, NEW event \in Events, Post(event)
    PROVE  /\ cancelled => posted' = posted
           /\ ~cancelled => /\ Len(posted') = Len(posted) + 1
                            /\ posted'[Len(posted) + 1] = event
                            /\ \A i \in 1..Len(posted) : posted'[i] = posted[i]
           /\ DOMAIN posted' = 1..Len(posted')
<1>1. posted \in Seq(Events) /\ Len(posted) \in Nat /\ DOMAIN posted = 1..Len(posted)
    BY PostedType
<1>2. Append(posted, event) \in Seq(Events)
    BY <1>1, AppendProperties
<1>3. DOMAIN Append(posted, event) = 1..Len(Append(posted, event))
    BY <1>2, LenProperties
<1>4. /\ Len(Append(posted, event)) = Len(posted) + 1
      /\ Append(posted, event)[Len(posted) + 1] = event
      /\ \A i \in 1..Len(posted) : Append(posted, event)[i] = posted[i]
    BY <1>1, AppendProperties
<1>5. posted' = IF cancelled THEN posted ELSE Append(posted, event)
    BY DEF Post
<1>6. CASE cancelled
    BY <1>1, <1>5, <1>6
<1>7. CASE ~cancelled
    <2>1. posted' = Append(posted, event)
        BY <1>5, <1>7
    <2> QED
        BY <1>3, <1>4, <1>7, <2>1
<1> QED
    BY <1>6, <1>7

LEMMA CallNames ==
    /\ \A name \in {"response", "finish", "redirect", "error"} :
          Call(name) \in Events /\ Call(name).call = name
    /\ \A part \in Parts \cup {None} : Data(part) \in Events /\ Data(part).call = "data"
BY DEF Call, Data, Events

LEMMA SilentStep ==
    ASSUME PInv, UNCHANGED <<posted, cancelled, client, handled>>
    PROVE  Heard' /\ Ordered' /\ (Finished' <=> Finished)
BY DEF PInv, Heard, Ordered, Finished

\* A call in its place: first, or after a response and what followed it.
LEMMA PostStep ==
    ASSUME IInv, PInv, NEW event \in Events, Post(event),
           UNCHANGED <<cancelled, client, handled>>,
           \/ cancelled
           \/ posted = <<>> /\ event.call \in {"response", "redirect", "error"}
           \/ Opened /\ event.call \in {"data", "finish", "error"}
    PROVE  /\ Heard' /\ Ordered'
           /\ Finished' => Finished \/ event.call = "finish"
           /\ ~cancelled /\ posted = <<>> /\ event = Call("response")
              => Opened' /\ Len(posted') = 1
           /\ ~cancelled /\ Opened /\ event.call = "data" => Opened'
<1> USE PostedType
<1>1. CASE cancelled
    <2>1. posted' = posted
        BY <1>1, Posting
    <2> QED
        BY <1>1, <2>1, SilentStep
<1>2. CASE ~cancelled
    <2> DEFINE n == Len(posted)
    <2>1. /\ Len(posted') = n + 1 /\ posted'[n + 1] = event
          /\ \A i \in 1..n : posted'[i] = posted[i]
          /\ DOMAIN posted' = 1..(n + 1) /\ n \in Nat
        BY <1>2, Posting
    <2>2. Heard'
        <3> DEFINE c == Len(client)
        <3>0. c \in Nat /\ handled \in Int /\ handled <= n /\ c <= handled
            BY <2>1 DEF PInv, Heard
        <3>1. /\ \A i \in 1..Len(client) : client[i] = posted[i]
              /\ ~cancelled => Len(client) = handled
              /\ Len(client) <= handled
            BY DEF PInv, Heard
        <3>2. c <= n
            <4> HIDE DEF c, n
            <4> QED
                BY <2>1, <3>0
        <3>3. \A i \in 1..Len(client) : posted'[i] = posted[i]
            BY <2>1, <3>2
        <3> QED
            BY <3>1, <3>3 DEF Heard
    <2>3. Finished' => Finished \/ event.call = "finish"
        BY <2>1 DEF Finished
    <2>4. CASE posted = <<>> /\ event.call \in {"response", "redirect", "error"}
        <3>1. n = 0 /\ Len(posted') = 1 /\ posted'[1] = event
            BY <2>1, <2>4
        <3>2. Ordered'
            BY <2>4, <3>1 DEF Ordered
        <3>3. event = Call("response") => Opened'
            <4>1. posted' # <<>>
                BY <3>1, EmptySeq
            <4>2. 2..Len(posted') = {}
                BY <3>1
            <4> QED
                BY <3>1, <4>1, <4>2 DEF Opened
        <3>4. ~Opened
            BY <2>4 DEF Opened
        <3> QED
            BY <2>2, <2>3, <3>1, <3>2, <3>3, <3>4
    <2>5. CASE Opened /\ event.call \in {"data", "finish", "error"}
        <3>1. /\ posted # <<>> /\ n >= 1 /\ posted[1] = Call("response")
              /\ \A i \in 2..n : posted[i].call = "data"
            BY <2>1, <2>5 DEF Opened
        <3>2. /\ posted'[1] = Call("response") /\ posted'[1].call = "response"
              /\ \A i \in 2..n : posted'[i].call = "data"
            BY <2>1, <3>1, CallNames
        <3>3. Ordered'
            <4> SUFFICES ASSUME NEW i \in 1..(n + 1)
                         PROVE  /\ posted'[i].call \in {"response", "redirect"} => i = 1
                                /\ posted'[i].call \in {"data", "finish"}
                                   => i > 1 /\ posted'[1].call = "response"
                                /\ posted'[i].call \in {"finish", "error", "redirect"} => i = n + 1
                BY <2>1 DEF Ordered
            <4>1. i = 1 \/ i \in 2..n \/ (i = n + 1 /\ i > 1)
                BY <2>1, <3>1
            <4> QED
                BY <2>1, <2>5, <3>2, <4>1
        <3>4. event.call = "data" => Opened'
            <4>1. posted' # <<>>
                BY <2>1, EmptySeq
            <4>2. event.call = "data" => \A i \in 2..(n + 1) : posted'[i].call = "data"
                BY <2>1, <3>2
            <4> QED
                BY <2>1, <3>2, <4>1, <4>2 DEF Opened
        <3> QED
            BY <2>2, <2>3, <3>1, <3>3, <3>4
    <2> QED
        BY <1>2, <2>4, <2>5
<1> QED
    BY <1>1, <1>2

\* A body that was posted stays posted when its end is.
LEMMA CarriesStep ==
    ASSUME IInv, NEW body \in Seq(Parts), Carries(posted, body), NEW event \in Events,
           Post(event), event.call # "data"
    PROVE  Carries(posted, body)'
<1> DEFINE n == Len(posted)
           b == Len(body)
<1>1. CASE cancelled
    BY <1>1, Posting DEF Carries, DataAt
<1>2. CASE ~cancelled
    <2>1. /\ Len(posted') = n + 1 /\ posted'[n + 1] = event
          /\ \A i \in 1..n : posted'[i] = posted[i]
          /\ DOMAIN posted' = 1..(n + 1) /\ DOMAIN posted = 1..n /\ n \in Nat
          /\ n # 0
        BY <1>2, Posting, PostedType DEF Carries
    <2>2. posted[1] = Call("response") /\ DataAt(posted) = 2..(b + 1)
        BY DEF Carries
    <2>3. DataAt(posted') = DataAt(posted)
        BY <2>1 DEF DataAt
    <2>4. b \in Nat /\ DOMAIN body = 1..b
        BY LenProperties
    <2>5. \A i \in 1..b : i + 1 \in DataAt(posted)
        BY <2>2, <2>4
    <2>6. \A i \in 1..b : i + 1 \in 1..n
        BY <2>1, <2>5 DEF DataAt
    <2>7. \A i \in 1..b : posted'[i + 1] = Data(body[i])
        BY <2>1, <2>4, <2>6 DEF Carries
    <2>8. posted' # <<>>
        BY <2>1, EmptySeq
    <2> QED
        BY <2>1, <2>2, <2>3, <2>4, <2>7, <2>8 DEF Carries
<1> QED
    BY <1>1, <1>2

\* What was passed on is what a body has in its first parts.
LEMMA PassedOnCarries ==
    ASSUME IInv, Opened, NEW body \in Seq(Parts), Len(posted) = Len(body) + 1,
           \A n \in 1..Len(body) : posted[n + 1] = Data(body[n])
    PROVE  Carries(posted, body)
<1> DEFINE b == Len(body)
<1>1. b \in Nat /\ DOMAIN body = 1..b /\ DOMAIN posted = 1..(b + 1)
    BY LenProperties, PostedType
<1>2. posted # <<>> /\ posted[1] = Call("response") /\ \A i \in 2..(b + 1) : posted[i].call = "data"
    BY DEF Opened
<1>3. posted[1].call # "data"
    BY <1>2, CallNames
<1>4. DataAt(posted) = 2..(b + 1)
    BY <1>1, <1>2, <1>3 DEF DataAt
<1> QED
    BY <1>1, <1>2, <1>4 DEF Carries

LEMMA InitP ==
    ASSUME Init
    PROVE  PInv
<1>1. /\ posted = <<>> /\ client = <<>> /\ handled = 0 /\ ~cancelled /\ pc = "start"
      /\ entry = None
      /\ stored \in {None, OldEntry("page", MaxBody), OldEntry("moved", 0), OldEntry("astray", 0)}
    BY DEF Init
<1>2. Len(posted) = 0 /\ Len(client) = 0 /\ DOMAIN posted = {}
    BY <1>1, EmptySeq
<1>3. stored # None => stored.of = 0
    BY <1>1 DEF OldEntry
<1>4. Heard /\ Ordered /\ ~Finished
    BY <1>1, <1>2 DEF Heard, Ordered, Finished
<1>5. Quiet /\ Underway
    BY <1>1 DEF Quiet, Underway
<1>6. OverWhenFinished /\ StoredIsDelivered /\ ReplayIsTheEntry
    BY <1>1, <1>3, <1>4 DEF OverWhenFinished, StoredIsDelivered, ReplayIsTheEntry, Reading
<1> QED
    BY <1>4, <1>5, <1>6 DEF PInv

\* Before a head that has no error nothing is posted.
LEMMA BeforeP ==
    ASSUME IInv, PInv,
           Miss \/ Validate \/ Send \/ Mismatched \/ (\E r \in Replies : ReadHead(r))
    PROVE  PInv'
<1>1. /\ UNCHANGED <<posted, cancelled, client, handled>>
      /\ pc \in {"start", "send", "head"}
      /\ pc' \in {"send", "head"} \/ (pc' \in {"redirect", "response"} /\ entry' = None)
    BY DEF Miss, Validate, Send, Mismatched, ReadHead, shared, clientVars
<1>2. stored' \in {stored, None}
    BY DEF Miss, Validate, Send, Mismatched, ReadHead, BeginCaching, cacheVars
<1>3. Heard' /\ Ordered' /\ (Finished' <=> Finished)
    BY <1>1, SilentStep
<1>4. ~Finished /\ (stored # None /\ stored.of > 0 => stored.kind # "page")
    BY <1>1 DEF PInv, OverWhenFinished
<1>5. stored' # None /\ (stored.of > 0)' => stored'.kind # "page"
    BY <1>2, <1>4
<1>6. Quiet' /\ Underway'
    BY <1>1 DEF PInv, Quiet, Underway
<1>7. OverWhenFinished' /\ StoredIsDelivered' /\ ReplayIsTheEntry'
    BY <1>1, <1>3, <1>4, <1>5 DEF OverWhenFinished, StoredIsDelivered, ReplayIsTheEntry, Reading
<1> QED
    BY <1>3, <1>6, <1>7 DEF PInv

\* An error or a redirect in place of a response is all there is.
LEMMA EndsAtOnce ==
    ASSUME IInv, PInv, pc \in {"start", "send", "head", "redirect", "response"},
           pc' = "return", NEW name \in {"error", "redirect"}, Post(Call(name)),
           UNCHANGED <<cancelled, client, handled>>,
           stored' = stored \/ stored' = None \/ stored'.kind # "page"
    PROVE  PInv'
<1>1. cancelled \/ posted = <<>>
    BY DEF PInv, Quiet
<1>2. Heard' /\ Ordered' /\ (Finished' => Finished)
    BY <1>1, CallNames, PostStep
<1>3. ~Finished /\ (stored # None /\ stored.of > 0 => stored.kind # "page")
    BY DEF PInv, OverWhenFinished
<1>4. stored' # None /\ (stored.of > 0)' => stored'.kind # "page"
    BY <1>3
<1>5. Quiet' /\ Underway'
    BY DEF Quiet, Underway
<1>6. OverWhenFinished' /\ StoredIsDelivered' /\ ReplayIsTheEntry'
    BY <1>2, <1>3, <1>4 DEF OverWhenFinished, StoredIsDelivered, ReplayIsTheEntry, Reading
<1> QED
    BY <1>2, <1>5, <1>6 DEF PInv

LEMMA FailsP ==
    ASSUME IInv, PInv, FailAtOnce \/ ConnectFails \/ BadHead \/ RedirectAstray
    PROVE  PInv'
<1>1. /\ UNCHANGED <<cancelled, client, handled, stored>>
      /\ pc \in {"start", "send", "head", "redirect"} /\ pc' = "return"
      /\ Post(Call("error"))
    BY DEF FailAtOnce, ConnectFails, BadHead, RedirectAstray, Fail, clientVars, cacheVars
<1> QED
    BY <1>1, EndsAtOnce

LEMMA UnansweredP ==
    ASSUME IInv, PInv, Unanswered \/ HitUndeliverable
    PROVE  PInv'
<1>1. /\ UNCHANGED <<cancelled, client, handled, entry>>
      /\ pc \in {"start", "head"} /\ stored' \in {stored, None}
    BY DEF Unanswered, HitUndeliverable, clientVars, cacheVars
<1>2. CASE pc' = "return"
    <2>1. Post(Call("error"))
        BY <1>2 DEF Unanswered, HitUndeliverable, Fail
    <2>2. stored' = stored \/ stored' = None \/ stored'.kind # "page"
        BY <1>1
    <2> QED
        BY <1>1, <1>2, <2>1, <2>2, EndsAtOnce
<1>3. CASE pc' # "return"
    <2>1. posted' = posted /\ pc' = "send"
        BY <1>3 DEF Unanswered, HitUndeliverable
    <2>2. Heard' /\ Ordered' /\ (Finished' <=> Finished)
        BY <1>1, <2>1, SilentStep
    <2>3. ~Finished /\ (stored # None /\ stored.of > 0 => stored.kind # "page")
        BY <1>1 DEF PInv, OverWhenFinished
    <2>4. stored' # None /\ (stored.of > 0)' => stored'.kind # "page"
        BY <1>1, <2>3
    <2>5. Quiet' /\ Underway'
        BY <1>1, <2>1 DEF PInv, Quiet, Underway
    <2>6. OverWhenFinished' /\ StoredIsDelivered' /\ ReplayIsTheEntry'
        BY <2>1, <2>2, <2>3, <2>4 DEF OverWhenFinished, StoredIsDelivered, ReplayIsTheEntry, Reading
    <2> QED
        BY <2>2, <2>5, <2>6 DEF PInv
<1> QED
    BY <1>2, <1>3

\* deliverEntry: a redirect, or a response with the entry still to be replayed.
LEMMA DeliverEntryP ==
    ASSUME IInv, PInv, NEW e \in Entries, e # None, DeliverEntry(e), pc \in {"start", "head"},
           UNCHANGED <<cancelled, client, handled, stored, taken>>
    PROVE  PInv'
<1>1. CASE pc' = "return" /\ Post(Call("redirect"))
    BY <1>1, EndsAtOnce
<1>2. CASE pc' = "replay" /\ Post(Call("response")) /\ entry' = e
    <2>1. cancelled \/ posted = <<>>
        BY DEF PInv, Quiet
    <2>2. Heard' /\ Ordered' /\ (Finished' => Finished)
        BY <1>2, <2>1, CallNames, PostStep
    <2>3. ~cancelled => Opened' /\ Len(posted') = 1
        BY <1>2, <2>1, CallNames, PostStep
    <2>4. ~Finished /\ (stored # None /\ stored.of > 0 => stored.kind # "page")
        BY DEF PInv, OverWhenFinished
    <2>5. taken = 0
        BY DEF IInv, Before
    <2>6. Len(e.body) \in Nat
        BY LenProperties DEF Entries
    <2>7. ~cancelled => Replayed'
        BY <1>2, <2>3, <2>5, <2>6 DEF Replayed
    <2>8. Quiet' /\ Underway'
        BY <1>2, <2>3, <2>7 DEF Quiet, Underway
    <2>9. OverWhenFinished' /\ StoredIsDelivered' /\ ReplayIsTheEntry'
        BY <1>2, <2>2, <2>4 DEF OverWhenFinished, StoredIsDelivered, ReplayIsTheEntry, Reading
    <2> QED
        BY <2>2, <2>8, <2>9 DEF PInv
<1> QED
    BY <1>1, <1>2 DEF DeliverEntry

LEMMA HitP ==
    ASSUME IInv, PInv, Hit \/ Unmodified
    PROVE  PInv'
<1>1. UNCHANGED <<cancelled, client, handled, stored, taken>>
    BY DEF Hit, Unmodified, clientVars, cacheVars, wireVars
<1>2. CASE Hit
    <2>1. pc = "start" /\ stored \in Entries /\ stored # None /\ DeliverEntry(stored)
        BY <1>2 DEF Hit, IInv, TypeOK
    <2> QED
        BY <1>1, <2>1, DeliverEntryP
<1>3. CASE Unmodified
    <2>1. pc = "head" /\ entry \in Entries /\ entry # None /\ DeliverEntry(entry)
        BY <1>3 DEF Unmodified, IInv, TypeOK
    <2> QED
        BY <1>1, <2>1, DeliverEntryP
<1> QED
    BY <1>2, <1>3

LEMMA ReplayP ==
    ASSUME IInv, PInv, Replay
    PROVE  PInv'
<1>1. /\ UNCHANGED <<cancelled, client, handled, stored, entry>>
      /\ pc = "replay" /\ entry # None
    BY DEF Replay, clientVars, cacheVars, IInv, Before
<1>2. ~cancelled => Opened /\ Replayed
    BY <1>1 DEF PInv, Underway
<1>3. /\ entry.body \in Seq(Parts) /\ Len(entry.body) \in Nat /\ taken \in Nat
      /\ DOMAIN entry.body = 1..Len(entry.body)
    BY <1>1, LenProperties DEF IInv, TypeOK, Entries
<1>4. ~Finished /\ (stored # None /\ stored.of > 0 => stored.kind # "page")
    BY <1>1 DEF PInv, OverWhenFinished
<1>5. CASE taken < Len(entry.body) /\ ~cancelled
    <2> DEFINE event == Data(entry.body[taken + 1])
    <2>1. taken' = taken + 1 /\ pc' = pc /\ Post(event)
        BY <1>5 DEF Replay
    <2>2. entry.body[taken + 1] \in Parts
        BY <1>3, <1>5, ElementOfSeq
    <2>3. event \in Events /\ event.call = "data"
        BY <2>2, CallNames
    <2>4. Heard' /\ Ordered' /\ (Finished' => Finished) /\ Opened'
        <3> HIDE DEF event
        <3> QED
            BY <1>1, <1>2, <1>5, <2>1, <2>3, PostStep
    <2>5. /\ Len(posted') = Len(posted) + 1 /\ posted'[Len(posted) + 1] = event
          /\ \A i \in 1..Len(posted) : posted'[i] = posted[i]
        <3> HIDE DEF event
        <3> QED
            BY <1>5, <2>1, <2>3, Posting
    <2>6. Replayed'
        <3>1. /\ Len(posted) = taken + 1
              /\ \A n \in 1..taken : posted[n + 1] = Data(entry.body[n])
            BY <1>2, <1>5 DEF Replayed
        <3>2. Len(posted') = taken' + 1 /\ taken' <= Len(entry'.body)
            BY <1>1, <1>3, <1>5, <2>1, <2>5, <3>1
        <3>3. \A n \in 1..(taken + 1) : posted'[n + 1] = Data(entry.body[n])
            <4> SUFFICES ASSUME NEW n \in 1..(taken + 1)
                         PROVE  posted'[n + 1] = Data(entry.body[n])
                OBVIOUS
            <4>1. CASE n \in 1..taken
                BY <1>3, <2>5, <3>1, <4>1
            <4>2. CASE n = taken + 1
                BY <2>5, <3>1, <4>2
            <4> QED
                BY <1>3, <4>1, <4>2
        <3> QED
            BY <1>1, <2>1, <3>2, <3>3 DEF Replayed
    <2>7. Quiet' /\ Underway'
        BY <1>1, <2>1, <2>4, <2>6 DEF Quiet, Underway
    <2>8. OverWhenFinished' /\ StoredIsDelivered' /\ ReplayIsTheEntry'
        BY <1>1, <1>4, <2>1, <2>4 DEF OverWhenFinished, StoredIsDelivered, ReplayIsTheEntry, Reading
    <2> QED
        BY <2>4, <2>7, <2>8 DEF PInv
<1>6. CASE ~(taken < Len(entry.body) /\ ~cancelled)
    <2> DEFINE event == Call("finish")
    <2>1. pc' = "return" /\ Post(event)
        BY <1>6 DEF Replay
    <2>2. event \in Events /\ event.call = "finish"
        BY CallNames
    <2>3. Heard' /\ Ordered'
        <3> HIDE DEF event
        <3> QED
            BY <1>1, <1>2, <2>1, <2>2, PostStep
    <2>4. Quiet' /\ Underway'
        BY <2>1 DEF Quiet, Underway
    <2>5. OverWhenFinished' /\ StoredIsDelivered'
        BY <1>1, <1>4, <2>1 DEF OverWhenFinished, StoredIsDelivered, Reading
    <2>6. ReplayIsTheEntry'
        <3>1. CASE cancelled
            <4>1. posted' = posted
                BY <2>1, <2>2, <3>1, Posting
            <4> QED
                BY <1>4, <4>1 DEF Finished, ReplayIsTheEntry
        <3>2. CASE ~cancelled
            <4>1. taken = Len(entry.body) /\ Len(posted) = Len(entry.body) + 1
                BY <1>2, <1>3, <1>6, <3>2 DEF Replayed
            <4>2. \A n \in 1..Len(entry.body) : posted[n + 1] = Data(entry.body[n])
                BY <1>2, <3>2, <4>1 DEF Replayed
            <4>3. Carries(posted, entry.body)
                BY <1>2, <1>3, <3>2, <4>1, <4>2, PassedOnCarries
            <4>4. Carries(posted, entry.body)'
                <5> DEFINE body == entry.body
                <5>1. body \in Seq(Parts) /\ Carries(posted, body) /\ event.call # "data"
                    BY <1>3, <2>2, <4>3
                <5>2. Carries(posted', body)
                    <6> HIDE DEF body, event
                    <6> QED
                        BY <2>1, <2>2, <5>1, CarriesStep DEF Carries, DataAt
                <5> QED
                    BY <1>1, <5>2
            <4> QED
                BY <4>4 DEF ReplayIsTheEntry
        <3> QED
            BY <3>1, <3>2
    <2> QED
        BY <2>3, <2>4, <2>5, <2>6 DEF PInv
<1> QED
    BY <1>5, <1>6

\* A redirect that was read: what is committed with it is no page.
LEMMA RedirectP ==
    ASSUME IInv, PInv, Redirect
    PROVE  PInv'
<1>1. /\ UNCHANGED <<cancelled, client, handled>>
      /\ pc = "redirect" /\ pc' = "return" /\ Post(Call("redirect"))
    BY DEF Redirect, clientVars
<1>2. stored' = stored \/ stored'.kind # "page"
    BY DEF Redirect, Commit
<1> QED
    BY <1>1, <1>2, EndsAtOnce

LEMMA ResponseP ==
    ASSUME IInv, PInv, Response
    PROVE  PInv'
<1>1. /\ UNCHANGED <<cancelled, client, handled, stored, entry, taken, reply, attempts>>
      /\ pc = "response"
    BY DEF Response, clientVars, cacheVars
<1>2. CASE pc' = "return" /\ Fail
    <2>1. Post(Call("error"))
        BY <1>2 DEF Fail
    <2> QED
        BY <1>1, <1>2, <2>1, EndsAtOnce
<1>3. CASE /\ pc' = "body"
           /\ IF reply.kind = "image" THEN UNCHANGED posted ELSE Post(Call("response"))
    <2>1. cancelled \/ posted = <<>>
        BY <1>1 DEF PInv, Quiet
    <2>2. ~Finished /\ (stored # None /\ stored.of > 0 => stored.kind # "page") /\ entry = None
        BY <1>1 DEF PInv, OverWhenFinished, Reading
    <2>3. Heard' /\ Ordered' /\ (Finished' => Finished)
        <3>1. CASE reply.kind = "image"
            BY <1>1, <1>3, <3>1, SilentStep
        <3>2. CASE reply.kind # "image"
            BY <1>1, <1>3, <2>1, <3>2, CallNames, PostStep
        <3> QED
            BY <3>1, <3>2
    <2>4. ~cancelled => /\ reply.kind = "image" => posted' = <<>>
                        /\ reply.kind # "image" => Opened' /\ Len(posted') = 1
        BY <1>1, <1>3, <2>1, CallNames, PostStep
    <2>5. taken = 0
        BY <1>1 DEF IInv, During, Reading
    <2>6. ~cancelled /\ reply.kind # "image" => PassedOn'
        BY <1>1, <2>4, <2>5 DEF PassedOn
    <2>7. Quiet' /\ Underway'
        BY <1>1, <1>3, <2>4, <2>6 DEF Quiet, Underway
    <2>8. OverWhenFinished' /\ StoredIsDelivered' /\ ReplayIsTheEntry'
        BY <1>1, <1>3, <2>2, <2>3
           DEF OverWhenFinished, StoredIsDelivered, ReplayIsTheEntry, Reading
    <2> QED
        BY <2>3, <2>7, <2>8 DEF PInv
<1> QED
    BY <1>2, <1>3 DEF Response

LEMMA ReadPartP ==
    ASSUME IInv, PInv, ReadPart
    PROVE  PInv'
<1>1. /\ UNCHANGED <<pc, cancelled, client, handled, stored, entry, reply, attempts>>
      /\ pc = "body" /\ taken < reply.length /\ taken' = taken + 1
      /\ Emit(<<attempts, taken + 1>>)
    BY DEF ReadPart, clientVars
<1>2. ~Finished /\ (stored # None /\ stored.of > 0 => stored.kind # "page") /\ entry = None
    BY <1>1 DEF PInv, OverWhenFinished, Reading
<1>3. CASE reply.kind = "image"
    <2>1. posted' = posted
        BY <1>1, <1>3 DEF Emit
    <2>2. Heard' /\ Ordered' /\ (Finished' <=> Finished)
        BY <1>1, <2>1, SilentStep
    <2>3. Quiet' /\ Underway'
        BY <1>1, <1>3, <2>1 DEF PInv, Quiet, Underway
    <2>4. OverWhenFinished' /\ StoredIsDelivered' /\ ReplayIsTheEntry'
        BY <1>1, <1>2, <2>2 DEF OverWhenFinished, StoredIsDelivered, ReplayIsTheEntry, Reading
    <2> QED
        BY <2>2, <2>3, <2>4 DEF PInv
<1>4. CASE reply.kind # "image"
    <2> DEFINE event == Data(<<attempts, taken + 1>>)
    <2>1. Post(event)
        BY <1>1, <1>4 DEF Emit
    <2>2. /\ reply.length \in 0..MaxBody /\ attempts \in 0..3 /\ taken \in 0..MaxBody
          /\ MaxBody \in Nat
        BY <1>1, ReadingFacts DEF Reading
    <2>3. <<attempts, taken + 1>> \in Parts
        <3>1. taken < MaxBody
            BY <1>1, <2>2
        <3> QED
            BY <2>2, <3>1, BodyProperties
    <2>4. event \in Events /\ event.call = "data"
        BY <2>3, CallNames
    <2>5. ~cancelled => Opened /\ PassedOn
        BY <1>1, <1>4 DEF PInv, Underway
    <2>6. Heard' /\ Ordered' /\ (Finished' => Finished) /\ (~cancelled => Opened')
        <3> HIDE DEF event
        <3> QED
            BY <1>1, <2>1, <2>4, <2>5, PostStep
    <2>7. ~cancelled =>
              /\ Len(posted') = Len(posted) + 1 /\ posted'[Len(posted) + 1] = event
              /\ \A i \in 1..Len(posted) : posted'[i] = posted[i]
        <3> HIDE DEF event
        <3> QED
            BY <2>1, <2>4, Posting
    <2>8. ~cancelled => PassedOn'
        <3> SUFFICES ASSUME ~cancelled
                     PROVE  PassedOn'
            OBVIOUS
        <3>1. /\ Len(posted) = taken + 1 /\ taken \in Nat
              /\ \A n \in 1..taken : posted[n + 1] = Data(<<attempts, n>>)
            BY <2>2, <2>5 DEF PassedOn
        <3>2. \A n \in 1..(taken + 1) : posted'[n + 1] = Data(<<attempts, n>>)
            <4> SUFFICES ASSUME NEW n \in 1..(taken + 1)
                         PROVE  posted'[n + 1] = Data(<<attempts, n>>)
                OBVIOUS
            <4>1. CASE n \in 1..taken
                BY <2>7, <3>1, <4>1
            <4>2. CASE n = taken + 1
                BY <2>7, <3>1, <4>2
            <4> QED
                BY <3>1, <4>1, <4>2
        <3> QED
            BY <1>1, <2>7, <3>1, <3>2 DEF PassedOn
    <2>9. Quiet' /\ Underway'
        BY <1>1, <1>4, <2>6, <2>8 DEF Quiet, Underway
    <2>10. OverWhenFinished' /\ StoredIsDelivered' /\ ReplayIsTheEntry'
        BY <1>1, <1>2, <2>6 DEF OverWhenFinished, StoredIsDelivered, ReplayIsTheEntry, Reading
    <2> QED
        BY <2>6, <2>9, <2>10 DEF PInv
<1> QED
    BY <1>3, <1>4

LEMMA EndBodyP ==
    ASSUME IInv, PInv, ReadEnd \/ ReadGarbled \/ ReadFails \/ ReadStops \/ Undecodable
    PROVE  PInv'
<1>1. /\ UNCHANGED <<posted, cancelled, client, handled, stored, entry, reply, attempts, taken>>
      /\ pc = "body" /\ pc' = IF reply.kind = "image" THEN "image" ELSE "store"
    BY DEF ReadEnd, ReadGarbled, ReadFails, ReadStops, Undecodable, EndBody, shared, clientVars, cacheVars
<1>2. ~Finished /\ (stored # None /\ stored.of > 0 => stored.kind # "page") /\ entry = None
    BY <1>1 DEF PInv, OverWhenFinished, Reading
<1>3. Heard' /\ Ordered' /\ (Finished' <=> Finished)
    BY <1>1, SilentStep
<1>4. (Opened' <=> Opened) /\ (PassedOn' <=> PassedOn)
    BY <1>1 DEF Opened, PassedOn
<1>5. Quiet' /\ Underway'
    BY <1>1, <1>4 DEF PInv, Quiet, Underway
<1>6. OverWhenFinished' /\ StoredIsDelivered' /\ ReplayIsTheEntry'
    BY <1>1, <1>2, <1>3 DEF OverWhenFinished, StoredIsDelivered, ReplayIsTheEntry, Reading
<1> QED
    BY <1>3, <1>5, <1>6 DEF PInv

\* An image is posted when it has been read.
LEMMA ImageP ==
    ASSUME IInv, PInv, ImageResponse \/ ImageData
    PROVE  PInv'
<1>1. /\ UNCHANGED <<cancelled, client, handled, stored, entry, reply, attempts, taken>>
      /\ pc \in {"image", "imageData"} /\ pc' \in {"imageData", "store"}
      /\ \/ pc = "image" /\ pc' = "imageData" /\ Post(Call("response"))
         \/ pc = "imageData" /\ pc' = "store" /\ (Post(Data(None)) \/ posted' = posted)
    BY DEF ImageResponse, ImageData, clientVars, cacheVars, wireVars
<1>2. ~Finished /\ (stored # None /\ stored.of > 0 => stored.kind # "page") /\ entry = None
    BY <1>1 DEF PInv, OverWhenFinished, Reading
<1>3. ~cancelled => /\ pc = "image" => posted = <<>>
                    /\ pc = "imageData" => Opened
    BY <1>1 DEF PInv, Quiet, Underway
<1>4. Heard' /\ Ordered' /\ (Finished' => Finished) /\ (~cancelled => Opened')
    <2>1. CASE Post(Call("response")) /\ pc = "image"
        BY <1>1, <1>3, <2>1, CallNames, PostStep
    <2>2. CASE Post(Data(None)) /\ pc = "imageData"
        <3> DEFINE event == Data(None)
        <3>1. event \in Events /\ event.call = "data" /\ Post(event)
            BY <2>2, CallNames
        <3> HIDE DEF event
        <3> QED
            BY <1>1, <1>3, <2>2, <3>1, PostStep
    <2>3. CASE posted' = posted /\ pc = "imageData"
        BY <1>1, <1>3, <2>3, SilentStep DEF Opened
    <2> QED
        BY <1>1, <2>1, <2>2, <2>3
<1>5. reply.kind = "image"
    BY <1>1 DEF PInv, OverWhenFinished
<1>6. Quiet' /\ Underway'
    BY <1>1, <1>4, <1>5 DEF Quiet, Underway
<1>7. OverWhenFinished' /\ StoredIsDelivered' /\ ReplayIsTheEntry'
    BY <1>1, <1>2, <1>4, <1>5
       DEF OverWhenFinished, StoredIsDelivered, ReplayIsTheEntry, Reading
<1> QED
    BY <1>4, <1>6, <1>7 DEF PInv

\* What is committed is what the writer was given, which is what was passed on.
LEMMA StoreP ==
    ASSUME IInv, PInv, Store
    PROVE  PInv'
<1>1. /\ UNCHANGED <<posted, cancelled, client, handled, entry, reply, attempts, taken>>
      /\ pc = "store" /\ pc' = "end"
    BY DEF Store, shared, clientVars, wireVars
<1>2. ~Finished /\ (stored # None /\ stored.of > 0 => stored.kind # "page") /\ entry = None
    BY <1>1 DEF PInv, OverWhenFinished, Reading
<1>3. Heard' /\ Ordered' /\ (Finished' <=> Finished)
    BY <1>1, SilentStep
<1>4. Opened' <=> Opened
    BY <1>1 DEF Opened
<1>5. Quiet' /\ Underway'
    BY <1>1, <1>4 DEF PInv, Quiet, Underway
<1>6. OverWhenFinished' /\ ReplayIsTheEntry'
    BY <1>1, <1>2, <1>3 DEF OverWhenFinished, ReplayIsTheEntry, Reading
<1>7. StoredIsDelivered'
    <2>1. CASE UNCHANGED stored
        BY <1>1, <1>2, <2>1 DEF StoredIsDelivered
    <2>2. CASE ~UNCHANGED stored
        <3>1. writer # None /\ ~cancelled /\ Commit("page", reply.framing, reply.length, writer)
            BY <2>2 DEF Store
        <3>2. stored'.body = writer
            BY <2>2, <3>1 DEF Commit
        <3>3. writer = BodyOf(attempts, taken) /\ reply.kind # "image"
            BY <1>1, <3>1 DEF IInv, During, Reading
        <3>4. /\ BodyOf(attempts, taken) \in Seq(Parts) /\ Len(BodyOf(attempts, taken)) = taken
              /\ taken \in Nat
            BY <1>1, ReadingFacts DEF Reading
        <3>5. Opened /\ PassedOn
            BY <1>1, <3>1, <3>3 DEF PInv, Underway
        <3>6. \A n \in 1..taken : posted[n + 1] = Data(BodyOf(attempts, taken)[n])
            BY <3>5 DEF PassedOn, BodyOf
        <3>7. Len(posted) = taken + 1
            BY <3>5 DEF PassedOn
        <3> DEFINE body == BodyOf(attempts, taken)
        <3>8. Carries(posted, body)
            <4>1. body \in Seq(Parts) /\ Len(body) = taken
                  /\ \A n \in 1..taken : posted[n + 1] = Data(body[n])
                BY <3>4, <3>6
            <4> HIDE DEF body
            <4> QED
                BY <3>5, <3>7, <4>1, PassedOnCarries
        <3> HIDE DEF body
        <3>9. Carries(posted', stored'.body)
            BY <1>1, <3>2, <3>3, <3>8 DEF body
        <3> QED
            BY <3>9 DEF StoredIsDelivered
    <2> QED
        BY <2>1, <2>2
<1> QED
    BY <1>3, <1>5, <1>6, <1>7 DEF PInv

LEMMA EndP ==
    ASSUME IInv, PInv, End
    PROVE  PInv'
<1>1. /\ UNCHANGED <<cancelled, client, handled, stored, entry>>
      /\ pc = "end" /\ pc' = "return"
    BY DEF End, clientVars, cacheVars
<1>2. PICK name \in {"finish", "error"} : Post(Call(name))
    BY DEF End, EndReported, Fail
<1> DEFINE event == Call(name)
<1>3. event \in Events /\ event.call \in {"finish", "error"} /\ Post(event)
    BY <1>2, CallNames
<1> HIDE DEF event
<1>4. ~cancelled => Opened
    BY <1>1 DEF PInv, Underway
<1>5. entry = None
    BY <1>1 DEF PInv, OverWhenFinished, Reading
<1>6. Heard' /\ Ordered'
    BY <1>1, <1>3, <1>4, PostStep
<1>7. Quiet' /\ Underway'
    BY <1>1 DEF Quiet, Underway
<1>8. OverWhenFinished' /\ ReplayIsTheEntry'
    BY <1>1, <1>5 DEF OverWhenFinished, ReplayIsTheEntry, Reading
<1>9. StoredIsDelivered'
    <2> SUFFICES ASSUME stored # None, stored.of > 0, stored.kind = "page"
                 PROVE  Carries(posted', stored.body)
        BY <1>1 DEF StoredIsDelivered
    <2> DEFINE body == stored.body
    <2>1. body \in Seq(Parts) /\ Carries(posted, body)
        BY DEF PInv, StoredIsDelivered, IInv, TypeOK, Entries
    <2> HIDE DEF body
    <2>2. Carries(posted', body)
        BY <1>3, <2>1, CarriesStep DEF Carries, DataAt
    <2> QED
        BY <2>2 DEF body
<1> QED
    BY <1>6, <1>7, <1>8, <1>9 DEF PInv

LEMMA ReturnP ==
    ASSUME IInv, PInv, Return
    PROVE  PInv'
<1>1. /\ UNCHANGED <<posted, cancelled, client, handled, stored, entry>>
      /\ pc = "return" /\ pc' = "done"
    BY DEF Return, shared, clientVars
<1>2. Heard' /\ Ordered' /\ (Finished' <=> Finished)
    BY <1>1, SilentStep
<1>3. Quiet' /\ Underway'
    BY <1>1 DEF Quiet, Underway
<1>4. OverWhenFinished' /\ StoredIsDelivered' /\ ReplayIsTheEntry'
    BY <1>1, <1>2
       DEF PInv, OverWhenFinished, StoredIsDelivered, ReplayIsTheEntry, Reading, Carries, DataAt
<1> QED
    BY <1>2, <1>3, <1>4 DEF PInv

\* The client hears the next call, or nothing more.
LEMMA ClientStepP ==
    ASSUME IInv, PInv, Handle \/ StopLoading
    PROVE  PInv'
<1>1. /\ UNCHANGED <<pc, posted, stored, entry, attempts, reply, taken>>
      /\ cancelled => cancelled'
    BY DEF Handle, StopLoading, cacheVars, wireVars, shared
<1>2. Ordered' /\ Quiet' /\ Underway' /\ OverWhenFinished' /\ StoredIsDelivered' /\ ReplayIsTheEntry'
    <2>1. /\ Opened' <=> Opened
          /\ PassedOn' <=> PassedOn
          /\ Replayed' <=> Replayed
          /\ Finished' <=> Finished
        BY <1>1 DEF Opened, PassedOn, Replayed, Finished
    <2> QED
        BY <1>1, <2>1 DEF PInv, Ordered, Quiet, Underway, OverWhenFinished, StoredIsDelivered,
                          ReplayIsTheEntry, Carries, DataAt
<1>3. /\ Len(client) <= handled /\ (~cancelled => Len(client) = handled)
      /\ \A i \in 1..Len(client) : client[i] = posted[i]
      /\ Len(client) \in Nat /\ handled \in Nat /\ posted \in Seq(Events) /\ client \in Seq(Events)
    BY PostedType DEF PInv, Heard
<1>4. Heard'
    <2>1. CASE StopLoading
        BY <1>1, <1>3, <2>1 DEF StopLoading, clientVars, Heard
    <2>2. CASE Handle /\ cancelled
        <3>1. handled' = handled + 1 /\ client' = client /\ cancelled'
            BY <1>1, <2>2 DEF Handle, Told
        <3> QED
            BY <1>1, <1>3, <3>1 DEF Heard
    <2>3. CASE Handle /\ ~cancelled
        <3>1. /\ handled' = handled + 1 /\ client' = Append(client, posted[handled + 1])
              /\ posted[handled + 1] \in Events
            <4>1. handled + 1 \in 1..Len(posted)
                BY <2>3, <1>3, PostedType DEF Handle
            <4> QED
                BY <1>3, <2>3, <4>1, ElementOfSeq DEF Handle, Told
        <3>2. /\ Len(client') = handled + 1 /\ client'[handled + 1] = posted[handled + 1]
              /\ \A i \in 1..handled : client'[i] = client[i]
            BY <1>3, <2>3, <3>1, AppendProperties
        <3>3. \A i \in 1..(handled + 1) : client'[i] = posted[i]
            <4> SUFFICES ASSUME NEW i \in 1..(handled + 1)
                         PROVE  client'[i] = posted[i]
                OBVIOUS
            <4>1. i \in 1..handled \/ i = handled + 1
                BY <1>3
            <4> QED
                BY <1>3, <2>3, <3>2, <4>1
        <3> QED
            BY <1>1, <1>3, <3>1, <3>2, <3>3 DEF Heard
    <2> QED
        BY <2>1, <2>2, <2>3
<1> QED
    BY <1>2, <1>4 DEF PInv

LEMMA NextP ==
    ASSUME IInv, PInv, [Next]_vars
    PROVE  PInv'
<1>1. CASE Miss \/ Validate \/ Send \/ Mismatched \/ (\E r \in Replies : ReadHead(r))
    BY <1>1, BeforeP
<1>2. CASE Unanswered \/ HitUndeliverable
    BY <1>2, UnansweredP
<1>3. CASE FailAtOnce \/ ConnectFails \/ BadHead \/ RedirectAstray
    BY <1>3, FailsP
<1>4. CASE Hit \/ Unmodified
    BY <1>4, HitP
<1>5. CASE Replay
    BY <1>5, ReplayP
<1>6. CASE Redirect
    BY <1>6, RedirectP
<1>7. CASE Response
    BY <1>7, ResponseP
<1>8. CASE ReadPart
    BY <1>8, ReadPartP
<1>9. CASE ReadEnd \/ ReadGarbled \/ ReadFails \/ ReadStops \/ Undecodable
    BY <1>9, EndBodyP
<1>10. CASE ImageResponse \/ ImageData
    BY <1>10, ImageP
<1>11. CASE Store
    BY <1>11, StoreP
<1>12. CASE End
    BY <1>12, EndP
<1>13. CASE Return
    BY <1>13, ReturnP
<1>14. CASE Handle \/ StopLoading
    BY <1>14, ClientStepP
<1>15. CASE UNCHANGED vars
    <2>1. UNCHANGED <<pc, posted, handled, client, cancelled, stored, entry, attempts, reply, taken>>
        BY <1>15 DEF vars
    <2>2. Heard' /\ Ordered' /\ (Finished' <=> Finished)
        BY <2>1, SilentStep
    <2>3. /\ Opened' <=> Opened
          /\ PassedOn' <=> PassedOn
          /\ Replayed' <=> Replayed
        BY <2>1 DEF Opened, PassedOn, Replayed
    <2>4. Quiet' /\ Underway'
        BY <2>1, <2>3 DEF PInv, Quiet, Underway
    <2>5. OverWhenFinished' /\ StoredIsDelivered' /\ ReplayIsTheEntry'
        BY <2>1, <2>2 DEF PInv, OverWhenFinished, StoredIsDelivered, ReplayIsTheEntry, Carries, DataAt
    <2> QED
        BY <2>2, <2>4, <2>5 DEF PInv
<1> QED
    BY <1>1, <1>2, <1>3, <1>4, <1>5, <1>6, <1>7, <1>8, <1>9, <1>10, <1>11, <1>12, <1>13,
       <1>14, <1>15 DEF Next, Worker

LEMMA PostedInvariance == Spec => [](IInv /\ PInv)
<1>1. Init => IInv /\ PInv
    BY InitInv, InitP
<1>2. IInv /\ PInv /\ [Next]_vars => (IInv /\ PInv)'
    BY NextInv, NextP
<1> QED
    BY <1>1, <1>2, PTL DEF Spec

\* "a replay is byte-for-byte the original delivery" (docs/network.md:129): what
\* readBodyFrom handed to the writer and the cache then kept is, part for part and in
\* order, what was posted to the client after the response, whatever was refused, read
\* short or stopped on the way.
THEOREM StoredAsDelivered == Spec => []StoredIsDelivered
<1>1. PInv => StoredIsDelivered
    BY DEF PInv
<1> QED
    BY <1>1, PostedInvariance, PTL

\* The other half of that sentence: when deliverEntry has posted its finish, what it posted
\* before is the response and the body of the entry, no part missing or repeated.
THEOREM ReplaysTheEntry == Spec => []ReplayIsTheEntry
<1>1. PInv => ReplayIsTheEntry
    BY DEF PInv
<1> QED
    BY <1>1, PostedInvariance, PTL

-----------------------------------------------------------------------------
(* The refinement.                                                         *)

LEMMA EventCalls ==
    ASSUME NEW event \in Events
    PROVE  event.call \in {"response", "finish", "redirect", "error", "data"}
BY DEF Events

\* A client that has yet to hear something has not been told an end.
LEMMA NotEnded ==
    ASSUME IInv, PInv, Len(client) < Len(posted)
    PROVE  /\ client = <<>> => Phase = "started"
           /\ client # <<>> => Phase = "responded" /\ posted[1].call = "response"
<1>1. /\ posted \in Seq(Events) /\ Len(posted) \in Nat /\ Len(client) \in Nat
      /\ DOMAIN client = 1..Len(client)
      /\ client = <<>> <=> Len(client) = 0
    BY PostedType
<1>2. \A i \in 1..Len(client) : client[i].call \in {"response", "data"}
    <2> SUFFICES ASSUME NEW i \in 1..Len(client)
                 PROVE  client[i].call \in {"response", "data"}
        OBVIOUS
    <2>1. client[i] = posted[i] /\ i \in 1..Len(posted) /\ i # Len(posted)
        BY <1>1 DEF PInv, Heard
    <2>2. posted[i] \in Events
        BY <1>1, <2>1, ElementOfSeq
    <2>3. posted[i].call \notin {"finish", "error", "redirect"}
        BY <2>1 DEF PInv, Ordered
    <2> QED
        BY <2>1, <2>2, <2>3, EventCalls
<1>3. CASE client = <<>>
    <2>1. DOMAIN client = {}
        BY <1>1, <1>3
    <2> QED
        BY <1>3, <2>1 DEF Phase
<1>4. CASE client # <<>>
    <2>1. 1 \in 1..Len(client) /\ 1 \in 1..Len(posted)
        BY <1>1, <1>4
    <2>2. client[1] = posted[1]
        BY <2>1 DEF PInv, Heard
    <2>3. posted[1].call = "response"
        <3>1. posted[1].call \in {"response", "data"}
            BY <1>2, <2>1, <2>2
        <3>2. posted[1].call = "data" => 1 > 1
            BY <2>1 DEF PInv, Ordered
        <3> QED
            BY <3>1, <3>2
    <2>4. "response" \in {client[i].call : i \in DOMAIN client}
        BY <1>1, <2>1, <2>2, <2>3
    <2>5. \A c \in {client[i].call : i \in DOMAIN client} : c \in {"response", "data"}
        BY <1>1, <1>2
    <2> QED
        BY <1>4, <2>3, <2>4, <2>5 DEF Phase
<1> QED
    BY <1>3, <1>4

\* The next call in its order is one that a UrlLoad may tell.
LEMMA HandleTells ==
    ASSUME IInv, PInv, Handle, ~cancelled
    PROVE  Load!Next
<1> DEFINE k == Len(client)
           event == posted[k + 1]
<1>1. /\ posted \in Seq(Events) /\ Len(posted) \in Nat /\ k \in Nat
      /\ client \in Seq(Events) /\ DOMAIN client = 1..k /\ (client = <<>> <=> k = 0)
    BY PostedType
<1>2. k = handled /\ k < Len(posted) /\ client' = Append(client, event) /\ cancelled' = cancelled
    BY DEF PInv, Heard, Handle, Told, shared
<1>3. k + 1 \in 1..Len(posted) /\ event \in Events
    BY <1>1, <1>2, ElementOfSeq
<1>4. event.call \in {"response", "finish", "redirect", "error", "data"}
    BY <1>3, EventCalls
<1>5. /\ event.call \in {"response", "redirect"} => k = 0
      /\ event.call \in {"data", "finish"} => k > 0
    <2>1. /\ event.call \in {"response", "redirect"} => k + 1 = 1
          /\ event.call \in {"data", "finish"} => k + 1 > 1
        BY <1>3 DEF PInv, Ordered
    <2> QED
        BY <1>1, <2>1
<1>6. /\ k = 0 => Phase = "started"
      /\ k > 0 => Phase = "responded"
    <2>1. k > 0 => client # <<>>
        BY <1>1
    <2> QED
        BY <1>1, <1>2, <2>1, NotEnded
<1> HIDE DEF event
<1>7. /\ Len(client') = k + 1 /\ DOMAIN client' = 1..(k + 1) /\ client'[k + 1] = event
      /\ \A i \in 1..k : client'[i] = client[i]
    <2>1. Append(client, event) \in Seq(Events)
        BY <1>1, <1>3, AppendProperties
    <2> QED
        BY <1>1, <1>2, <1>3, <2>1, AppendProperties, LenProperties
<1> DEFINE calls == {client[i].call : i \in DOMAIN client}
           more == {client'[i].call : i \in DOMAIN client'}
<1>8. more = calls \cup {event.call}
    <2>1. \A c : c \in more <=> \E i \in 1..(k + 1) : c = client'[i].call
        BY <1>7
    <2>2. \A c : c \in calls <=> \E i \in 1..k : c = client[i].call
        BY <1>1
    <2>3. \A i \in 1..(k + 1) : i \in 1..k \/ i = k + 1
        BY <1>1
    <2>4. k + 1 \in 1..(k + 1) /\ \A i \in 1..k : i \in 1..(k + 1)
        BY <1>1
    <2> HIDE DEF more, calls
    <2>5. ASSUME NEW c
          PROVE  c \in more <=> c \in calls \/ c = event.call
        BY <1>7, <2>1, <2>2, <2>3, <2>4
    <2> QED
        BY <2>5
<1>9. /\ Phase = IF "finish" \in calls THEN "finished" ELSE IF "error" \in calls THEN "failed"
                 ELSE IF "redirect" \in calls THEN "redirected"
                 ELSE IF "response" \in calls THEN "responded" ELSE "started"
      /\ Phase' = IF "finish" \in more THEN "finished" ELSE IF "error" \in more THEN "failed"
                  ELSE IF "redirect" \in more THEN "redirected"
                  ELSE IF "response" \in more THEN "responded" ELSE "started"
    BY DEF Phase
<1>10. Phase' = IF event.call = "finish" THEN "finished" ELSE IF event.call = "error" THEN "failed"
                ELSE IF event.call = "redirect" THEN "redirected"
                ELSE IF event.call = "response" THEN "responded" ELSE Phase
    <2> HIDE DEF calls, more
    <2>1. Phase \in {"started", "responded"}
        BY <1>1, <1>6
    <2>2. "finish" \notin calls /\ "error" \notin calls /\ "redirect" \notin calls
        BY <1>9, <2>1
    <2> QED
        BY <1>4, <1>8, <1>9, <2>2
<1>11. /\ event.call = "data" => data' = data + 1
       /\ event.call # "data" => data' = data
    <2>1. DataAt(client') = IF event.call = "data" THEN DataAt(client) \cup {k + 1} ELSE DataAt(client)
        BY <1>1, <1>7 DEF DataAt
    <2>2. DataAt(client) \subseteq 1..k /\ k + 1 \notin DataAt(client)
        BY <1>1 DEF DataAt
    <2>3. IsFiniteSet(DataAt(client))
        <3>1. IsFiniteSet(1..k)
            BY <1>1, FS_Interval
        <3> QED
            BY <2>2, <3>1, FS_Subset
    <2>4. Cardinality(DataAt(client) \cup {k + 1}) = Cardinality(DataAt(client)) + 1
        BY <2>2, <2>3, FS_AddElement
    <2> QED
        BY <2>1, <2>4 DEF data
<1>12. phase = Phase /\ phase' = Phase' /\ stopped = FALSE /\ stopped' = FALSE
    BY <1>2 DEF phase, stopped, IInv, TypeOK
<1> HIDE DEF k, calls, more
<1>13. k = 0 \/ k > 0
    BY <1>1 DEF k
<1>14. CASE event.call = "response"
    <2>1. Load!Respond
        BY <1>5, <1>6, <1>10, <1>11, <1>12, <1>14 DEF Load!Respond, Load!Tell
    <2> QED
        BY <2>1 DEF Load!Next
<1>15. CASE event.call = "data"
    <2>1. Load!LoadData
        BY <1>5, <1>6, <1>10, <1>11, <1>12, <1>15 DEF Load!LoadData
    <2> QED
        BY <2>1 DEF Load!Next
<1>16. CASE event.call = "finish"
    <2>1. Load!Finish
        BY <1>5, <1>6, <1>10, <1>11, <1>12, <1>16 DEF Load!Finish, Load!Tell
    <2> QED
        BY <2>1 DEF Load!Next
<1>17. CASE event.call = "error"
    <2>1. Load!Fail
        BY <1>6, <1>10, <1>11, <1>12, <1>13, <1>17 DEF Load!Fail, Load!Tell
    <2> QED
        BY <2>1 DEF Load!Next
<1>18. CASE event.call = "redirect"
    <2>1. Load!Redirect
        BY <1>5, <1>6, <1>10, <1>11, <1>12, <1>18 DEF Load!Redirect, Load!Tell
    <2> QED
        BY <2>1 DEF Load!Next
<1> QED
    BY <1>4, <1>14, <1>15, <1>16, <1>17, <1>18

LEMMA StepTells ==
    ASSUME IInv, PInv, [Next]_vars
    PROVE  [Load!Next]_<<phase, data, stopped>>
<1>1. CASE Handle /\ ~cancelled
    BY <1>1, HandleTells
<1>2. CASE StopLoading
    <2>1. client' = client /\ cancelled' = TRUE
        BY <1>2 DEF StopLoading, clientVars
    <2>2. phase' = phase /\ data' = data /\ stopped' = TRUE
        BY <2>1 DEF phase, Phase, data, DataAt, stopped
    <2> QED
        BY <2>2 DEF Load!Next, Load!Stop
<1>3. CASE (Handle /\ cancelled) \/ Worker \/ UNCHANGED vars
    <2>1. client' = client /\ cancelled' = cancelled
        <3>1. CASE Handle /\ cancelled
            BY <3>1 DEF Handle, Told, shared
        <3>2. CASE UNCHANGED vars
            BY <3>2 DEF vars
        <3>3. CASE Worker
            <4>1. CASE Miss \/ Validate \/ Hit \/ HitUndeliverable \/ FailAtOnce \/ Replay
                BY <4>1 DEF Miss, Validate, Hit, HitUndeliverable, FailAtOnce, Replay, shared, clientVars
            <4>2. CASE \/ ConnectFails \/ Send \/ Unanswered \/ BadHead \/ Return
                       \/ Unmodified \/ Mismatched \/ (\E r \in Replies : ReadHead(r))
                BY <4>2 DEF ConnectFails, Send, Unanswered, BadHead, Return, Unmodified, Mismatched,
                            ReadHead, shared, clientVars
            <4>3. CASE Redirect \/ RedirectAstray \/ Response \/ ReadPart \/ Store \/ End
                BY <4>3 DEF Redirect, RedirectAstray, Response, ReadPart, Store, End, shared, clientVars
            <4>4. CASE ReadEnd \/ ReadGarbled \/ ReadFails \/ ReadStops \/ Undecodable \/ ImageResponse \/ ImageData
                BY <4>4 DEF ReadEnd, ReadGarbled, ReadFails, ReadStops, Undecodable, EndBody, ImageResponse,
                            ImageData, shared, clientVars
            <4> QED
                BY <3>3, <4>1, <4>2, <4>3, <4>4 DEF Worker
        <3> QED
            BY <1>3, <3>1, <3>2, <3>3
    <2>2. phase' = phase /\ data' = data /\ stopped' = stopped
        BY <2>1 DEF phase, Phase, data, DataAt, stopped
    <2> QED
        BY <2>2
<1> QED
    BY <1>1, <1>2, <1>3 DEF Next

\* What a URL protocol owes its client (UrlLoad): whatever the server, the cache, the
\* worker and the client's thread do, the calls of deliverResponse:, deliverData:,
\* deliverFinish:, deliverRedirect: and deliverError: come as one response, its data and
\* one end, or a redirect or an error in its place, and none comes after stopLoading.
THEOREM ExchangeImplementsUrlLoad == Spec => ImplementsUrlLoad
<1>1. Init => Load!Init
    <2> SUFFICES ASSUME Init
                 PROVE  Load!Init
        OBVIOUS
    <2>1. client = <<>> /\ cancelled = FALSE
        BY DEF Init
    <2>2. DOMAIN client = {}
        BY <2>1, EmptySeq
    <2>3. Phase = "started"
        BY <2>2 DEF Phase
    <2>4. Cardinality(DataAt(client)) = 0
        <3>1. DataAt(client) = {}
            BY <2>2 DEF DataAt
        <3> QED
            BY <3>1, FS_EmptySet
    <2> QED
        BY <2>1, <2>3, <2>4 DEF Load!Init, phase, data, stopped
<1>2. IInv /\ PInv /\ [Next]_vars => [Load!Next]_<<phase, data, stopped>>
    BY StepTells
<1> QED
    BY <1>1, <1>2, PostedInvariance, PTL DEF Spec, ImplementsUrlLoad, Load!Spec, Load!vars
=============================================================================
