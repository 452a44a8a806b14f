----------------------------- MODULE UrlExchange ------------------------------
(***************************************************************************)
(* One load (app/ModernTLSURLProtocol.m: startLoading, performRequest,     *)
(* answerFromCache's outcomes, deliverEntry, exchangeOn, readBodyFrom, the *)
(* deliver methods and stopLoading).                                       *)
(*                                                                         *)
(* A worker of a dispatch queue talks to the server and posts what the     *)
(* client is to be told to the client's thread, which handles it later and *)
(* on which stopLoading may be called at any time.  `_cancelled' is the    *)
(* only thing the two share: the worker reads it where the code does.      *)
(* A body is a sequence of parts, each <<source, n>>: the source is the    *)
(* number of the exchange it came from, 0 for the entry found in the cache.*)
(***************************************************************************)
EXTENDS Naturals, Sequences, FiniteSets

CONSTANTS
    MaxBody,     \* bound: parts in a body
    DrainLimit,  \* kDrainLimit, in parts
    None         \* no entry, no writer, no reply

ASSUME ConstantsAssumption == MaxBody \in Nat /\ DrainLimit \in Nat

VARIABLES
    pc,          \* where the worker is
    posted,      \* what it has posted to the client's thread
    handled,     \* how much of that the thread has run
    client,      \* the calls the client has had
    cancelled,   \* _cancelled
    keyed,       \* it has a _cacheKey
    stored,      \* the entry under that key
    entry,       \* the entry the worker delivers or validates (_validating)
    pooled,      \* `pooled' in performRequest
    attempts,    \* exchanges begun
    reply,       \* the head of the response, with `length' parts to its body
    unread,      \* reads left to the end of the response
    taken,       \* parts of the body read, or of the entry posted
    whole,       \* the result of readBodyFrom
    writer,      \* the parts given to _writer, or None
    keepable     \* `keepable' in exchangeOn; at the end, the connection was kept

shared == <<posted, cancelled>>
clientVars == <<handled, client>>
cacheVars == <<keyed, stored, writer>>
wireVars == <<reply, unread, taken, whole, keepable>>
vars == <<pc, posted, handled, client, cancelled, keyed, stored, entry, pooled,
          attempts, reply, unread, taken, whole, writer, keepable>>

Locations == {"start", "replay", "send", "head", "redirect", "response", "body",
              "image", "imageData", "store", "end", "return", "done"}

\* What the code tells apart by the head: a redirect ("astray" if its Location
\* is no URL), a 304, an image it will transcode, and all others.
Kinds == {"page", "image", "moved", "astray", "unmodified"}

\* "garbled": chunked, with a line where the size of a chunk should be that is
\* no number.
Framings == {"none", "length", "chunked", "garbled", "close"}

\* The framing tells where the body ends.
Announced(framing) == framing \notin {"garbled", "close"}

Replies ==
    {r \in [kind: Kinds, framing: Framings, length: 0..MaxBody] :
        /\ r.framing = "none" => r.length = 0
        /\ r.kind = "unmodified" => r.framing = "none"
        /\ r.kind = "image" => r.framing = "length" /\ r.length > 0}

Parts == (0..3) \X (1..MaxBody)
BodyOf(source, length) == [n \in 1..length |-> <<source, n>>]

\* An entry: deliverEntry turns one with a Location into a redirect, and
\* fails when that is no URL.
Entries == [kind: {"page", "moved", "astray"}, of: 0..3, length: 0..MaxBody,
            framing: Framings, body: Seq(Parts)]

Events == [call: {"response", "finish", "redirect", "error"}]
          \cup [call: {"data"}, part: Parts \cup {None}]

TypeOK ==
    /\ pc \in Locations
    /\ posted \in Seq(Events)
    /\ handled \in 0..Len(posted)
    /\ client \in Seq(Events)
    /\ cancelled \in BOOLEAN
    /\ keyed \in BOOLEAN
    /\ stored \in Entries \cup {None}
    /\ entry \in Entries \cup {None}
    /\ pooled \in BOOLEAN
    /\ attempts \in 0..3
    /\ reply \in Replies \cup {None}
    /\ unread \in 0..(MaxBody + 1)
    /\ taken \in 0..MaxBody
    /\ whole \in BOOLEAN
    /\ writer \in Seq(Parts) \cup {None}
    /\ keepable \in BOOLEAN

OldEntry(kind, length) ==
    [kind |-> kind, of |-> 0, length |-> length, framing |-> "length",
     body |-> BodyOf(0, length)]

Init ==
    /\ pc = "start"
    /\ posted = <<>>
    /\ handled = 0
    /\ client = <<>>
    /\ cancelled = FALSE
    /\ keyed \in BOOLEAN
    /\ stored \in {None, OldEntry("page", MaxBody), OldEntry("moved", 0),
                   OldEntry("astray", 0)}
    /\ entry = None
    /\ pooled = FALSE
    /\ attempts = 0
    /\ reply = None
    /\ unread = 0
    /\ taken = 0
    /\ whole = FALSE
    /\ writer = None
    /\ keepable = FALSE

-----------------------------------------------------------------------------
(* The client's thread.                                                    *)

\* onClientThread:
Post(event) == posted' = IF cancelled THEN posted ELSE Append(posted, event)

Call(name) == [call |-> name]
Data(part) == [call |-> "data", part |-> part]

\* Mutant: the deliver methods do not look at _cancelled.
ToldAnyway == TRUE

Told == ~cancelled

\* deliverResponse:, deliverData:, deliverFinish:, deliverRedirect:,
\* deliverError:
Handle ==
    /\ handled < Len(posted)
    /\ handled' = handled + 1
    /\ client' = IF Told THEN Append(client, posted[handled + 1]) ELSE client
    /\ UNCHANGED <<pc, shared, cacheVars, entry, pooled, attempts, wireVars>>

\* -stopLoading
StopLoading ==
    /\ ~cancelled
    /\ cancelled' = TRUE
    /\ UNCHANGED <<pc, posted, clientVars, cacheVars, entry, pooled, attempts,
                   wireVars>>

-----------------------------------------------------------------------------
(* answerFromCache: which of these a lookup comes to is the subject of     *)
(* HttpCache.                                                              *)

Fail == Post(Call("error"))

\* Nothing stored that may be used, or no part for the cache in this load.
Miss ==
    /\ pc = "start"
    /\ pc' = "send"
    /\ pooled' \in BOOLEAN
    /\ UNCHANGED <<shared, clientVars, cacheVars, entry, attempts, wireVars>>

\* The stored entry is to be validated: the request carries its validators.
Validate ==
    /\ pc = "start"
    /\ keyed
    /\ stored # None
    /\ entry' = stored
    /\ pc' = "send"
    /\ pooled' \in BOOLEAN
    /\ UNCHANGED <<shared, clientVars, cacheVars, attempts, wireVars>>

\* deliverEntry of a redirect, which posts that, or of a page, whose body
\* follows its response part by part.
DeliverEntry(e) ==
    \/ /\ e.kind = "moved"
       /\ Post(Call("redirect"))
       /\ pc' = "return"
       /\ UNCHANGED entry
    \/ /\ e.kind = "page"
       /\ Post(Call("response"))
       /\ pc' = "replay"
       /\ entry' = e

\* A fresh entry, or a stale one by policy.
Hit ==
    /\ pc = "start"
    /\ keyed
    /\ stored # None
    /\ DeliverEntry(stored)
    /\ UNCHANGED <<cancelled, clientVars, cacheVars, pooled, attempts, wireVars>>

\* One that deliverEntry cannot deliver is removed, and is a miss unless the
\* request forbids loading.
HitUndeliverable ==
    /\ pc = "start"
    /\ keyed
    /\ stored # None
    /\ stored.kind = "astray"
    /\ stored' = None
    /\ \/ pc' = "send" /\ pooled' \in BOOLEAN /\ UNCHANGED posted
       \/ pc' = "return" /\ Fail /\ UNCHANGED pooled
    /\ UNCHANGED <<cancelled, clientVars, keyed, writer, entry, attempts, wireVars>>

\* No host in the URL, or NSURLRequestReturnCacheDataDontLoad and no entry.
FailAtOnce ==
    /\ pc = "start"
    /\ Fail
    /\ pc' = "return"
    /\ UNCHANGED <<cancelled, clientVars, cacheVars, entry, pooled, attempts,
                   wireVars>>

\* The loop of deliverEntry, which returns at once when cancelled, and its
\* finish.
Replay ==
    /\ pc = "replay"
    /\ IF taken < Len(entry.body) /\ ~cancelled
       THEN /\ Post(Data(entry.body[taken + 1]))
            /\ taken' = taken + 1
            /\ UNCHANGED pc
       ELSE /\ Post(Call("finish"))
            /\ pc' = "return"
            /\ UNCHANGED taken
    /\ UNCHANGED <<cancelled, clientVars, cacheVars, entry, pooled, attempts,
                   reply, unread, whole, keepable>>

-----------------------------------------------------------------------------
(* performRequest around an exchange.                                      *)

\* connectionToHost: fails.
ConnectFails ==
    /\ pc = "send"
    /\ ~pooled
    /\ Fail
    /\ pc' = "return"
    /\ UNCHANGED <<cancelled, clientVars, cacheVars, entry, pooled, attempts,
                   wireVars>>

\* exchangeOn begins: the request is written.
Send ==
    /\ pc = "send"
    /\ attempts' = attempts + 1
    /\ pc' = "head"
    /\ UNCHANGED <<shared, clientVars, cacheVars, entry, pooled, wireVars>>

PooledOnRetry == FALSE

\* ModernTLSExchangeUnanswered: not a byte was read.
Unanswered ==
    /\ pc = "head"
    /\ IF pooled
       THEN /\ pooled' = PooledOnRetry
            /\ pc' = "send"
            /\ UNCHANGED posted
       ELSE /\ Fail
            /\ pc' = "return"
            /\ UNCHANGED pooled
    /\ UNCHANGED <<cancelled, clientVars, cacheVars, entry, attempts, wireVars>>

\* The head breaks off, is malformed or never gets past interim replies.
BadHead ==
    /\ pc = "head"
    /\ Fail
    /\ pc' = "return"
    /\ UNCHANGED <<cancelled, clientVars, cacheVars, entry, pooled, attempts,
                   wireVars>>

\* The connection goes back to the pool if the outcome is Reusable and the
\* load was not cancelled.
Return ==
    /\ pc = "return"
    /\ keepable' = (keepable /\ ~cancelled)
    /\ writer' = None
    /\ pc' = "done"
    /\ UNCHANGED <<shared, clientVars, keyed, stored, entry, pooled, attempts,
                   reply, unread, taken, whole>>

-----------------------------------------------------------------------------
(* exchangeOn.                                                             *)

\* A 304 to our validators confirms the entry, which is delivered and
\* rewritten with the same body...
Unmodified ==
    /\ pc = "head"
    /\ entry # None
    /\ DeliverEntry(entry)
    /\ keepable' \in BOOLEAN
    /\ UNCHANGED <<cancelled, clientVars, cacheVars, pooled, attempts, reply,
                   unread, taken, whole>>

\* ...or is for another ETag, or for an entry that cannot be delivered: the
\* entry goes and the request is sent again without validators.
Mismatched ==
    /\ pc = "head"
    /\ entry # None
    /\ stored' = None
    /\ entry' = None
    /\ pooled' = PooledOnRetry
    /\ pc' = "send"
    /\ UNCHANGED <<shared, clientVars, keyed, writer, attempts, wireVars>>

\* What a reply does to the cache before its body is read: a writer is begun,
\* the entry is removed (a status from 200 to 399 that may not be stored, or a
\* method that changes the resource), or neither.
BeginCaching(r) ==
    \/ /\ keyed
       /\ r.kind # "image"
       /\ writer' = <<>>
       /\ UNCHANGED stored
    \/ /\ stored' = None
       /\ UNCHANGED writer
    \/ UNCHANGED <<stored, writer>>

Reads(r) == r.length + (IF r.framing \in {"chunked", "garbled"} THEN 1 ELSE 0)

\* Any other head.  A connection is keepable unless the version, a Connection
\* field or the framing says otherwise.
ReadHead(r) ==
    /\ pc = "head"
    /\ r.kind = "unmodified" => entry = None
    /\ reply' = r
    /\ unread' = Reads(r)
    /\ taken' = 0
    /\ keepable' \in (IF r.framing = "close" THEN {FALSE} ELSE BOOLEAN)
    /\ entry' = None
    /\ BeginCaching(r)
    /\ pc' = IF r.kind \in {"moved", "astray"} THEN "redirect" ELSE "response"
    /\ UNCHANGED <<shared, clientVars, keyed, pooled, attempts, whole>>

\* -commit, which may fail.
Commit(kind, framing, length, body) ==
    \/ stored' = [kind |-> kind, of |-> attempts, length |-> length,
                  framing |-> framing, body |-> body]
    \/ UNCHANGED stored

\* Mutant: the body of a redirect is left on the connection.
DrainedUnseen == keepable /\ UNCHANGED unread

\* readBodyFrom without delivery, to the end and no more than kDrainLimit, or
\* to a line that it takes for the end.
Drained ==
    /\ keepable
    /\ \/ reply.framing # "garbled" /\ reply.length <= DrainLimit /\ unread' = 0
       \/ reply.framing = "garbled" /\ unread' \in 0..unread

\* A redirect is committed without its body, drains what the server sent
\* with it if the connection is to be kept, and is posted.
Redirect ==
    /\ pc = "redirect"
    /\ reply.kind = "moved"
    /\ IF writer = None THEN UNCHANGED stored ELSE Commit("moved", "none", 0, <<>>)
    /\ writer' = None
    /\ \/ Drained /\ UNCHANGED keepable
       \/ keepable' = FALSE /\ UNCHANGED unread
    /\ Post(Call("redirect"))
    /\ pc' = "return"
    /\ UNCHANGED <<cancelled, clientVars, keyed, entry, pooled, attempts, reply,
                   taken, whole>>

RedirectAstray ==
    /\ pc = "redirect"
    /\ reply.kind = "astray"
    /\ Fail
    /\ keepable' = FALSE
    /\ pc' = "return"
    /\ UNCHANGED <<cancelled, clientVars, cacheVars, entry, pooled, attempts, reply,
                   unread, taken, whole>>

\* The response is posted before the body, but that of an image after it;
\* inflateInit2 may fail before.
Response ==
    /\ pc = "response"
    /\ \/ /\ IF reply.kind = "image" THEN UNCHANGED posted ELSE Post(Call("response"))
          /\ pc' = "body"
          /\ UNCHANGED keepable
       \/ Fail /\ pc' = "return" /\ keepable' = FALSE
    /\ UNCHANGED <<cancelled, clientVars, cacheVars, entry, pooled, attempts, reply,
                   unread, taken, whole>>

\* Mutant: a part the writer refuses is left out of the entry.
RefusedSkipped == writer

WriterOnRefusal == None

\* emitDecoded: an image is buffered; anything else goes to the writer, which
\* is abandoned when it cannot take it, and to the client.
Emit(part) ==
    IF reply.kind = "image"
    THEN UNCHANGED <<writer, posted>>
    ELSE /\ Post(Data(part))
         /\ \/ writer # None /\ writer' = Append(writer, part)
            \/ writer' = WriterOnRefusal

\* The test of _cancelled before a read may be older than what is read, and
\* there is none inside a chunk.
ReadPart ==
    /\ pc = "body"
    /\ taken < reply.length
    /\ unread' = unread - 1
    /\ taken' = taken + 1
    /\ Emit(<<attempts, taken + 1>>)
    /\ UNCHANGED <<pc, cancelled, clientVars, keyed, stored, entry, pooled, attempts,
                   reply, whole, keepable>>

EndBody(result) ==
    /\ whole' = result
    /\ pc' = IF reply.kind = "image" THEN "image" ELSE "store"
    /\ UNCHANGED <<shared, clientVars, cacheVars, entry, pooled, attempts, reply,
                   taken, keepable>>

\* The end that the framing announced.
ReadEnd ==
    /\ pc = "body"
    /\ taken = reply.length
    /\ Announced(reply.framing)
    /\ unread' = 0
    /\ EndBody(TRUE)

\* strtoull makes zero of a line that is no number, which is taken for the size
\* of the last chunk; some of what follows may be taken for the trailer.
ReadGarbled ==
    /\ pc = "body"
    /\ reply.framing = "garbled"
    /\ unread' \in 0..unread
    /\ EndBody(TRUE)

\* Mutant: every end of the connection ends the body.
EndsAnyBody == TRUE

\* Whether the end of the connection ends the body.
EndsBody == reply.framing = "close"

\* The framing has more to come.
Unfinished == unread > 0 \/ reply.framing = "close"

\* A read fails: the server closed, was lost or took too long.
ReadFails ==
    /\ pc = "body"
    /\ Unfinished
    /\ UNCHANGED unread
    /\ EndBody(EndsBody)

\* The load is cancelled...
ReadStops ==
    /\ pc = "body"
    /\ cancelled
    /\ Unfinished
    /\ UNCHANGED unread
    /\ EndBody(FALSE)

\* ...or what was read cannot be decoded.
Undecodable ==
    /\ pc = "body"
    /\ taken > 0
    /\ UNCHANGED unread
    /\ EndBody(FALSE)

\* A buffered image is posted after its body, smaller if it could be
\* transcoded.
ImageResponse ==
    /\ pc = "image"
    /\ Post(Call("response"))
    /\ pc' = "imageData"
    /\ UNCHANGED <<cancelled, clientVars, cacheVars, entry, pooled, attempts, wireVars>>

ImageData ==
    /\ pc = "imageData"
    /\ IF taken > 0 THEN Post(Data(None)) ELSE UNCHANGED posted
    /\ pc' = "store"
    /\ UNCHANGED <<cancelled, clientVars, cacheVars, entry, pooled, attempts, wireVars>>

\* The writer is committed if the body is whole and nobody cancelled.
Store ==
    /\ pc = "store"
    /\ IF writer # None /\ whole /\ ~cancelled
       THEN Commit("page", reply.framing, reply.length, writer)
       ELSE UNCHANGED stored
    /\ writer' = None
    /\ pc' = "end"
    /\ UNCHANGED <<shared, clientVars, keyed, entry, pooled, attempts, wireVars>>

\* Mutant: what ended early is not reported.
EndUnreported == UNCHANGED posted

EndReported == Fail

End ==
    /\ pc = "end"
    /\ IF whole
       THEN Post(Call("finish")) /\ UNCHANGED keepable
       ELSE EndReported /\ keepable' = FALSE
    /\ pc' = "return"
    /\ UNCHANGED <<cancelled, clientVars, cacheVars, entry, pooled, attempts, reply,
                   unread, taken, whole>>

-----------------------------------------------------------------------------
Worker ==
    \/ Miss \/ Validate \/ Hit \/ HitUndeliverable \/ FailAtOnce \/ Replay
    \/ ConnectFails \/ Send \/ Unanswered \/ BadHead \/ Return
    \/ Unmodified \/ Mismatched \/ (\E r \in Replies : ReadHead(r))
    \/ Redirect \/ RedirectAstray \/ Response
    \/ ReadPart \/ ReadEnd \/ ReadGarbled \/ ReadFails \/ ReadStops \/ Undecodable
    \/ ImageResponse \/ ImageData \/ Store \/ End

Next == Worker \/ Handle \/ StopLoading

Spec == Init /\ [][Next]_vars

\* The worker's reads have deadlines, and the client's thread runs its loop.
FairSpec == Spec /\ WF_vars(Worker) /\ WF_vars(Handle)

-----------------------------------------------------------------------------
(* Properties.                                                             *)

\* What the client has been told so far.
Phase ==
    LET calls == {client[i].call : i \in DOMAIN client}
    IN  IF "finish" \in calls THEN "finished"
        ELSE IF "error" \in calls THEN "failed"
        ELSE IF "redirect" \in calls THEN "redirected"
        ELSE IF "response" \in calls THEN "responded" ELSE "started"

\* Where the data is among a sequence of calls.
DataAt(calls) == {i \in DOMAIN calls : calls[i].call = "data"}

phase == Phase
data == Cardinality(DataAt(client))
stopped == cancelled

Load == INSTANCE UrlLoad

\* Whatever the server, the cache and the client's thread do, the calls that
\* the client gets are those of a UrlLoad.
ImplementsUrlLoad == Load!Spec

\* The calls give a response and then the body, every part once and in order.
Carries(calls, body) ==
    /\ calls # <<>>
    /\ calls[1] = Call("response")
    /\ DataAt(calls) = 2..(Len(body) + 1)
    /\ \A n \in DOMAIN body : calls[n + 1] = Data(body[n])

\* "a replay is byte-for-byte the original delivery" (docs/network.md:129):
\* what this load committed is what it posted, no part missing or repeated.
StoredIsDelivered ==
    stored # None /\ stored.of > 0 /\ stored.kind = "page" => Carries(posted, stored.body)

IsWhole(e) == e.body = BodyOf(e.of, e.length)

\* A body cut short is never committed where the framing gives its end.
LengthsCatchTruncation ==
    stored # None /\ Announced(stored.framing) => IsWhole(stored)

\* "writing a partial representation into a slot that reads back as a whole
\* one is the exact failure this file is not allowed to have"
\* (docs/network.md:113).  TLC refutes it for a body that ends with the
\* connection, which a reset ends too, and for one with a garbled chunk size.
CommittedWhole == stored # None => IsWhole(stored)

\* A connection goes back to the pool only when the response on it has been
\* read to its end, so the next response starts with its own first byte; unless
\* its chunks were garbled.
ReturnedAtEnd ==
    pc = "done" /\ keepable => unread = 0 \/ reply.framing = "garbled"

\* A load that is not stopped ends, and its client hears how.
EveryLoadEnds == <>(cancelled \/ Phase \in {"finished", "failed", "redirected"})
=============================================================================
