------------------------------ MODULE HttpCache ------------------------------
(***************************************************************************)
(* What the disk cache may answer (app/ModernTLSURLProtocol.m: entryAge,   *)
(* entryFreshnessLifetime, verdictForEntry, responseIsStorable,            *)
(* selectingHeaders, mergeStoredHeaders, invalidateCacheForRequest and     *)
(* the parts of answerFromCache and exchangeOn that call them).            *)
(*                                                                         *)
(* Workers load one resource, whose representation changes at its origin;  *)
(* replies are delayed, and a proxy may answer with what it got before.    *)
(* Header fields are kept as what they say: a date is a number on the      *)
(* origin's clock, Cache-Control a record.  A file is CacheStore's         *)
(* subject: here an entry is replaced by one step.                         *)
(***************************************************************************)
EXTENDS Integers, Sequences, FiniteSets

CONSTANTS
    Workers,
    Values,     \* what a request may send in the field that Vary names
    None,       \* no entry, field or directive
    Asks,       \* the requests that are made
    Profiles,   \* how an origin may set its header fields
    Skews,      \* the origin's clock minus ours
    Divisor,    \* 1 / kHeuristicFraction
    Ceiling,    \* kHeuristicCeiling
    MaxChanges, \* bound: changes at the origin
    Horizon     \* bound: our clock

Policies == {"protocol", "revalidate", "reload", "elseLoad", "dontLoad"}

\* What a request says.  Requests that keep out of the cache (no-store, a Range,
\* conditions of their own) are not modelled.
Request == [policy : Policies, noCache : BOOLEAN, maxAge : Nat \cup {None}]

Profile == [maxAge : Nat \cup {None}, expiresIn : Int \cup {None}, noCache : BOOLEAN,
            noStore : BOOLEAN, tagged : BOOLEAN, dated : BOOLEAN, modified : BOOLEAN,
            varies : BOOLEAN]

ASSUME ConstantsAssumption ==
    /\ None \notin Values /\ None \notin Int
    /\ Asks \subseteq Request
    /\ Profiles \subseteq Profile
    /\ \A p \in Profiles : p.expiresIn # None => p.dated
    /\ Skews \subseteq Int
    /\ Divisor \in Nat \ {0} /\ Ceiling \in Nat
    /\ MaxChanges \in Nat /\ Horizon \in Nat

VARIABLES
    now,       \* nowSeconds()
    skew,      \* the origin's clock minus ours
    origin,    \* what it had from when on, on our clock: the last is current
    entry,     \* the stored response
    pc,        \* where each worker is
    value,     \* the value that request sends in the varying field, or None
    requested, \* its _requestTime
    base,      \* its _validating
    writer     \* the entry its _writer will commit

worldVars == <<now, skew, origin>>
jobVars == <<value, requested>>
vars == <<worldVars, entry, pc, jobVars, base, writer>>

Greater(m, n) == IF m > n THEN m ELSE n
Smaller(m, n) == IF m < n THEN m ELSE n

-----------------------------------------------------------------------------
(* Header fields.                                                          *)

\* The fields of a reply made at time m by an origin in state o.
HeadOf(o, m, age) ==
    [control  |-> [maxAge |-> o.profile.maxAge, noCache |-> o.profile.noCache,
                   noStore |-> o.profile.noStore],
     expires  |-> IF o.profile.expiresIn = None THEN None
                  ELSE m + skew + o.profile.expiresIn,
     date     |-> IF o.profile.dated THEN m + skew ELSE None,
     modified |-> IF o.profile.modified THEN o.since + skew ELSE None,
     tag      |-> IF o.profile.tagged THEN o.of ELSE None,
     varies   |-> o.profile.varies,
     age      |-> age]

NoControl == [maxAge |-> None, noCache |-> FALSE, noStore |-> FALSE]

\* A field is replaced if the new head has it.
Replaced(old, new) == IF new = None THEN old ELSE new

\* mergeStoredHeaders
Merged(old, new) ==
    [control  |-> IF new.control = NoControl THEN old.control ELSE new.control,
     expires  |-> Replaced(old.expires, new.expires),
     date     |-> Replaced(old.date, new.date),
     modified |-> Replaced(old.modified, new.modified),
     tag      |-> Replaced(old.tag, new.tag),
     varies   |-> old.varies \/ new.varies,
     age      |-> Replaced(old.age, new.age)]

\* selectingHeaders; a field that the request does not send becomes a NSNull.
Selecting(head, v) == IF head.varies THEN {v} ELSE {}

\* selectingHeadersMatch
SelectingMatch(e, v) == \A stored \in e.selecting : stored = v

\* -initForKey:metadata: cannot encode a NSNull.
Encodable(e) == None \notin e.selecting

-----------------------------------------------------------------------------
(* Freshness.                                                              *)

DateValue(e) == IF e.head.date = None THEN e.received ELSE e.head.date

Apparent(e) == Greater(0, e.received - DateValue(e))

\* Mutant: the time the reply was under way is forgotten.
CorrectedAtReceipt(e) == IF e.head.age = None THEN 0 ELSE e.head.age

Corrected(e) ==
    (IF e.head.age = None THEN 0 ELSE e.head.age) + (e.received - e.requested)

\* entryAge
Age(e) == Greater(Apparent(e), Corrected(e)) + Greater(0, now - e.received)

\* entryFreshnessLifetime
Heuristic(e) ==
    IF e.head.modified # None /\ e.head.date # None /\ e.head.date > e.head.modified
    THEN Smaller(Ceiling, (e.head.date - e.head.modified) \div Divisor)
    ELSE 0

FreshnessLifetime(e) ==
    IF e.head.control.maxAge # None THEN e.head.control.maxAge
    ELSE IF e.head.expires # None THEN Greater(0, e.head.expires - DateValue(e))
    ELSE Heuristic(e)

HasValidator(e) == e.head.tag # None \/ e.head.modified # None

\* The lifetime that the request's own max-age may shorten.
Allowed(e, a) ==
    IF a.maxAge = None THEN FreshnessLifetime(e)
    ELSE Smaller(a.maxAge, FreshnessLifetime(e))

\* verdictForEntry
Fresh(e, a) ==
    /\ ~e.head.control.noCache
    /\ ~a.noCache
    /\ Age(e) < Allowed(e, a)

Verdict(e, a) ==
    IF Fresh(e, a) THEN "fresh" ELSE IF HasValidator(e) THEN "validate" ELSE "unusable"

-----------------------------------------------------------------------------
(* The lifetime that an origin in state o gives what it makes at time m.    *)
Assigned(o, m) ==
    IF o.profile.maxAge # None THEN o.profile.maxAge
    ELSE IF o.profile.expiresIn # None THEN Greater(0, o.profile.expiresIn)
    ELSE IF o.profile.modified /\ o.profile.dated
    THEN Smaller(Ceiling, (m - o.since) \div Divisor)
    ELSE 0

Current == origin[Len(origin)]

\* When the origin was in its i-th state.
During(i) == origin[i].at..(IF i = Len(origin) THEN now ELSE origin[i + 1].at)

\* Replies that are stored by default, or if they say for how long, or never
\* (a 206, or with "Vary: *"); of the first two, those with a status of failure.
Default == {"whole", "missing"}
Failed == {"missing", "error"}
Kinds == Default \cup Failed \cup {"temporary", "partial"}

\* How a reply to worker w may come about: made in one of the origin's states.
\* A proxy sent it while the request was under way and says how old it was; what
\* the origin made meanwhile needs no Age.
Makings(w) ==
    {t \in [state : DOMAIN origin, at : 0..now, age : 0..now \cup {None}] :
        /\ t.at \in During(t.state)
        /\ IF t.age = None THEN t.at >= requested[w] ELSE t.at + t.age \in requested[w]..now}

Reply(kind, t) ==
    [kind |-> kind, of |-> origin[t.state].of, made |-> t.at,
     lifetime |-> Assigned(origin[t.state], t.at),
     head |-> HeadOf(origin[t.state], t.at, t.age)]

Replies(w) ==
    {Reply(kind, t) : kind \in Kinds \cup {"unmodified"}, t \in Makings(w)}

InFlight == {"ready", "sent", "storing"}

EntryOK(e) ==
    /\ e.of \in 1..Current.of /\ e.made \in 0..now
    /\ e.requested \in 0..now /\ e.received \in e.requested..now
    /\ None \notin e.selecting

TypeOK ==
    /\ now \in 0..Horizon
    /\ skew \in Skews
    /\ \A i \in DOMAIN origin :
          /\ origin[i].profile \in Profile
          /\ origin[i].since \in 0..origin[i].at /\ origin[i].at \in 0..now
    /\ pc \in [Workers -> {"idle", "served"} \cup InFlight]
    /\ value \in [Workers -> Values \cup {None}]
    /\ requested \in [Workers -> 0..now]
    /\ \A e \in ({entry} \cup {base[w] : w \in Workers} \cup {writer[w] : w \in Workers})
                \ {None} : EntryOK(e)

Init ==
    /\ now = 0
    /\ skew \in Skews
    /\ \E p \in Profiles : origin = <<[of |-> 1, since |-> 0, at |-> 0, profile |-> p]>>
    /\ entry = None
    /\ pc = [w \in Workers |-> "idle"]
    /\ value = [w \in Workers |-> None]
    /\ requested = [w \in Workers |-> 0]
    /\ base = [w \in Workers |-> None]
    /\ writer = [w \in Workers |-> None]

Goto(w, state) == pc' = [pc EXCEPT ![w] = state]

-----------------------------------------------------------------------------
(* answerFromCache.                                                        *)

Found(a, v) ==
    /\ a.policy # "reload"
    /\ entry # None
    /\ SelectingMatch(entry, v)

\* The entry answers the request.
Answers(a, v) ==
    /\ Found(a, v)
    /\ \/ a.policy \in {"elseLoad", "dontLoad"}
       \/ a.policy = "protocol" /\ Verdict(entry, a) = "fresh"

\* NSURLRequestReturnCacheDataDontLoad may not go to the network.
MayLoad(a) == a.policy # "dontLoad"

Validates(a, v) ==
    /\ Found(a, v)
    /\ \/ Verdict(entry, a) = "validate"
       \/ Verdict(entry, a) = "fresh" /\ a.policy = "revalidate"

Serve(w, a, v) ==
    /\ pc[w] = "idle"
    /\ Answers(a, v) \/ ~MayLoad(a)
    /\ Goto(w, "served")
    /\ UNCHANGED <<worldVars, entry, jobVars, base, writer>>

\* deliverEntry cannot make a response of the entry, which is removed.
ServeFails(w, a, v) ==
    /\ pc[w] = "idle"
    /\ Answers(a, v)
    /\ entry' = None
    /\ Goto(w, IF MayLoad(a) THEN "ready" ELSE "served")
    /\ value' = [value EXCEPT ![w] = v]
    /\ UNCHANGED <<worldVars, requested, base, writer>>

Load(w, a, v) ==
    /\ pc[w] = "idle"
    /\ ~Answers(a, v)
    /\ MayLoad(a)
    /\ base' = [base EXCEPT ![w] = IF Validates(a, v) THEN entry ELSE None]
    /\ Goto(w, "ready")
    /\ value' = [value EXCEPT ![w] = v]
    /\ UNCHANGED <<worldVars, entry, requested, writer>>

-----------------------------------------------------------------------------
(* The exchange.                                                           *)

Send(w) ==
    /\ pc[w] = "ready"
    /\ requested' = [requested EXCEPT ![w] = now]
    /\ Goto(w, "sent")
    /\ UNCHANGED <<worldVars, entry, value, base, writer>>

\* What the request said, and the entry it validates, are read no more.
Forget(w) ==
    /\ value' = [value EXCEPT ![w] = None]
    /\ requested' = [requested EXCEPT ![w] = 0]
    /\ base' = [base EXCEPT ![w] = None]

\* The load ends.
Leave(w) ==
    /\ Goto(w, "idle")
    /\ Forget(w)
    /\ writer' = [writer EXCEPT ![w] = None]

\* The exchange fails, or was served.
Finish(w) ==
    /\ pc[w] # "idle"
    /\ Leave(w)
    /\ UNCHANGED <<worldVars, entry>>

\* Mutant: tags are not compared.
NeverMismatched(e, r) == FALSE

\* A 304 for another tag.
Mismatched(e, r) == e.head.tag # None /\ r.head.tag # None /\ e.head.tag # r.head.tag

\* A 304 answers the validators that the request was sent with: it goes with the
\* stored representation, or it carries a tag to tell.
Confirms(w, r) ==
    /\ pc[w] = "sent"
    /\ r.kind = "unmodified"
    /\ base[w] # None
    /\ HasValidator(base[w])
    /\ base[w].of = r.of \/ (base[w].head.tag # None /\ r.head.tag # None)

\* A 304 for another tag, or for an entry that deliverEntry cannot deliver: it
\* is removed and the request goes out again without validators.
ReceiveMismatch(w) ==
    /\ \E r \in Replies(w) : Confirms(w, r)
    /\ entry' = None
    /\ base' = [base EXCEPT ![w] = None]
    /\ Goto(w, "ready")
    /\ UNCHANGED <<worldVars, jobVars, writer>>

\* mergeStoredHeaders, and the rewrite that follows the delivery.
ReceiveConfirmation(w) ==
    /\ \E r \in Replies(w) :
          /\ Confirms(w, r)
          /\ ~Mismatched(base[w], r)
          /\ writer' = [writer EXCEPT ![w] =
                [base[w] EXCEPT !.head = Merged(@, r.head),
                                !.requested = requested[w], !.received = now,
                                !.made = r.made, !.lifetime = r.lifetime]]
    /\ Forget(w)
    /\ Goto(w, "storing")
    /\ UNCHANGED <<worldVars, entry>>

\* responseIsStorable; `public' and `private', which allow it too, are left out.
Explicit(head) == head.control.maxAge # None \/ head.expires # None

Storable(r) ==
    /\ r.kind # "partial"
    /\ ~r.head.control.noStore
    /\ r.kind \in Default \/ Explicit(r.head)

\* The entry that the writer is begun with.
Received(w, r) ==
    [of |-> r.of, made |-> r.made, lifetime |-> r.lifetime, head |-> r.head,
     selecting |-> Selecting(r.head, value[w]),
     requested |-> requested[w], received |-> now]

ReceiveReply(w) ==
    /\ pc[w] = "sent"
    /\ \E r \in Replies(w) :
          /\ r.kind # "unmodified"
          /\ entry' = IF ~Storable(r) /\ r.kind \notin Failed THEN None ELSE entry
          /\ LET e == Received(w, r)
             IN  writer' = [writer EXCEPT ![w] =
                    IF Storable(r) /\ Encodable(e) THEN e ELSE None]
    /\ Forget(w)
    /\ Goto(w, "storing")
    /\ UNCHANGED worldVars

\* The body has arrived whole.
Commit(w) ==
    /\ pc[w] = "storing"
    /\ writer[w] # None
    /\ entry' = writer[w]
    /\ Leave(w)
    /\ UNCHANGED worldVars

-----------------------------------------------------------------------------
(* The world.                                                              *)

\* The sweeper, or invalidateCacheForRequest: an unsafe request for this URL, or
\* for another one whose reply names it in a Location field, has not failed.
Evict ==
    /\ entry # None
    /\ entry' = None
    /\ UNCHANGED <<worldVars, pc, jobVars, base, writer>>

\* What the origin may go over to: a new representation, or the same one with
\* or without a Vary field.  The other fields stay as its profile has them.
NewStates ==
    {[Current EXCEPT !.of = @ + 1, !.since = now, !.at = now],
     [Current EXCEPT !.at = now, !.profile.varies = ~@]}

Publish ==
    /\ Len(origin) <= MaxChanges
    /\ \E o \in NewStates : origin' = Append(origin, o)
    /\ UNCHANGED <<now, skew, entry, pc, jobVars, base, writer>>

Tick ==
    /\ now < Horizon
    /\ now' = now + 1
    /\ UNCHANGED <<skew, origin, entry, pc, jobVars, base, writer>>

Answer(w) ==
    \E a \in Asks, v \in Values \cup {None} :
        Serve(w, a, v) \/ ServeFails(w, a, v) \/ Load(w, a, v)

Exchange(w) ==
    \/ Send(w) \/ Finish(w)
    \/ ReceiveMismatch(w) \/ ReceiveConfirmation(w)
    \/ ReceiveReply(w) \/ Commit(w)

Next ==
    \/ \E w \in Workers : Answer(w) \/ Exchange(w)
    \/ Evict \/ Publish \/ Tick

Spec == Init /\ [][Next]_vars

-----------------------------------------------------------------------------
(* Properties.                                                             *)

\* "Stale responses are never served" (docs/network.md:105): an entry taken
\* for fresh is younger than its origin, and than the request, allows, though
\* clocks differ, replies are delayed and proxies answer with old ones.
FreshMeansFresh ==
    entry # None =>
        \A a \in Asks : Verdict(entry, a) = "fresh" =>
            /\ now - entry.made < entry.lifetime
            /\ a.maxAge # None => now - entry.made < a.maxAge

\* An entry is the representation that the origin had when it made, or last
\* confirmed, it: a 304 never gives new life to another body.
ConfirmedAsMade ==
    entry # None =>
        \E i \in DOMAIN origin : entry.made \in During(i) /\ entry.of = origin[i].of

-----------------------------------------------------------------------------
(* Statements of the documentation that TLC refutes.                       *)

\* An entry that varies is found by requests that send one value ("treats a
\* mismatch as a miss", docs/network.md:126).  A 304 may bring a Vary field to
\* an entry whose selecting values were recorded without one: then every
\* request finds it.
RightVariant ==
    entry # None /\ entry.head.varies =>
        \A u, v \in Values \cup {None} :
            SelectingMatch(entry, u) /\ SelectingMatch(entry, v) => u = v
=============================================================================
