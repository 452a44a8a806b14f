--------------------------- MODULE HttpCache_proofs ---------------------------
(***************************************************************************)
(* For every set of workers, requests and origins: what the cache takes    *)
(* for fresh is fresh, and a 304 never gives new life to another body.     *)
(***************************************************************************)
EXTENDS HttpCache, TLAPS

-----------------------------------------------------------------------------
(* The inductive invariant: every entry, stored or held, says of itself    *)
(* what some state of the origin made it say.                              *)

State == [of : Nat, since : Nat, at : Nat, profile : Profile]

\* Profiles that may differ in Vary alone.
SameRules(p, q) ==
    /\ p.maxAge = q.maxAge /\ p.expiresIn = q.expiresIn
    /\ p.noCache = q.noCache /\ p.noStore = q.noStore
    /\ p.tagged = q.tagged /\ p.dated = q.dated /\ p.modified = q.modified

\* The origin's log: times grow, a representation keeps its date, and only
\* Vary comes or goes.
OriginInv ==
    /\ now \in Nat
    /\ skew \in Int
    /\ origin \in Seq(State) /\ origin # <<>>
    /\ \A i \in DOMAIN origin :
          /\ origin[i].since <= origin[i].at /\ origin[i].at <= now
          /\ origin[i].of <= Current.of
          /\ SameRules(origin[i].profile, origin[1].profile)
          /\ origin[i].profile.expiresIn # None => origin[i].profile.dated
    /\ \A i, j \in DOMAIN origin :
          origin[i].of = origin[j].of => origin[i].since = origin[j].since

Times(e) ==
    /\ e.requested \in Nat /\ e.received \in Nat /\ e.made \in Nat
    /\ e.requested <= e.received /\ e.made <= e.received /\ e.received <= now

\* Head h says what an origin in state o says of what it makes at time m, as
\* far as freshness and validation depend on it.
HeadAs(h, o, m) ==
    /\ h.control = HeadOf(o, m, None).control
    /\ h.expires = HeadOf(o, m, None).expires
    /\ h.date = HeadOf(o, m, None).date
    /\ h.modified = HeadOf(o, m, None).modified
    /\ h.tag = HeadOf(o, m, None).tag
    /\ h.age \in Nat \cup {None}

\* Reply or entry e was made, or last confirmed, in the i-th state.
MadeIn(e, i) ==
    /\ e.of = origin[i].of
    /\ e.made \in During(i)
    /\ e.lifetime = Assigned(origin[i], e.made)
    /\ HeadAs(e.head, origin[i], e.made)

EntryFields == {"of", "made", "lifetime", "head", "selecting", "requested",
                "received"}

EntryInv(e) ==
    /\ DOMAIN e = EntryFields
    /\ Times(e)
    /\ Corrected(e) >= e.received - e.made
    /\ \E i \in DOMAIN origin : MadeIn(e, i)

Held == ({entry} \cup {base[w] : w \in Workers} \cup {writer[w] : w \in Workers}) \ {None}

PlacesInv ==
    /\ requested \in [Workers -> Nat]
    /\ \A w \in Workers : requested[w] <= now
    /\ DOMAIN base = Workers
    /\ DOMAIN writer = Workers

IInv == OriginInv /\ PlacesInv /\ \A e \in Held : EntryInv(e)

\* What the log is made of.
LEMMA LogTyped ==
    ASSUME OriginInv, NEW i \in DOMAIN origin
    PROVE  /\ origin[i] \in State
           /\ origin[i].of \in Nat /\ origin[i].since \in Nat /\ origin[i].at \in Nat
           /\ origin[i].profile \in Profile
<1>1. origin[i] \in State
    BY DEF OriginInv
<1> QED BY <1>1 DEF State

-----------------------------------------------------------------------------
(* Replies.                                                                *)

\* What age a head gives itself.
Stated(h) == IF h.age = None THEN 0 ELSE h.age

\* A reply was made in some state of the origin, and its Age with the time the
\* request was under way covers how old it is.
LEMMA ReplyMade ==
    ASSUME OriginInv, NEW w \in Workers, requested[w] \in Nat, requested[w] <= now,
           NEW r \in Replies(w)
    PROVE  /\ r.made \in Nat /\ r.made <= now
           /\ \E i \in DOMAIN origin : MadeIn(r, i)
           /\ Stated(r.head) + (now - requested[w]) >= now - r.made
           /\ r.head.age = None => r.made >= requested[w]
<1>1. PICK kind \in Kinds \cup {"unmodified"}, t \in Makings(w) : r = Reply(kind, t)
    BY DEF Replies
<1>2. /\ t.state \in DOMAIN origin /\ t.at \in 0..now /\ t.age \in 0..now \cup {None}
      /\ t.at \in During(t.state)
      /\ IF t.age = None THEN t.at >= requested[w] ELSE t.at + t.age \in requested[w]..now
    BY <1>1 DEF Makings
<1>3. /\ r.of = origin[t.state].of /\ r.made = t.at
      /\ r.lifetime = Assigned(origin[t.state], t.at)
      /\ r.head = HeadOf(origin[t.state], t.at, t.age)
    BY <1>1 DEF Reply
<1>4. r.head.age = t.age
    BY <1>3 DEF HeadOf
<1>5. MadeIn(r, t.state)
    <2>1. HeadAs(r.head, origin[t.state], r.made)
        BY <1>2, <1>3 DEF HeadAs, HeadOf, OriginInv
    <2> QED BY <2>1, <1>2, <1>3 DEF MadeIn
<1>6. Stated(r.head) + (now - requested[w]) >= now - r.made
    BY <1>2, <1>3, <1>4, ConstantsAssumption DEF Stated, OriginInv
<1> QED BY <1>2, <1>3, <1>4, <1>5, <1>6 DEF OriginInv

\* responseIsStorable and the metadata: what is begun for a whole reply.
LEMMA ReceivedInv ==
    ASSUME OriginInv, NEW w \in Workers, requested[w] \in Nat, requested[w] <= now,
           NEW r \in Replies(w)
    PROVE  EntryInv(Received(w, r))
<1> DEFINE e == Received(w, r)
<1>1. /\ DOMAIN e = EntryFields
      /\ e.of = r.of /\ e.made = r.made /\ e.lifetime = r.lifetime /\ e.head = r.head
      /\ e.requested = requested[w] /\ e.received = now
    BY DEF Received, EntryFields
<1>2. Times(e)
    BY <1>1, ReplyMade DEF Times, OriginInv
<1>3. Corrected(e) >= e.received - e.made
    BY <1>1, ReplyMade DEF Corrected, Stated
<1>4. \E i \in DOMAIN origin : MadeIn(e, i)
    BY <1>1, ReplyMade DEF MadeIn
<1> HIDE DEF e
<1>5. EntryInv(e)
    BY <1>1, <1>2, <1>3, <1>4 DEF EntryInv
<1> QED BY <1>5 DEF e

\* The entry that a 304 leaves of the one it confirms.
Refreshed(w, r) ==
    [base[w] EXCEPT !.head = Merged(@, r.head),
                    !.requested = requested[w], !.received = now,
                    !.made = r.made, !.lifetime = r.lifetime]

\* A 304 that is not mismatched goes with the stored representation.
LEMMA ConfirmsSame ==
    ASSUME NEW w, NEW r, NEW i \in DOMAIN origin, NEW j \in DOMAIN origin,
           MadeIn(base[w], i), MadeIn(r, j), Confirms(w, r), ~Mismatched(base[w], r)
    PROVE  base[w].of = r.of
<1>1. base[w].head.tag = (IF origin[i].profile.tagged THEN base[w].of ELSE None)
    BY DEF MadeIn, HeadAs, HeadOf
<1>2. r.head.tag = (IF origin[j].profile.tagged THEN r.of ELSE None)
    BY DEF MadeIn, HeadAs, HeadOf
<1> QED BY <1>1, <1>2 DEF Confirms, Mismatched

\* What mergeStoredHeaders leaves is what the reply says of the representation.
LEMMA MergedAs ==
    ASSUME OriginInv, NEW i \in DOMAIN origin, NEW j \in DOMAIN origin,
           NEW h, NEW g, NEW m \in Nat, NEW n \in Nat,
           HeadAs(h, origin[i], m), HeadAs(g, origin[j], n),
           origin[i].of = origin[j].of
    PROVE  HeadAs(Merged(h, g), origin[j], n)
<1> DEFINE p == origin[i].profile
           q == origin[j].profile
<1>1. /\ SameRules(p, q) /\ origin[i].since = origin[j].since
      /\ origin[i] \in State /\ origin[j] \in State
    BY DEF OriginInv, SameRules
<1>2. /\ p \in Profile /\ q \in Profile
      /\ origin[j].since \in Nat /\ origin[j].of \in Nat
    BY <1>1 DEF State
<1>3. Merged(h, g).control = HeadOf(origin[j], n, None).control
    BY <1>1 DEF HeadAs, HeadOf, Merged, SameRules
<1>4. Merged(h, g).expires = HeadOf(origin[j], n, None).expires
    <2>1. CASE q.expiresIn = None
        BY <2>1, <1>1 DEF HeadAs, HeadOf, Merged, Replaced, SameRules
    <2>2. CASE q.expiresIn # None
        <3>1. n + skew + q.expiresIn # None
            BY <2>2, <1>2, ConstantsAssumption DEF Profile, OriginInv
        <3> QED BY <2>2, <3>1 DEF HeadAs, HeadOf, Merged, Replaced
    <2> QED BY <2>1, <2>2
<1>5. Merged(h, g).date = HeadOf(origin[j], n, None).date
    <2>1. n + skew # None
        BY ConstantsAssumption DEF OriginInv
    <2> QED BY <2>1, <1>1 DEF HeadAs, HeadOf, Merged, Replaced, SameRules
<1>6. Merged(h, g).modified = HeadOf(origin[j], n, None).modified
    BY <1>1 DEF HeadAs, HeadOf, Merged, Replaced, SameRules
<1>7. Merged(h, g).tag = HeadOf(origin[j], n, None).tag
    BY <1>1 DEF HeadAs, HeadOf, Merged, Replaced, SameRules
<1>8. Merged(h, g).age \in Nat \cup {None}
    BY DEF HeadAs, Merged, Replaced
<1> QED BY <1>3, <1>4, <1>5, <1>6, <1>7, <1>8 DEF HeadAs

\* The revalidation path: merge, new times, rewrite.
LEMMA RefreshedInv ==
    ASSUME OriginInv, NEW w \in Workers, requested[w] \in Nat, requested[w] <= now,
           NEW r \in Replies(w), EntryInv(base[w]),
           Confirms(w, r), ~Mismatched(base[w], r)
    PROVE  EntryInv(Refreshed(w, r))
<1> DEFINE e == Refreshed(w, r)
<1>1. /\ DOMAIN e = EntryFields
      /\ e.of = base[w].of /\ e.made = r.made /\ e.lifetime = r.lifetime
      /\ e.head = Merged(base[w].head, r.head)
      /\ e.requested = requested[w] /\ e.received = now
    BY DEF Refreshed, EntryInv, EntryFields
<1> HIDE DEF e
<1>2. PICK i \in DOMAIN origin : MadeIn(base[w], i)
    BY DEF EntryInv
<1>3. PICK j \in DOMAIN origin : MadeIn(r, j)
    BY ReplyMade
<1>4. base[w].of = r.of
    BY <1>2, <1>3, ConfirmsSame
<1>5. Times(e)
    BY <1>1, ReplyMade DEF Times, OriginInv
<1>6. HeadAs(e.head, origin[j], e.made)
    <2>1. base[w].made \in Nat /\ r.made \in Nat
        BY ReplyMade DEF EntryInv, Times
    <2>2. origin[i].of = origin[j].of
        BY <1>2, <1>3, <1>4 DEF MadeIn
    <2> QED BY <1>1, <1>2, <1>3, <2>1, <2>2, MergedAs DEF MadeIn
<1>7. MadeIn(e, j)
    BY <1>1, <1>3, <1>4, <1>6 DEF MadeIn
<1>8. Corrected(e) >= e.received - e.made
    <2>1. e.head.age = Replaced(base[w].head.age, r.head.age)
        BY <1>1 DEF Merged
    <2>2. base[w].head.age \in Nat \cup {None} /\ r.head.age \in Nat \cup {None}
        BY <1>2, <1>3 DEF MadeIn, HeadAs
    <2>3. CASE r.head.age = None
        <3>1. r.made >= requested[w] /\ r.made \in Nat
            BY <2>3, ReplyMade
        <3>2. e.head.age \in Nat \cup {None}
            BY <2>1, <2>2, <2>3 DEF Replaced
        <3>3. now \in Nat
            BY DEF OriginInv
        <3> QED BY <3>1, <3>2, <3>3, <1>1, ConstantsAssumption DEF Corrected
    <2>4. CASE r.head.age # None
        BY <2>1, <2>2, <2>4, <1>1, ReplyMade DEF Corrected, Replaced, Stated, OriginInv
    <2> QED BY <2>3, <2>4
<1>9. EntryInv(e)
    BY <1>1, <1>5, <1>7, <1>8 DEF EntryInv
<1> QED BY <1>9 DEF e

-----------------------------------------------------------------------------
(* Freshness.                                                              *)

\* entryFreshnessLifetime finds the lifetime that the origin assigned.
LEMMA LifetimeAsAssigned ==
    ASSUME OriginInv, NEW e, NEW i \in DOMAIN origin, Times(e), MadeIn(e, i)
    PROVE  FreshnessLifetime(e) = e.lifetime /\ e.lifetime \in Int
<1> DEFINE o == origin[i]
           p == o.profile
           h == e.head
<1>1. /\ o \in State /\ p \in Profile /\ o.since \in Nat /\ o.at \in Nat
      /\ o.since <= o.at /\ (p.expiresIn # None => p.dated)
    <2>1. o \in State
        BY DEF OriginInv
    <2>2. o.since <= o.at /\ (p.expiresIn # None => p.dated)
        BY DEF OriginInv
    <2> QED BY <2>1, <2>2 DEF State
<1>2. /\ e.made \in Nat /\ skew \in Int /\ e.received \in Nat /\ o.since <= e.made
    <2>1. e.made >= o.at
        BY DEF MadeIn, During
    <2> QED BY <1>1, <2>1 DEF Times, OriginInv
<1>3. /\ h.control.maxAge = p.maxAge
      /\ h.expires = (IF p.expiresIn = None THEN None ELSE e.made + skew + p.expiresIn)
      /\ h.date = (IF p.dated THEN e.made + skew ELSE None)
      /\ h.modified = (IF p.modified THEN o.since + skew ELSE None)
    BY DEF MadeIn, HeadAs, HeadOf
<1>4. e.made + skew # None /\ o.since + skew # None
    BY <1>1, <1>2, ConstantsAssumption
<1>5. e.lifetime = Assigned(o, e.made)
    BY DEF MadeIn
<1> HIDE DEF o, p, h
<1>6. CASE p.maxAge # None
    BY <1>1, <1>3, <1>5, <1>6 DEF FreshnessLifetime, Assigned, Profile, o, p, h
<1>7. CASE p.maxAge = None /\ p.expiresIn # None
    <2>1. p.expiresIn \in Int /\ p.dated
        BY <1>1, <1>7 DEF Profile
    <2>2. h.expires = e.made + skew + p.expiresIn /\ h.expires # None
        BY <2>1, <1>2, <1>3, <1>7, ConstantsAssumption
    <2>3. DateValue(e) = e.made + skew
        BY <2>1, <1>3, <1>4 DEF DateValue, h
    <2>4. h.expires - DateValue(e) = p.expiresIn
        BY <2>1, <2>2, <2>3, <1>2
    <2> QED BY <2>1, <2>2, <2>4, <1>3, <1>5, <1>7
            DEF FreshnessLifetime, Assigned, Greater, o, p, h
<1>8. CASE p.maxAge = None /\ p.expiresIn = None
    <2>1. FreshnessLifetime(e) = Heuristic(e)
        BY <1>3, <1>8 DEF FreshnessLifetime, h
    <2>2. CASE ~(p.modified /\ p.dated)
        BY <2>1, <2>2, <1>3, <1>5, <1>8 DEF Heuristic, Assigned, h, o, p
    <2>3. CASE p.modified /\ p.dated
        <3>1. h.modified = o.since + skew /\ h.date = e.made + skew
            BY <1>3, <2>3
        <3>2. h.date - h.modified = e.made - o.since
            BY <3>1, <1>1, <1>2
        <3>3. (e.made - o.since) \div Divisor \in Int
            BY <1>1, <1>2, ConstantsAssumption
        <3>4. CASE e.made > o.since
            BY <2>1, <2>3, <3>1, <3>2, <3>3, <3>4, <1>1, <1>2, <1>4, <1>5, <1>8,
               ConstantsAssumption
            DEF Heuristic, Assigned, Smaller, h, o, p
        <3>5. CASE e.made = o.since
            <4>1. (e.made - o.since) \div Divisor = 0
                BY <3>5, <1>1, <1>2, ConstantsAssumption
            <4>2. Heuristic(e) = 0
                BY <3>1, <3>5, <1>1, <1>2 DEF Heuristic, h
            <4> QED BY <2>1, <2>3, <4>1, <4>2, <1>5, <1>8, ConstantsAssumption
                    DEF Assigned, Smaller, o, p
        <3> QED BY <3>4, <3>5, <1>1, <1>2
    <2> QED BY <2>2, <2>3
<1> QED BY <1>6, <1>7, <1>8 DEF h

\* entryAge is never less than how old the representation is.
LEMMA AgeCovers ==
    ASSUME now \in Nat, skew \in Int, NEW e, NEW i \in DOMAIN origin, MadeIn(e, i),
           Times(e), Corrected(e) >= e.received - e.made
    PROVE  Age(e) \in Int /\ Age(e) >= now - e.made
<1>1. e.head.date \in Int \cup {None} /\ e.head.age \in Nat \cup {None}
    BY DEF MadeIn, HeadAs, HeadOf, Times
<1>2. Corrected(e) \in Int
    BY <1>1, ConstantsAssumption DEF Corrected, Times
<1>3. DateValue(e) \in Int
    BY <1>1 DEF DateValue, Times
<1>4. Apparent(e) \in Int
    BY <1>3 DEF Apparent, Greater, Times
<1> QED BY <1>2, <1>4 DEF Age, Greater, Times

\* verdictForEntry
LEMMA FreshIsFresh ==
    ASSUME OriginInv, NEW e, EntryInv(e), NEW a \in Request, Verdict(e, a) = "fresh"
    PROVE  /\ now - e.made < e.lifetime
           /\ a.maxAge # None => now - e.made < a.maxAge
<1>1. PICK i \in DOMAIN origin : MadeIn(e, i)
    BY DEF EntryInv
<1>2. FreshnessLifetime(e) = e.lifetime /\ e.lifetime \in Int
    BY <1>1, LifetimeAsAssigned DEF EntryInv
<1>3. Age(e) \in Int /\ Age(e) >= now - e.made
    BY <1>1, AgeCovers DEF EntryInv, OriginInv
<1>4. Age(e) < Allowed(e, a)
    BY DEF Verdict, Fresh
<1>5. now - e.made \in Int
    BY DEF EntryInv, Times, OriginInv
<1> QED BY <1>2, <1>3, <1>4, <1>5, ConstantsAssumption DEF Allowed, Smaller, Request

-----------------------------------------------------------------------------
(* The invariant is kept.                                                  *)

LEMMA InitInv == Init => IInv
<1> SUFFICES ASSUME Init PROVE IInv
    OBVIOUS
<1>1. PICK p \in Profiles : origin = <<[of |-> 1, since |-> 0, at |-> 0, profile |-> p]>>
    BY DEF Init
<1>2. [of |-> 1, since |-> 0, at |-> 0, profile |-> p] \in State
    BY ConstantsAssumption DEF State
<1>3. origin \in Seq(State) /\ Len(origin) = 1 /\ origin # <<>> /\ DOMAIN origin = {1}
    BY <1>1, <1>2
<1>4. Current = [of |-> 1, since |-> 0, at |-> 0, profile |-> p]
    BY <1>1 DEF Current
<1>5. OriginInv
    BY <1>1, <1>3, <1>4, ConstantsAssumption DEF OriginInv, Init, SameRules
<1>6. PlacesInv
    BY DEF PlacesInv, Init
<1>7. Held = {}
    BY DEF Held, Init
<1> QED BY <1>5, <1>6, <1>7 DEF IInv

\* Only the clock and the origin move the world, one at a time.
LEMMA WorldMoves ==
    ASSUME [Next]_vars
    PROVE  \/ UNCHANGED worldVars
           \/ now' = now + 1 /\ UNCHANGED <<skew, origin>>
           \/ /\ UNCHANGED <<now, skew>>
              /\ \E o \in NewStates : origin' = Append(origin, o)
<1>1. CASE \E w \in Workers : Answer(w) \/ Exchange(w)
    BY <1>1 DEF Answer, Exchange, Serve, ServeFails, Load, Send, Finish, ReceiveMismatch,
                ReceiveConfirmation, ReceiveReply, Commit, worldVars
<1>2. CASE Evict
    BY <1>2 DEF Evict, worldVars
<1>3. CASE Publish
    BY <1>3 DEF Publish
<1>4. CASE Tick
    BY <1>4 DEF Tick
<1>5. CASE UNCHANGED vars
    BY <1>5 DEF vars
<1> QED BY <1>1, <1>2, <1>3, <1>4, <1>5 DEF Next

\* What the origin goes over to keeps the rules and the date of what it keeps.
LEMMA NewStateOK ==
    ASSUME OriginInv, NEW o \in NewStates
    PROVE  /\ o \in State
           /\ o.since <= o.at /\ o.at = now
           /\ SameRules(o.profile, Current.profile)
           /\ \/ o.of = Current.of + 1
              \/ o.of = Current.of /\ o.since = Current.since
<1>1. Len(origin) \in DOMAIN origin /\ Current = origin[Len(origin)]
    BY DEF OriginInv, Current
<1>2. Current \in State
    BY <1>1 DEF OriginInv
<1>3. Current.since <= Current.at /\ Current.at <= now
    BY <1>1 DEF OriginInv
<1>4. now \in Nat
    BY DEF OriginInv
<1>5. CASE o = [Current EXCEPT !.of = @ + 1, !.since = now, !.at = now]
    <2>1. o = [of |-> Current.of + 1, since |-> now, at |-> now,
               profile |-> Current.profile]
        BY <1>2, <1>5 DEF State
    <2>2. Current.of \in Nat /\ Current.profile \in Profile
        BY <1>2 DEF State
    <2> QED BY <1>4, <2>1, <2>2 DEF State, SameRules
<1>6. CASE \E v \in BOOLEAN : o = [Current EXCEPT !.at = now, !.profile.varies = v]
    <2>1. PICK v \in BOOLEAN : o = [Current EXCEPT !.at = now, !.profile.varies = v]
        BY <1>6
    <2>2. o = [of |-> Current.of, since |-> Current.since, at |-> now,
               profile |-> [Current.profile EXCEPT !.varies = v]]
        BY <1>2, <2>1 DEF State
    <2>3. Current.profile \in Profile
        BY <1>2 DEF State
    <2>4. [Current.profile EXCEPT !.varies = v] \in Profile
        BY <2>3 DEF Profile
    <2>5. SameRules([Current.profile EXCEPT !.varies = v], Current.profile)
        BY <2>3 DEF Profile, SameRules
    <2> QED BY <1>2, <1>3, <1>4, <2>2, <2>4, <2>5 DEF State
<1> QED BY <1>5, <1>6 DEF NewStates

LEMMA OriginGrows ==
    ASSUME OriginInv, NEW o \in NewStates, origin' = Append(origin, o),
           UNCHANGED <<now, skew>>
    PROVE  OriginInv'
<1> DEFINE n == Len(origin)
<1>1. /\ n \in Nat /\ n > 0 /\ n \in DOMAIN origin /\ DOMAIN origin = 1..n
      /\ origin \in Seq(State)
    BY DEF OriginInv
<1>2. /\ o \in State /\ o.since <= o.at /\ o.at = now
      /\ SameRules(o.profile, Current.profile)
      /\ o.of = Current.of + 1 \/ (o.of = Current.of /\ o.since = Current.since)
    BY NewStateOK
<1>3. /\ origin' \in Seq(State) /\ origin' # <<>> /\ Len(origin') = n + 1
      /\ DOMAIN origin' = 1..(n + 1) /\ origin'[n + 1] = o
      /\ \A i \in 1..n : origin'[i] = origin[i]
    BY <1>1, <1>2
<1>4. Current' = o /\ Current = origin[n]
    BY <1>3 DEF Current
<1>5. \A i \in 1..n : origin[i].of \in Nat
    BY <1>1, LogTyped
<1>6. \A i \in DOMAIN origin' :
          /\ origin'[i].since <= origin'[i].at /\ origin'[i].at <= now'
          /\ origin'[i].of <= Current'.of
          /\ SameRules(origin'[i].profile, origin'[1].profile)
          /\ origin'[i].profile.expiresIn # None => origin'[i].profile.dated
    <2> SUFFICES ASSUME NEW i \in DOMAIN origin'
                 PROVE  /\ origin'[i].since <= origin'[i].at /\ origin'[i].at <= now'
                        /\ origin'[i].of <= Current'.of
                        /\ SameRules(origin'[i].profile, origin'[1].profile)
                        /\ origin'[i].profile.expiresIn # None => origin'[i].profile.dated
        OBVIOUS
    <2>1. origin'[1] = origin[1]
        BY <1>1, <1>3
    <2>2. CASE i \in 1..n
        <3>1. /\ origin[i].since <= origin[i].at /\ origin[i].at <= now
              /\ origin[i].of <= Current.of
              /\ SameRules(origin[i].profile, origin[1].profile)
              /\ origin[i].profile.expiresIn # None => origin[i].profile.dated
            BY <2>2, <1>1 DEF OriginInv
        <3>2. Current.of <= o.of
            BY <1>1, <1>2, <1>4, <1>5
        <3>3. o.of \in Nat /\ Current.of \in Nat /\ origin[i].of \in Nat
            BY <2>2, <1>1, <1>2, <1>4, <1>5 DEF State
        <3> QED BY <2>1, <2>2, <3>1, <3>2, <3>3, <1>3, <1>4
    <2>3. CASE i = n + 1
        <3>1. /\ SameRules(Current.profile, origin[1].profile)
              /\ Current.profile.expiresIn # None => Current.profile.dated
            BY <1>1, <1>4 DEF OriginInv
        <3>2. SameRules(o.profile, origin[1].profile)
            BY <3>1, <1>2 DEF SameRules
        <3>3. o.profile.expiresIn # None => o.profile.dated
            BY <3>1, <1>2 DEF SameRules
        <3> QED BY <2>1, <2>3, <3>2, <3>3, <1>2, <1>3, <1>4 DEF OriginInv, State
    <2> QED BY <2>2, <2>3, <1>1, <1>3
<1>7. \A i, j \in DOMAIN origin' :
          origin'[i].of = origin'[j].of => origin'[i].since = origin'[j].since
    <2>1. \A i, j \in 1..n : origin[i].of = origin[j].of => origin[i].since = origin[j].since
        BY <1>1 DEF OriginInv
    <2>2. \A i \in 1..n : origin[i].of = o.of => origin[i].since = o.since
        <3> SUFFICES ASSUME NEW i \in 1..n, origin[i].of = o.of
                     PROVE  origin[i].since = o.since
            OBVIOUS
        <3>1. origin[i].of <= Current.of /\ origin[i].of \in Nat /\ Current.of \in Nat
            BY <1>1, <1>4, <1>5 DEF OriginInv
        <3>2. o.of = Current.of /\ o.since = Current.since
            BY <3>1, <1>2
        <3> QED BY <3>2, <2>1, <1>1, <1>4
    <2> QED BY <2>1, <2>2, <1>1, <1>3
<1> QED BY <1>3, <1>6, <1>7 DEF OriginInv

LEMMA OriginNext == OriginInv /\ [Next]_vars => OriginInv'
<1> SUFFICES ASSUME OriginInv, [Next]_vars PROVE OriginInv'
    OBVIOUS
<1>1. CASE UNCHANGED worldVars
    BY <1>1 DEF worldVars, OriginInv, Current
<1>2. CASE now' = now + 1 /\ UNCHANGED <<skew, origin>>
    <2>1. \A i \in DOMAIN origin : origin[i].at \in Nat
        BY LogTyped
    <2> QED BY <1>2, <2>1 DEF OriginInv, Current
<1>3. CASE UNCHANGED <<now, skew>> /\ \E o \in NewStates : origin' = Append(origin, o)
    BY <1>3, OriginGrows
<1> QED BY <1>1, <1>2, <1>3, WorldMoves

\* What an entry says stays what a state of the origin made it say.
LEMMA EntryKept ==
    ASSUME OriginInv, [Next]_vars, NEW e, EntryInv(e)
    PROVE  EntryInv(e)'
<1>1. PICK i \in DOMAIN origin : MadeIn(e, i)
    BY DEF EntryInv
<1>2. CASE UNCHANGED worldVars
    BY <1>2 DEF worldVars, EntryInv, MadeIn, Times, Corrected, During, HeadAs, HeadOf, Assigned
<1>3. ASSUME now' \in Nat, now <= now', skew' = skew, i \in DOMAIN origin',
             origin'[i] = origin[i], e.made \in During(i)'
      PROVE  EntryInv(e)'
    <2>1. HeadAs(e.head, origin[i], e.made)'
        BY <1>1, <1>3 DEF MadeIn, HeadAs, HeadOf
    <2>2. MadeIn(e, i)'
        BY <1>1, <1>3, <2>1 DEF MadeIn, Assigned
    <2>3. Times(e)'
        BY <1>3 DEF EntryInv, Times, OriginInv
    <2> QED BY <1>3, <2>2, <2>3 DEF EntryInv, Corrected
<1>4. /\ now \in Nat /\ origin \in Seq(State) /\ Len(origin) \in Nat
      /\ i \in 1..Len(origin) /\ origin[i].at \in Nat
    BY LogTyped DEF OriginInv
<1>5. e.made \in During(i)
    BY <1>1 DEF MadeIn
<1>6. CASE now' = now + 1 /\ UNCHANGED <<skew, origin>>
    <2>1. e.made \in During(i)'
        BY <1>4, <1>5, <1>6 DEF During
    <2> QED BY <2>1, <1>3, <1>4, <1>6
<1>7. CASE UNCHANGED <<now, skew>> /\ \E o \in NewStates : origin' = Append(origin, o)
    <2>1. PICK o \in NewStates : origin' = Append(origin, o)
        BY <1>7
    <2>2. o \in State /\ o.at = now
        BY NewStateOK
    <2>3. /\ i \in DOMAIN origin' /\ origin'[i] = origin[i]
          /\ Len(origin') = Len(origin) + 1
          /\ i < Len(origin) => origin'[i + 1] = origin[i + 1]
          /\ i = Len(origin) => origin'[i + 1] = o
        BY <1>4, <2>1, <2>2
    <2>4. e.made \in During(i)'
        BY <1>4, <1>5, <1>7, <2>2, <2>3 DEF During
    <2> QED BY <2>3, <2>4, <1>3, <1>4, <1>7
<1> QED BY <1>2, <1>6, <1>7, WorldMoves

LEMMA PlacesNext == OriginInv /\ PlacesInv /\ [Next]_vars => PlacesInv'
<1> SUFFICES ASSUME OriginInv, PlacesInv, [Next]_vars PROVE PlacesInv'
    OBVIOUS
<1>1. now \in Nat /\ now' \in Nat /\ now <= now'
    BY WorldMoves DEF OriginInv, worldVars
<1>2. DOMAIN base' = Workers /\ DOMAIN writer' = Workers
    BY DEF PlacesInv, Next, vars, jobVars, Answer, Exchange, Serve, ServeFails, Load, Send,
           Finish, Leave, Forget, ReceiveMismatch, ReceiveConfirmation, ReceiveReply, Commit,
           Evict, Publish, Tick
<1>3. \/ requested' = requested
      \/ \E w \in Workers, t \in {0, now} : requested' = [requested EXCEPT ![w] = t]
    BY DEF Next, vars, jobVars, Answer, Exchange, Serve, ServeFails, Load, Send, Finish,
           Leave, Forget, ReceiveMismatch, ReceiveConfirmation, ReceiveReply,
           Commit, Evict, Publish, Tick
<1>4. requested' \in [Workers -> Nat] /\ \A w \in Workers : requested'[w] <= now'
    <2>1. CASE requested' = requested
        BY <1>1, <2>1 DEF PlacesInv
    <2>2. CASE \E w \in Workers, t \in {0, now} : requested' = [requested EXCEPT ![w] = t]
        BY <1>1, <2>2 DEF PlacesInv
    <2> QED BY <1>3, <2>1, <2>2
<1> QED BY <1>2, <1>4 DEF PlacesInv

\* How an entry that is new came about.
Anew(e, w, r) ==
    \/ e = Received(w, r)
    \/ /\ e = Refreshed(w, r)
       /\ base[w] \in Held
       /\ Confirms(w, r)
       /\ ~Mismatched(base[w], r)

\* Every step keeps what is held, or adds what was received or confirmed.
LEMMA HeldFrom ==
    ASSUME PlacesInv, [Next]_vars, NEW e \in Held'
    PROVE  e \in Held \/ \E w \in Workers : \E r \in Replies(w) : Anew(e, w, r)
<1>1. DOMAIN base = Workers /\ DOMAIN writer = Workers /\ e # None
    BY DEF PlacesInv, Held
<1>2. ASSUME UNCHANGED <<entry, base, writer>> PROVE e \in Held
    BY <1>2 DEF Held
<1>3. ASSUME NEW w \in Workers, Answer(w) PROVE e \in Held
    <2>1. PICK a \in Asks, v \in Values \cup {None} :
              Serve(w, a, v) \/ ServeFails(w, a, v) \/ Load(w, a, v)
        BY <1>3 DEF Answer
    <2>2. CASE Serve(w, a, v)
        BY <2>2 DEF Serve, Held
    <2>3. CASE ServeFails(w, a, v)
        BY <2>3 DEF ServeFails, Held
    <2>4. CASE Load(w, a, v)
        BY <2>4, <1>1 DEF Load, Held
    <2> QED BY <2>1, <2>2, <2>3, <2>4
<1>4. ASSUME NEW w \in Workers, Exchange(w)
      PROVE  e \in Held \/ \E r \in Replies(w) : Anew(e, w, r)
    <2>1. CASE Send(w)
        BY <2>1, <1>2 DEF Send
    <2>2. CASE Finish(w)
        BY <2>2, <1>1 DEF Finish, Leave, Forget, Held
    <2>3. CASE ReceiveMismatch(w)
        BY <2>3, <1>1 DEF ReceiveMismatch, Held
    <2>4. CASE ReceiveConfirmation(w)
        <3>1. PICK r \in Replies(w) :
                  /\ Confirms(w, r)
                  /\ ~Mismatched(base[w], r)
                  /\ writer' = [writer EXCEPT ![w] = Refreshed(w, r)]
            BY <2>4 DEF ReceiveConfirmation, Refreshed
        <3>2. base[w] \in Held
            BY <3>1 DEF Held, Confirms
        <3>3. e \in Held \/ e = Refreshed(w, r)
            BY <2>4, <3>1, <1>1 DEF ReceiveConfirmation, Forget, Held
        <3> QED BY <3>1, <3>2, <3>3 DEF Anew
    <2>5. CASE ReceiveReply(w)
        <3>1. PICK r \in Replies(w) :
                  /\ entry' \in {None, entry}
                  /\ writer' = [writer EXCEPT ![w] =
                        IF Storable(r) /\ Encodable(Received(w, r))
                        THEN Received(w, r) ELSE None]
            BY <2>5 DEF ReceiveReply
        <3>2. e \in Held \/ e = Received(w, r)
            BY <2>5, <3>1, <1>1 DEF ReceiveReply, Forget, Held
        <3> QED BY <3>2 DEF Anew
    <2>6. CASE Commit(w)
        BY <2>6, <1>1 DEF Commit, Leave, Forget, Held
    <2> QED BY <1>4, <2>1, <2>2, <2>3, <2>4, <2>5, <2>6 DEF Exchange
<1>5. CASE Evict
    BY <1>5 DEF Evict, Held
<1>6. CASE Publish \/ Tick \/ UNCHANGED vars
    BY <1>6, <1>2 DEF Publish, Tick, vars
<1> QED BY <1>3, <1>4, <1>5, <1>6 DEF Next

LEMMA HeldNext ==
    ASSUME IInv, [Next]_vars, NEW e \in Held'
    PROVE  EntryInv(e)
<1>1. CASE e \in Held
    BY <1>1 DEF IInv
<1>2. ASSUME NEW w \in Workers, NEW r \in Replies(w), Anew(e, w, r)
      PROVE  EntryInv(e)
    <2>1. OriginInv /\ requested[w] \in Nat /\ requested[w] <= now
        BY DEF IInv, PlacesInv
    <2>2. CASE e = Received(w, r)
        BY <2>1, <2>2, ReceivedInv
    <2>3. CASE /\ e = Refreshed(w, r) /\ base[w] \in Held
               /\ Confirms(w, r) /\ ~Mismatched(base[w], r)
        BY <2>1, <2>3, RefreshedInv DEF IInv
    <2> QED BY <1>2, <2>2, <2>3 DEF Anew
<1> QED BY <1>1, <1>2, HeldFrom DEF IInv

LEMMA StepInv == IInv /\ [Next]_vars => IInv'
<1> SUFFICES ASSUME IInv, [Next]_vars PROVE IInv'
    OBVIOUS
<1>1. OriginInv' /\ PlacesInv'
    BY OriginNext, PlacesNext DEF IInv
<1>2. ASSUME NEW e \in Held' PROVE EntryInv(e)'
    <2>1. EntryInv(e)
        BY <1>2, HeldNext
    <2> QED BY <2>1, EntryKept DEF IInv
<1> QED BY <1>1, <1>2 DEF IInv

LEMMA Invariance == Spec => []IInv
BY InitInv, StepInv, PTL DEF Spec

-----------------------------------------------------------------------------
(* The theorems.                                                           *)

\* "Stale responses are never served" (docs/network.md:105), whatever clocks,
\* delays, proxies and header fields: verdictForEntry takes for fresh only what
\* is younger than its origin and the request allow.
THEOREM StaleNeverFresh == Spec => []FreshMeansFresh
<1>1. IInv => FreshMeansFresh
    <2> SUFFICES ASSUME IInv, entry # None, NEW a \in Asks, Verdict(entry, a) = "fresh"
                 PROVE  /\ now - entry.made < entry.lifetime
                        /\ a.maxAge # None => now - entry.made < a.maxAge
        BY DEF FreshMeansFresh
    <2>1. EntryInv(entry) /\ OriginInv
        BY DEF IInv, Held
    <2> QED BY <2>1, FreshIsFresh, ConstantsAssumption
<1> QED BY <1>1, Invariance, PTL

\* The 304 path of exchangeOn: what is confirmed is what the origin then had.
THEOREM ConfirmationIsRight == Spec => []ConfirmedAsMade
<1>1. IInv => ConfirmedAsMade
    BY DEF IInv, Held, EntryInv, MadeIn, ConfirmedAsMade
<1> QED BY <1>1, Invariance, PTL
===============================================================================
