------------------------- MODULE ConnectionPool_proofs -------------------------
(***************************************************************************)
(* Who owns a connection, for any number of requests, connections and      *)
(* hosts.  The lemmas say what the pool's three operations (drop from the  *)
(* front, pop the newest, append) do to the buckets and to the set of      *)
(* their members; the invariant then only reasons about those sets.        *)
(***************************************************************************)
EXTENDS ConnectionPool, SequenceTheorems, FiniteSetTheorems, TLAPS

HoldsAt == {"probe", "begin", "exchange", "returnProbe", "store", "storeLocked"}

\* A request holds a connection exactly where the code has one in hand.
HoldsExactly == \A r \in Requests : held[r] # NoConn <=> pc[r] \in HoldsAt

Ownership == OneOwner /\ OpenAreOwned /\ HoldsExactly

\* How many exchanges a request has begun at each point of the loop: a
\* mismatch and a dead pooled connection can each cost one, once.
RetryPhase ==
    \A r \in Requests :
        /\ pc[r] \in {"idle", "take", "takeLocked", "probe"} =>
              attempts[r] = 0 /\ pooled[r] = FALSE
        /\ pc[r] = "connect" =>
              /\ pooled[r] = FALSE
              /\ attempts[r] <= 2
              /\ validating[r] = TRUE => attempts[r] <= 1
        /\ pc[r] = "begin" =>
              /\ attempts[r] <= 2
              /\ validating[r] = TRUE => attempts[r] <= 1
              /\ pooled[r] = TRUE => attempts[r] = 0
        /\ pc[r] = "exchange" =>
              /\ attempts[r] <= 3
              /\ validating[r] = TRUE => attempts[r] <= 2
              /\ pooled[r] = TRUE => attempts[r] = 1

IInv == TypeOK /\ Ownership /\ RetriesBounded /\ RetryPhase

Pools == [Hosts -> Seq(Conns)]

\* What Kept leaves of one bucket.
LEMMA KeptElements ==
    ASSUME NEW S, NEW s \in Seq(S), NEW n \in 0..Len(s)
    PROVE  /\ Kept(s, n) \in Seq(S)
           /\ Len(Kept(s, n)) = Len(s) - n
           /\ DOMAIN Kept(s, n) = 1..(Len(s) - n)
           /\ \A i \in DOMAIN Kept(s, n) :
                 i + n \in DOMAIN s /\ Kept(s, n)[i] = s[i + n]
<1>1. /\ Len(s) \in Nat /\ DOMAIN s = 1..Len(s)
      /\ n \in Nat /\ n <= Len(s)
    OBVIOUS
<1>2. \A i \in (n + 1)..Len(s) : s[i] \in S
    BY <1>1
<1>3. Kept(s, n) \in Seq(S)
    BY <1>1, <1>2, SubSeqProperties DEF Kept
<1>4. Len(Kept(s, n)) = IF n + 1 <= Len(s) THEN Len(s) - (n + 1) + 1 ELSE 0
    BY <1>1, <1>2, SubSeqProperties DEF Kept
<1>5. \A i \in 1 .. Len(s) - (n + 1) + 1 : Kept(s, n)[i] = s[(n + 1) + i - 1]
    BY <1>1, <1>2, SubSeqProperties DEF Kept
<1>6. Len(Kept(s, n)) = Len(s) - n
    <2>1. ASSUME NEW l \in Nat, n <= l
          PROVE  (IF n + 1 <= l THEN l - (n + 1) + 1 ELSE 0) = l - n
        BY <2>1
    <2> QED BY <1>1, <1>4, <2>1
<1>7. DOMAIN Kept(s, n) = 1..(Len(s) - n)
    BY <1>3, <1>6
<1>8. ASSUME NEW i \in DOMAIN Kept(s, n)
      PROVE  i + n \in DOMAIN s /\ Kept(s, n)[i] = s[i + n]
    <2>1. i \in 1 .. Len(s) - (n + 1) + 1 /\ i + n \in DOMAIN s
        BY <1>1, <1>7
    <2>2. Kept(s, n)[i] = s[(n + 1) + i - 1]
        BY <2>1, <1>5
    <2>3. (n + 1) + i - 1 = i + n
        BY <2>1, <1>1
    <2>4. Kept(s, n)[i] = s[i + n]
        BY ONLY <2>2, <2>3
    <2> QED BY <2>1, <2>4
<1> QED BY <1>3, <1>6, <1>7, <1>8

\* A pool without the first n[h] connections of each bucket h, and those; with
\* c appended to bucket g; and without the newest of bucket g.
Dropped(p, n) == [h \in Hosts |-> Kept(p[h], n[h])]
Gone(p, n) == UNION {Removed(p[h], n[h]) : h \in Hosts}
Appended(p, g, c) == [p EXCEPT ![g] = Append(p[g], c)]
Popped(p, g) == [p EXCEPT ![g] = WithoutNewest(p[g])]

\* Dropping fronts: expireIdleConnections and the trim.
LEMMA DropFronts ==
    ASSUME NEW p \in Pools, Distinct(p), NEW n \in [Hosts -> Nat],
           \A h \in Hosts : n[h] <= Len(p[h])
    PROVE  /\ Dropped(p, n) \in Pools
           /\ \A h \in Hosts : Len(Dropped(p, n)[h]) = Len(p[h]) - n[h]
           /\ Distinct(Dropped(p, n))
           /\ Members(Dropped(p, n)) = Members(p) \ Gone(p, n)
           /\ Gone(p, n) \subseteq Members(p)
<1> DEFINE q == Dropped(p, n)
           gone == Gone(p, n)
<1>0. /\ q = [h \in Hosts |-> Kept(p[h], n[h])]
      /\ gone = UNION {Removed(p[h], n[h]) : h \in Hosts}
    BY DEF Dropped, Gone
<1> HIDE DEF q, gone
<1>1. ASSUME NEW h \in Hosts
      PROVE  /\ q[h] \in Seq(Conns)
             /\ Len(q[h]) = Len(p[h]) - n[h]
             /\ DOMAIN q[h] = 1..(Len(p[h]) - n[h])
             /\ \A i \in DOMAIN q[h] :
                   i + n[h] \in DOMAIN p[h] /\ q[h][i] = p[h][i + n[h]]
    <2>1. p[h] \in Seq(Conns) /\ n[h] \in 0..Len(p[h]) /\ q[h] = Kept(p[h], n[h])
        BY <1>0 DEF Pools
    <2> QED BY <2>1, KeptElements
<1>2. q \in Pools
    BY <1>0, <1>1 DEF Pools
<1>3. Distinct(q)
    <2> SUFFICES ASSUME NEW g \in Hosts, NEW h \in Hosts,
                        NEW i \in DOMAIN q[g], NEW j \in DOMAIN q[h],
                        q[g][i] = q[h][j]
                 PROVE  g = h /\ i = j
        BY DEF Distinct
    <2>1. p[g][i + n[g]] = p[h][j + n[h]]
          /\ i + n[g] \in DOMAIN p[g] /\ j + n[h] \in DOMAIN p[h]
        BY <1>1
    <2>2. g = h /\ i + n[g] = j + n[h]
        BY <2>1 DEF Distinct
    <2>3. i \in Nat /\ j \in Nat /\ n[g] \in Nat /\ Len(p[g]) \in Nat
        BY <1>1, <2>2 DEF Pools
    <2> QED BY <2>2, <2>3
<1>4. gone \subseteq Members(p)
    <2> SUFFICES ASSUME NEW h \in Hosts, NEW i \in 1..n[h]
                 PROVE  p[h][i] \in Members(p)
        BY <1>0 DEF Removed
    <2>1. i \in DOMAIN p[h]
        BY DEF Pools
    <2> QED BY <2>1 DEF Members, ToSet
<1>5. ASSUME NEW c \in Members(q) PROVE c \in Members(p) \ gone
    <2>1a. PICK h \in Hosts : \E i \in DOMAIN q[h] : c = q[h][i]
        BY DEF Members, ToSet
    <2>1. PICK i \in DOMAIN q[h] : c = q[h][i]
        BY <2>1a
    <2>2. c = p[h][i + n[h]] /\ i + n[h] \in DOMAIN p[h]
        BY <2>1, <1>1
    <2>3. ASSUME c \in gone PROVE FALSE
        <3>1a. PICK g \in Hosts : \E j \in 1..n[g] : c = p[g][j]
            BY <1>0, <2>3 DEF Removed
        <3>1. PICK j \in 1..n[g] : c = p[g][j]
            BY <3>1a
        <3>2. j \in DOMAIN p[g]
            BY DEF Pools
        <3>3. p[g][j] = p[h][i + n[h]]
            BY <3>1, <2>2
        <3>3a. g = h /\ j = i + n[h]
            BY <3>2, <3>3, <2>2 DEF Distinct
        <3>4. i \in Nat \ {0} /\ n[h] \in Nat
            BY <1>1 DEF Pools
        <3> QED BY <3>3a, <3>4
    <2> QED BY <2>2, <2>3 DEF Members, ToSet
<1>6. ASSUME NEW c \in Members(p), c \notin gone PROVE c \in Members(q)
    <2>1a. PICK h \in Hosts : \E i \in DOMAIN p[h] : c = p[h][i]
        BY DEF Members, ToSet
    <2>1. PICK i \in DOMAIN p[h] : c = p[h][i]
        BY <2>1a
    <2>2. i \in 1..Len(p[h]) /\ Len(p[h]) \in Nat /\ n[h] \in Nat
        BY DEF Pools
    <2>3. i \notin 1..n[h]
        BY <1>0, <2>1, <1>6 DEF Removed
    <2>4. i - n[h] \in DOMAIN q[h] /\ (i - n[h]) + n[h] = i
        BY <2>2, <2>3, <1>1
    <2>5. q[h][i - n[h]] = p[h][(i - n[h]) + n[h]]
        BY <2>4, <1>1
    <2>6. q[h][i - n[h]] = c
        BY <2>1, <2>4, <2>5
    <2>7. c \in ToSet(q[h])
        BY <2>4, <2>6 DEF ToSet
    <2> QED BY <2>7 DEF Members
<1> QED BY <1>1, <1>2, <1>3, <1>4, <1>5, <1>6 DEF q, gone

\* Popping the newest of a bucket: takeIdleConnection.
LEMMA PopNewest ==
    ASSUME NEW p \in Pools, Distinct(p), NEW g \in Hosts, p[g] # <<>>
    PROVE  /\ Popped(p, g) \in Pools
           /\ \A h \in Hosts : Len(Popped(p, g)[h]) <= Len(p[h])
           /\ Distinct(Popped(p, g))
           /\ Last(p[g]) \in Members(p)
           /\ Members(Popped(p, g)) = Members(p) \ {Last(p[g])}
           /\ Members(p) \subseteq Conns
<1> DEFINE q == Popped(p, g)
<1>0. q = [p EXCEPT ![g] = WithoutNewest(p[g])]
    BY DEF Popped
<1> HIDE DEF q
<1>1. p[g] \in Seq(Conns) /\ Len(p[g]) \in Nat \ {0} /\ DOMAIN p[g] = 1..Len(p[g])
    BY DEF Pools
<1>2. q[g] = SubSeq(p[g], 1, Len(p[g]) - 1)
    BY <1>0 DEF WithoutNewest, Front, Pools
<1>3. /\ q[g] \in Seq(Conns) /\ Len(q[g]) = Len(p[g]) - 1
      /\ DOMAIN q[g] = 1..(Len(p[g]) - 1)
      /\ \A i \in DOMAIN q[g] : q[g][i] = p[g][i]
    BY <1>1, <1>2
<1>4. q \in Pools /\ \A h \in Hosts : h # g => q[h] = p[h]
    BY <1>0, <1>3 DEF Pools
<1>5. \A h \in Hosts : \A i \in DOMAIN q[h] : i \in DOMAIN p[h] /\ q[h][i] = p[h][i]
    <2> SUFFICES ASSUME NEW h \in Hosts, NEW i \in DOMAIN q[h]
                 PROVE  i \in DOMAIN p[h] /\ q[h][i] = p[h][i]
        OBVIOUS
    <2>1. CASE h = g
        <3>1. i \in 1..(Len(p[g]) - 1)
            BY ONLY <2>1, <1>3
        <3>2. i \in DOMAIN p[g]
            BY ONLY <3>1, <1>1
        <3> QED BY ONLY <2>1, <3>2, <1>3
    <2>2. CASE h # g
        BY ONLY <2>2, <1>4
    <2> QED BY <2>1, <2>2
<1>6. Distinct(q)
    BY <1>5 DEF Distinct
<1>7. Last(p[g]) = p[g][Len(p[g])] /\ Len(p[g]) \in DOMAIN p[g]
    BY <1>1 DEF Last
<1>8. Last(p[g]) \in Members(p)
    BY <1>7 DEF Members, ToSet
<1>9. ASSUME NEW c \in Members(q) PROVE c \in Members(p) \ {Last(p[g])}
    <2>1a. PICK h \in Hosts : \E i \in DOMAIN q[h] : c = q[h][i]
        BY DEF Members, ToSet
    <2>1. PICK i \in DOMAIN q[h] : c = q[h][i]
        BY <2>1a
    <2>2. c = p[h][i] /\ i \in DOMAIN p[h]
        BY <2>1, <1>5
    <2>3. ASSUME c = Last(p[g]) PROVE FALSE
        <3>1. h = g /\ i = Len(p[g])
            BY <2>2, <2>3, <1>7 DEF Distinct
        <3> QED BY <3>1, <1>1, <1>3
    <2> QED BY <2>2, <2>3 DEF Members, ToSet
<1>10. ASSUME NEW c \in Members(p), c # Last(p[g]) PROVE c \in Members(q)
    <2>1a. PICK h \in Hosts : \E i \in DOMAIN p[h] : c = p[h][i]
        BY DEF Members, ToSet
    <2>1. PICK i \in DOMAIN p[h] : c = p[h][i]
        BY <2>1a
    <2>2. i \in DOMAIN q[h] /\ q[h][i] = c
        BY <2>1, <1>10, <1>1, <1>3, <1>4, <1>7
    <2> QED BY <2>2 DEF Members, ToSet
<1>11. Members(p) \subseteq Conns
    BY DEF Members, ToSet, Pools
<1>12. ASSUME NEW h \in Hosts PROVE Len(q[h]) <= Len(p[h])
    <2>1. CASE h = g
        <3>1. Len(q[h]) = Len(p[h]) - 1 /\ Len(p[h]) \in Nat
            BY <2>1, <1>1, <1>3
        <3> QED BY <3>1
    <2>2. CASE h # g
        <3>1. q[h] = p[h] /\ Len(p[h]) \in Nat
            BY <2>2, <1>4 DEF Pools
        <3> QED BY <3>1
    <2> QED BY <2>1, <2>2
<1>13. Members(q) = Members(p) \ {Last(p[g])}
    <2>1. \A c : c \in Members(q) <=> c \in Members(p) /\ c # Last(p[g])
        BY <1>9, <1>10
    <2> QED BY ONLY <2>1
<1> QED BY <1>4, <1>6, <1>8, <1>11, <1>12, <1>13 DEF q

\* Appending a connection no bucket has: returnIdleConnection.
LEMMA AppendNew ==
    ASSUME NEW p \in Pools, Distinct(p), NEW g \in Hosts,
           NEW c \in Conns, c \notin Members(p)
    PROVE  /\ Appended(p, g, c) \in Pools
           /\ Appended(p, g, c)[g] = Append(p[g], c)
           /\ Len(Appended(p, g, c)[g]) = Len(p[g]) + 1
           /\ \A h \in Hosts : h # g => Appended(p, g, c)[h] = p[h]
           /\ Distinct(Appended(p, g, c))
           /\ Members(Appended(p, g, c)) = Members(p) \cup {c}
<1> DEFINE q == Appended(p, g, c)
<1>0. q = [p EXCEPT ![g] = Append(p[g], c)]
    BY DEF Appended
<1> HIDE DEF q
<1>1. p[g] \in Seq(Conns) /\ Len(p[g]) \in Nat /\ DOMAIN p[g] = 1..Len(p[g])
    BY DEF Pools
<1>2. q[g] = Append(p[g], c)
    BY <1>0 DEF Pools
<1>3. /\ q[g] \in Seq(Conns) /\ Len(q[g]) = Len(p[g]) + 1
      /\ DOMAIN q[g] = DOMAIN p[g] \cup {Len(p[g]) + 1}
      /\ \A i \in DOMAIN p[g] : q[g][i] = p[g][i]
      /\ q[g][Len(p[g]) + 1] = c
    BY <1>1, <1>2
<1>4. q \in Pools /\ \A h \in Hosts : h # g => q[h] = p[h]
    BY <1>0, <1>3 DEF Pools
<1>5. \A h \in Hosts : \A i : i \in DOMAIN q[h] =>
          \/ i \in DOMAIN p[h] /\ q[h][i] = p[h][i] /\ q[h][i] # c
          \/ h = g /\ i = Len(p[g]) + 1 /\ q[h][i] = c
    BY <1>3, <1>4 DEF Members, ToSet
<1>6. Distinct(q)
    <2> SUFFICES ASSUME NEW k \in Hosts, NEW h \in Hosts,
                        NEW i \in DOMAIN q[k], NEW j \in DOMAIN q[h],
                        q[k][i] = q[h][j]
                 PROVE  k = h /\ i = j
        BY DEF Distinct
    <2> QED BY <1>5 DEF Distinct
<1>7. Members(q) = Members(p) \cup {c}
    <2>1. ASSUME NEW d \in Members(q) PROVE d \in Members(p) \cup {c}
        <3>1a. PICK h \in Hosts : \E i \in DOMAIN q[h] : d = q[h][i]
            BY DEF Members, ToSet
        <3>1. PICK i \in DOMAIN q[h] : d = q[h][i]
            BY <3>1a
        <3> QED BY <3>1, <1>5 DEF Members, ToSet
    <2>2. ASSUME NEW d \in Members(p) PROVE d \in Members(q)
        <3>1a. PICK h \in Hosts : \E i \in DOMAIN p[h] : d = p[h][i]
            BY DEF Members, ToSet
        <3>1. PICK i \in DOMAIN p[h] : d = p[h][i]
            BY <3>1a
        <3>2. i \in DOMAIN q[h] /\ q[h][i] = d
            BY <3>1, <1>3, <1>4
        <3> QED BY <3>2 DEF Members, ToSet
    <2>3. c \in Members(q)
        BY <1>3 DEF Members, ToSet
    <2> QED BY <2>1, <2>2, <2>3
<1> QED BY <1>2, <1>3, <1>4, <1>6, <1>7 DEF q

LEMMA ExpirableInBucket ==
    ASSUME NEW s \in Seq(Conns)
    PROVE  Expirable(s) \in 0..Len(s)
<1> DEFINE P == {n \in DOMAIN s : \A i \in 1..n : idleAge[s[i]] > IdleTimeout}
<1>1. Len(s) \in Nat /\ DOMAIN s = 1..Len(s)
    OBVIOUS
<1>2. IsFiniteSet(1..Len(s)) /\ Cardinality(1..Len(s)) <= Len(s)
    BY <1>1, FS_Interval
<1>3. P \in SUBSET (1..Len(s))
    BY <1>1
<1>4. IsFiniteSet(P) /\ Cardinality(P) <= Cardinality(1..Len(s))
    BY <1>2, <1>3, FS_Subset
<1>5. Cardinality(P) \in Nat /\ Cardinality(1..Len(s)) \in Nat
    BY <1>2, <1>4, FS_CardinalityType
<1>6. Cardinality(P) \in 0..Len(s)
    BY <1>1, <1>2, <1>4, <1>5
<1> QED BY <1>6 DEF Expirable

\* The pool after expireIdleConnections.
LEMMA ExpiredPool ==
    ASSUME TypeOK, Distinct(pool)
    PROVE  /\ Expired \in Pools
           /\ \A h \in Hosts : Len(Expired[h]) <= IdlePerHost
           /\ Distinct(Expired)
           /\ Members(Expired) = Pooled \ ExpiredConns
           /\ ExpiredConns \subseteq Pooled
           /\ Pooled \subseteq Conns
<1> DEFINE n == [h \in Hosts |-> Expirable(pool[h])]
<1>1. pool \in Pools
    BY DEF TypeOK, Pools
<1>2. ASSUME NEW h \in Hosts
      PROVE  Expirable(pool[h]) \in 0..Len(pool[h]) /\ Len(pool[h]) \in Nat
    BY <1>1, ExpirableInBucket DEF Pools
<1>3. n \in [Hosts -> Nat] /\ \A h \in Hosts : n[h] <= Len(pool[h])
    BY <1>2
<1>4. Expired = Dropped(pool, n)
    BY DEF Expired, Dropped
<1>5. ExpiredConns = Gone(pool, n)
    BY DEF ExpiredConns, Gone
<1> HIDE DEF n
<1>6. /\ Expired \in Pools
      /\ \A h \in Hosts : Len(Expired[h]) = Len(pool[h]) - n[h]
      /\ Distinct(Expired)
      /\ Members(Expired) = Members(pool) \ ExpiredConns
      /\ ExpiredConns \subseteq Members(pool)
    BY <1>1, <1>3, <1>4, <1>5, DropFronts
<1>7. ASSUME NEW h \in Hosts PROVE Len(Expired[h]) <= IdlePerHost
    <2>1. Len(pool[h]) <= IdlePerHost /\ n[h] \in Nat /\ Len(pool[h]) \in Nat
        BY <1>2, <1>3 DEF TypeOK
    <2>2. Len(Expired[h]) = Len(pool[h]) - n[h]
        BY <1>6
    <2> QED BY <2>1, <2>2, ConstantsAssumption
<1>8. Members(pool) \subseteq Conns
    BY <1>1 DEF Members, ToSet, Pools
<1> QED BY <1>6, <1>7, <1>8 DEF Pooled

\* The pool after the rest of returnIdleConnection's critical section, and the
\* connections that trimmed away.
Longer(p, g, c) == Append(p[g], c)
Stored(p, g, c) ==
    [p EXCEPT ![g] = Kept(Longer(p, g, c), Excess(Longer(p, g, c)))]
Trimmed(p, g, c) == Removed(Longer(p, g, c), Excess(Longer(p, g, c)))

LEMMA StoredPool ==
    ASSUME NEW p \in Pools, Distinct(p), NEW g \in Hosts,
           NEW c \in Conns, c \notin Members(p),
           \A h \in Hosts : Len(p[h]) <= IdlePerHost
    PROVE  /\ Stored(p, g, c) \in Pools
           /\ \A h \in Hosts : Len(Stored(p, g, c)[h]) <= IdlePerHost
           /\ Distinct(Stored(p, g, c))
           /\ Members(Stored(p, g, c)) = (Members(p) \cup {c}) \ Trimmed(p, g, c)
           /\ Trimmed(p, g, c) \subseteq Members(p) \cup {c}
<1> DEFINE b == Longer(p, g, c)
           q == Stored(p, g, c)
           gone == Trimmed(p, g, c)
<1>0. /\ b = Append(p[g], c)
      /\ q = [p EXCEPT ![g] = Kept(b, Excess(b))]
      /\ gone = Removed(b, Excess(b))
    BY DEF Longer, Stored, Trimmed
<1> HIDE DEF b, q, gone
<1> DEFINE a == Appended(p, g, c)
           n == [h \in Hosts |-> IF h = g THEN Excess(b) ELSE 0]
<1>1. /\ a \in Pools /\ Len(a[g]) = Len(p[g]) + 1
      /\ \A h \in Hosts : h # g => a[h] = p[h]
      /\ Distinct(a) /\ Members(a) = Members(p) \cup {c}
    BY AppendNew
<1>2. a[g] = b
    BY <1>0, AppendNew
<1> HIDE DEF a
<1>3. Len(b) \in Nat /\ Len(b) <= IdlePerHost + 1 /\ IdlePerHost \in Nat
    BY <1>1, <1>2, ConstantsAssumption DEF Pools
<1>4. Excess(b) \in 0..Len(b) /\ Len(b) - Excess(b) <= IdlePerHost
    BY <1>3, ConstantsAssumption DEF Excess
<1>5. n \in [Hosts -> Nat]
    BY <1>4
<1>6. \A h \in Hosts : n[h] <= Len(a[h])
    BY <1>1, <1>2, <1>4 DEF Pools
<1>7. q = Dropped(a, n)
    <2>1. ASSUME NEW h \in Hosts, h # g PROVE q[h] = Kept(a[h], n[h])
        <3>1. p[h] \in Seq(Conns) /\ q[h] = p[h] /\ a[h] = p[h] /\ n[h] = 0
            BY <2>1, <1>0, <1>1 DEF Pools
        <3>2. SubSeq(p[h], 1, Len(p[h])) = p[h]
            BY <3>1, SubSeqFull
        <3>3. Kept(p[h], 0) = SubSeq(p[h], 1, Len(p[h]))
            BY DEF Kept
        <3> QED BY ONLY <3>1, <3>2, <3>3
    <2>2. q[g] = Kept(a[g], n[g])
        BY <1>0, <1>2 DEF Pools
    <2> QED BY <2>1, <2>2, <1>0 DEF Pools, Dropped
<1>8. gone = Gone(a, n)
    <2>1. \A h \in Hosts : h # g => Removed(a[h], n[h]) = {}
        BY DEF Removed
    <2>2. Removed(a[g], n[g]) = gone
        BY <1>0, <1>2
    <2> QED BY <2>1, <2>2 DEF Gone
<1>9. \A h \in Hosts : n[h] = IF h = g THEN Excess(b) ELSE 0
    OBVIOUS
<1> HIDE DEF n
<1>9a. /\ Dropped(a, n) \in Pools
       /\ \A h \in Hosts : Len(Dropped(a, n)[h]) = Len(a[h]) - n[h]
       /\ Distinct(Dropped(a, n))
       /\ Members(Dropped(a, n)) = Members(a) \ Gone(a, n)
       /\ Gone(a, n) \subseteq Members(a)
    <2>1. a \in Pools /\ Distinct(a)
        BY <1>1
    <2> QED BY ONLY <2>1, <1>5, <1>6, DropFronts
<1>10. /\ q \in Pools
       /\ \A h \in Hosts : Len(q[h]) = Len(a[h]) - n[h]
       /\ Distinct(q)
       /\ Members(q) = Members(a) \ gone
       /\ gone \subseteq Members(a)
    BY ONLY <1>7, <1>8, <1>9a
<1>11. ASSUME NEW h \in Hosts PROVE Len(q[h]) <= IdlePerHost
    <2>1. CASE h = g
        <3>1. Len(q[g]) = Len(a[g]) - n[g]
            BY ONLY <1>10, g \in Hosts
        <3>2. n[g] = Excess(b)
            BY ONLY <1>9, g \in Hosts
        <3>3. Len(q[g]) = Len(b) - Excess(b)
            BY ONLY <3>1, <3>2, <1>2
        <3>4. Len(q[h]) = Len(b) - Excess(b)
            BY ONLY <2>1, <3>3
        <3> QED BY ONLY <3>4, <1>3, <1>4
    <2>2. CASE h # g
        <3>1. Len(q[h]) = Len(a[h]) - n[h]
            BY ONLY <1>10, h \in Hosts
        <3>2. n[h] = 0 /\ a[h] = p[h]
            BY ONLY <1>1, <1>9, <2>2, h \in Hosts
        <3>3. Len(p[h]) \in Nat
            BY DEF Pools
        <3>4. Len(q[h]) = Len(p[h]) - 0
            BY ONLY <3>1, <3>2
        <3> QED BY <3>3, <3>4
    <2> QED BY <2>1, <2>2
<1> QED BY <1>1, <1>10, <1>11 DEF q, gone

-----------------------------------------------------------------------------
(* Types.                                                                  *)

LEMMA InitIInv == Init => IInv
<1> SUFFICES ASSUME Init PROVE IInv
    OBVIOUS
<1>1. \A h \in Hosts : pool[h] = <<>> /\ Len(pool[h]) = 0
    BY DEF Init
<1>2. pool \in Pools
    BY DEF Init, Pools
<1>3. TypeOK
    BY <1>1, <1>2, ConstantsAssumption DEF Init, TypeOK, Pools, WireStates, Locations
<1>4. Pooled = {} /\ Distinct(pool)
    BY <1>1 DEF Pooled, Members, ToSet, Distinct
<1>5. Ownership
    BY <1>4 DEF Init, Ownership, OneOwner, OpenAreOwned, HoldsExactly, Holding, HoldsAt
<1>6. RetriesBounded /\ RetryPhase
    BY DEF Init, RetriesBounded, RetryPhase
<1> QED BY <1>3, <1>5, <1>6 DEF IInv

\* Shutdown keeps the types of the connections' fields.
LEMMA ShutdownType ==
    ASSUME TypeOK, NEW cs, Shutdown(cs)
    PROVE  /\ open' \subseteq Conns
           /\ wire' \in [Conns -> WireStates]
           /\ idleAge' \in [Conns -> 0..(IdleTimeout + 1)]
BY ConstantsAssumption DEF TypeOK, Shutdown, WireStates

\* The pool after takeIdleConnection and after returnIdleConnection.
LEMMA TakenPool ==
    ASSUME TypeOK, Distinct(pool), NEW r \in Requests, TakeLocked(r)
    PROVE  /\ pool' \in Pools
           /\ \A h \in Hosts : Len(pool'[h]) <= IdlePerHost
           /\ Distinct(pool')
           /\ ExpiredConns \subseteq Pooled /\ Pooled \subseteq Conns
           /\ \/ /\ held' = held
                 /\ pc' = [pc EXCEPT ![r] = "connect"]
                 /\ Members(pool') = Pooled \ ExpiredConns
              \/ \E c \in Pooled \ ExpiredConns :
                    /\ held' = [held EXCEPT ![r] = c]
                    /\ pc' = [pc EXCEPT ![r] = "probe"]
                    /\ Members(pool') = (Pooled \ ExpiredConns) \ {c}
<1> DEFINE g == host[r]
<1>1. g \in Hosts
    BY DEF TypeOK
<1> HIDE DEF g
<1>2. /\ Expired \in Pools
      /\ \A h \in Hosts : Len(Expired[h]) <= IdlePerHost
      /\ Distinct(Expired)
      /\ Members(Expired) = Pooled \ ExpiredConns
      /\ ExpiredConns \subseteq Pooled
      /\ Pooled \subseteq Conns
    BY ExpiredPool
<1>3. CASE Expired[g] = <<>>
    <2>1. pool' = Expired /\ held' = held /\ pc' = [pc EXCEPT ![r] = "connect"]
        BY <1>3 DEF TakeLocked, Goto, g
    <2> QED BY <1>2, <2>1
<1>4. CASE Expired[g] # <<>>
    <2>1. /\ pool' = Popped(Expired, g)
          /\ held' = [held EXCEPT ![r] = Last(Expired[g])]
          /\ pc' = [pc EXCEPT ![r] = "probe"]
        BY <1>4 DEF TakeLocked, Goto, g, Popped
    <2>2. /\ Popped(Expired, g) \in Pools
          /\ \A h \in Hosts : Len(Popped(Expired, g)[h]) <= Len(Expired[h])
          /\ Distinct(Popped(Expired, g))
          /\ Last(Expired[g]) \in Members(Expired)
          /\ Members(Popped(Expired, g)) = Members(Expired) \ {Last(Expired[g])}
        BY ONLY <1>1, <1>2, <1>4, PopNewest
    <2>3. ASSUME NEW h \in Hosts PROVE Len(pool'[h]) <= IdlePerHost
        <3>1. /\ Len(Popped(Expired, g)[h]) \in Nat
              /\ Len(Expired[h]) \in Nat
            BY <1>2, <2>2 DEF Pools
        <3>2. Len(pool'[h]) = Len(Popped(Expired, g)[h])
            BY <2>1
        <3>3. /\ Len(Popped(Expired, g)[h]) <= Len(Expired[h])
              /\ Len(Expired[h]) <= IdlePerHost
            BY <1>2, <2>2
        <3>4. IdlePerHost \in Nat
            BY ConstantsAssumption
        <3> QED BY ONLY <3>1, <3>2, <3>3, <3>4
    <2>4. Last(Expired[g]) \in Pooled \ ExpiredConns
          /\ Members(pool') = (Pooled \ ExpiredConns) \ {Last(Expired[g])}
        BY ONLY <1>2, <2>1, <2>2
    <2> QED BY <1>2, <2>1, <2>2, <2>3, <2>4
<1> QED BY <1>3, <1>4

LEMMA ReturnedPool ==
    ASSUME TypeOK, Distinct(pool), NEW r \in Requests, StoreLocked(r),
           held[r] \in Conns, held[r] \notin Pooled
    PROVE  /\ pool' \in Pools
           /\ \A h \in Hosts : Len(pool'[h]) <= IdlePerHost
           /\ Distinct(pool')
           /\ ExpiredConns \subseteq Pooled
           /\ \E trimmed \in SUBSET ((Pooled \ ExpiredConns) \cup {held[r]}) :
                 /\ Shutdown(ExpiredConns \cup trimmed)
                 /\ Members(pool') =
                       ((Pooled \ ExpiredConns) \cup {held[r]}) \ trimmed
<1> DEFINE g == host[r]
           c == held[r]
<1>1. g \in Hosts /\ c \in Conns
    BY DEF TypeOK
<1>2. /\ Expired \in Pools
      /\ \A h \in Hosts : Len(Expired[h]) <= IdlePerHost
      /\ Distinct(Expired)
      /\ Members(Expired) = Pooled \ ExpiredConns
      /\ ExpiredConns \subseteq Pooled
    BY ExpiredPool
<1>3. /\ pool' = Stored(Expired, g, c)
      /\ Shutdown(ExpiredConns \cup Trimmed(Expired, g, c))
    BY DEF StoreLocked, Stored, Trimmed, Longer
<1>4. c \notin Members(Expired)
    BY <1>2
<1> HIDE DEF g, c
<1>5. /\ pool' \in Pools
      /\ \A h \in Hosts : Len(pool'[h]) <= IdlePerHost
      /\ Distinct(pool')
      /\ Members(pool') = (Members(Expired) \cup {c}) \ Trimmed(Expired, g, c)
      /\ Trimmed(Expired, g, c) \subseteq Members(Expired) \cup {c}
    BY ONLY <1>1, <1>2, <1>3, <1>4, StoredPool
<1> QED BY <1>2, <1>3, <1>5 DEF c

TypeRest ==
    /\ pc \in [Requests -> Locations]
    /\ host \in [Requests -> Hosts]
    /\ held \in [Requests -> Conns \cup {NoConn}]
    /\ pooled \in [Requests -> BOOLEAN]
    /\ validating \in [Requests -> BOOLEAN]
    /\ cancelled \in [Requests -> BOOLEAN]
    /\ attempts \in [Requests -> Nat]

TypeConns ==
    /\ open \subseteq Conns
    /\ wire \in [Conns -> WireStates]
    /\ idleAge \in [Conns -> 0..(IdleTimeout + 1)]

TypePool == pool \in Pools /\ \A h \in Hosts : Len(pool[h]) <= IdlePerHost

LEMMA TypeParts == TypeOK <=> TypePool /\ TypeConns /\ TypeRest
BY DEF TypeOK, TypePool, TypeConns, TypeRest, Pools

\* A request in hand of a connection, as HoldsExactly says.
LEMMA InHand ==
    ASSUME TypeOK, Ownership, NEW r \in Requests, pc[r] \in HoldsAt
    PROVE  held[r] \in Conns /\ held[r] \in open /\ held[r] \notin Pooled
<1>1. held[r] # NoConn
    BY DEF Ownership, HoldsExactly
<1>2. r \in Holding
    BY <1>1 DEF Holding
<1> QED BY <1>1, <1>2 DEF TypeOK, Ownership, OneOwner, OpenAreOwned

LEMMA TypeStep ==
    ASSUME TypeOK, Ownership, [Next]_vars
    PROVE  TypeOK'
<1>0. TypePool /\ TypeConns /\ TypeRest
    BY TypeParts
<1> USE ConstantsAssumption DEF HoldsAt
<1>A. ASSUME TypePool' /\ TypeConns' /\ TypeRest' PROVE TypeOK'
    BY <1>A DEF TypeOK, TypePool, TypeConns, TypeRest, Pools
<1>B. ASSUME UNCHANGED pool PROVE TypePool'
    BY <1>B, <1>0 DEF TypePool
<1>C. ASSUME UNCHANGED <<open, wire, idleAge>> PROVE TypeConns'
    BY <1>C, <1>0 DEF TypeConns
<1>D. ASSUME NEW cs, Shutdown(cs) PROVE TypeConns'
    BY <1>D, ShutdownType DEF TypeConns
<1>1. ASSUME NEW r \in Requests, Start(r) PROVE TypeOK'
    <2>1. TypeRest'
        BY <1>1, <1>0 DEF Start, TypeRest, Goto, Locations
    <2> QED BY <2>1, <1>1, <1>A, <1>B, <1>C DEF Start, connVars
<1>2. ASSUME NEW r \in Requests,
             EnterTake(r) \/ EnterStore(r) \/ ConnectFails(r) \/ BeginExchange(r)
      PROVE TypeOK'
    <2>1. TypeRest'
        BY <1>2, <1>0 DEF EnterTake, EnterStore, ConnectFails, BeginExchange,
                          TypeRest, Goto, Locations
    <2> QED BY <2>1, <1>2, <1>A, <1>B, <1>C
            DEF EnterTake, EnterStore, ConnectFails, BeginExchange, connVars
<1>3. ASSUME NEW r \in Requests, TakeLocked(r) PROVE TypeOK'
    <2>1. TypePool'
        BY <1>3, TakenPool DEF TypePool, Ownership, OneOwner
    <2>2. TypeConns'
        BY <1>3, <1>D DEF TakeLocked
    <2>3. held' \in [Requests -> Conns \cup {NoConn}]
          /\ pc' \in [Requests -> Locations]
        <3>1. CASE held' = held /\ pc' = [pc EXCEPT ![r] = "connect"]
            BY <3>1, <1>0 DEF TypeRest, Locations
        <3>2. ASSUME NEW c \in Conns, held' = [held EXCEPT ![r] = c],
                     pc' = [pc EXCEPT ![r] = "probe"]
              PROVE  held' \in [Requests -> Conns \cup {NoConn}]
                     /\ pc' \in [Requests -> Locations]
            BY <3>2, <1>0 DEF TypeRest, Locations
        <3> QED BY <1>3, <3>1, <3>2, TakenPool DEF Ownership, OneOwner
    <2>4. TypeRest'
        BY <1>3, <1>0, <2>3 DEF TypeRest, TakeLocked
    <2> QED BY <2>1, <2>2, <2>4, <1>A
<1>4. ASSUME NEW r \in Requests, ProbeTaken(r) PROVE TypeOK'
    <2>1. TypeRest'
        <3>1. held' = held \/ held' = [held EXCEPT ![r] = NoConn]
            BY <1>4 DEF ProbeTaken
        <3>2. pooled' = pooled \/ pooled' = [pooled EXCEPT ![r] = TRUE]
            BY <1>4 DEF ProbeTaken
        <3>4. pc' = [pc EXCEPT ![r] = "take"] \/ pc' = [pc EXCEPT ![r] = "begin"]
            BY <1>4 DEF ProbeTaken, Goto
        <3>5. UNCHANGED <<host, validating, cancelled, attempts>>
            BY <1>4 DEF ProbeTaken
        <3>6. pooled' \in [Requests -> BOOLEAN]
            BY <3>2, <1>0 DEF TypeRest
        <3>7. held' \in [Requests -> Conns \cup {NoConn}]
            BY <3>1, <1>0 DEF TypeRest
        <3>9. pc' \in [Requests -> Locations]
            BY <3>4, <1>0 DEF TypeRest, Locations
        <3> QED BY <3>5, <3>6, <3>7, <3>9, <1>0 DEF TypeRest
    <2>2. TypeConns'
        <3>1. CASE UNCHANGED <<open, idleAge>> /\ wire' = ProbedWire(held[r])
            BY <3>1, <1>0 DEF TypeConns, ProbedWire, WireStates
        <3>2. CASE Shutdown({held[r]})
            BY <3>2, <1>D
        <3> QED BY <3>1, <3>2, <1>4 DEF ProbeTaken
    <2> QED BY <2>1, <2>2, <1>4, <1>A, <1>B DEF ProbeTaken
<1>5. ASSUME NEW r \in Requests, Connect(r) PROVE TypeOK'
    <2>1. TypeRest'
        BY <1>5, <1>0 DEF Connect, TypeRest, Goto, Locations
    <2>2. TypeConns'
        BY <1>5, <1>0 DEF Connect, TypeConns
    <2> QED BY <2>1, <2>2, <1>5, <1>A, <1>B DEF Connect
<1>6. ASSUME NEW r \in Requests, Mismatched(r) \/ Unanswered(r) \/ Spent(r)
      PROVE TypeOK'
    <2>1. TypeRest'
        BY <1>6, <1>0 DEF Mismatched, Unanswered, Spent, DropConnection,
                          PooledAfterRetry, TypeRest, Goto, Locations
    <2>2. TypeConns'
        BY <1>6, <1>D DEF Mismatched, Unanswered, Spent, DropConnection
    <2> QED BY <2>1, <2>2, <1>6, <1>A, <1>B
            DEF Mismatched, Unanswered, Spent, DropConnection
<1>7. ASSUME NEW r \in Requests, Reusable(r) PROVE TypeOK'
    <2>1. TypeRest'
        BY <1>7, <1>0 DEF Reusable, TypeRest, Goto, Locations
    <2>2. TypeConns'
        <3>1. wire' \in [Conns -> WireStates]
            BY <1>7, <1>0 DEF Reusable, TypeConns
        <3>2. idleAge' = [idleAge EXCEPT ![held[r]] = 0] /\ open' = open
            BY <1>7 DEF Reusable
        <3>3. 0 \in 0..(IdleTimeout + 1)
            OBVIOUS
        <3>4. idleAge' \in [Conns -> 0..(IdleTimeout + 1)]
            BY <3>2, <3>3, <1>0 DEF TypeConns
        <3> QED BY <3>1, <3>2, <3>4, <1>0 DEF TypeConns
    <2> QED BY <2>1, <2>2, <1>7, <1>A, <1>B DEF Reusable
<1>8. ASSUME NEW r \in Requests, ProbeReturned(r) PROVE TypeOK'
    <2>1. TypeRest'
        BY <1>8, <1>0 DEF ProbeReturned, DropConnection, TypeRest, Goto, Locations
    <2>2. TypeConns' /\ TypePool'
        <3>1. CASE UNCHANGED <<pool, open, idleAge>> /\ wire' = ProbedWire(held[r])
            BY <3>1, <1>0, <1>B DEF TypeConns, ProbedWire, WireStates
        <3>2. CASE Shutdown({held[r]}) /\ UNCHANGED pool
            BY <3>2, <1>B, <1>D
        <3> QED BY <3>1, <3>2, <1>8 DEF ProbeReturned, DropConnection
    <2> QED BY <2>1, <2>2, <1>A
<1>9. ASSUME NEW r \in Requests, StoreLocked(r) PROVE TypeOK'
    <2>1. TypeRest'
        BY <1>9, <1>0 DEF StoreLocked, TypeRest, Goto, Locations
    <2>2. held[r] \in Conns /\ held[r] \notin Pooled /\ Distinct(pool)
        BY <1>9, InHand DEF StoreLocked, Ownership, OneOwner
    <2>3. TypePool'
        BY <1>9, <2>2, ReturnedPool DEF TypePool
    <2>4. PICK trimmed : Shutdown(ExpiredConns \cup trimmed)
        BY <1>9, <2>2, ReturnedPool
    <2>5. TypeConns'
        BY <2>4, <1>D
    <2> QED BY <2>1, <2>3, <2>5, <1>A
<1>10. ASSUME NEW r \in Requests, Cancel(r) PROVE TypeOK'
    <2>1. TypeRest'
        BY <1>10, <1>0 DEF Cancel, TypeRest
    <2> QED BY <2>1, <1>10, <1>A, <1>B, <1>C DEF Cancel, connVars
<1>11. ASSUME NEW c \in Conns, PeerActs(c) PROVE TypeOK'
    <2>1. TypeRest' /\ TypePool'
        BY <1>11, <1>0, <1>B DEF PeerActs, TypeRest
    <2>2. TypeConns'
        BY <1>11, <1>0 DEF PeerActs, TypeConns, WireStates
    <2> QED BY <2>1, <2>2, <1>A
<1>12. CASE Tick
    <2>1. TypeRest' /\ TypePool'
        BY <1>12, <1>0, <1>B DEF Tick, TypeRest
    <2>2. ASSUME NEW c \in Conns PROVE idleAge'[c] \in 0..(IdleTimeout + 1)
        BY <1>12, <1>0 DEF Tick, TypeConns
    <2>3. TypeConns'
        BY <1>12, <1>0, <2>2 DEF Tick, TypeConns
    <2> QED BY <2>1, <2>3, <1>A
<1>13. CASE UNCHANGED vars
    <2>1. TypeRest'
        BY <1>13, <1>0 DEF vars, TypeRest
    <2> QED BY <2>1, <1>13, <1>A, <1>B, <1>C DEF vars
<1> QED BY <1>1, <1>2, <1>3, <1>4, <1>5, <1>6, <1>7, <1>8, <1>9, <1>10, <1>11,
           <1>12, <1>13 DEF Next, PerformRequest

-----------------------------------------------------------------------------
(* Ownership.                                                              *)

\* OneOwner and OpenAreOwned for the members m of the pool, quantified over
\* requests and connections instead of over sets.
Owned(m, hd, op) ==
    /\ \A q, r \in Requests : hd[q] # NoConn /\ hd[q] = hd[r] => q = r
    /\ \A r \in Requests : hd[r] # NoConn => hd[r] \notin m
    /\ \A c : c \in op <=>
          c \in m \/ \E r \in Requests : hd[r] # NoConn /\ hd[r] = c

LEMMA OwnedIs ==
    Ownership <=> Owned(Pooled, held, open) /\ Distinct(pool) /\ HoldsExactly
<1>1. OneOwner <=> /\ \A q, r \in Requests : held[q] # NoConn /\ held[q] = held[r] => q = r
                   /\ \A r \in Requests : held[r] # NoConn => held[r] \notin Pooled
                   /\ Distinct(pool)
    BY DEF OneOwner, Holding
<1>2. OpenAreOwned <=>
         \A c : c \in open <=>
            c \in Pooled \/ \E r \in Requests : held[r] # NoConn /\ held[r] = c
    BY DEF OpenAreOwned, Holding
<1> QED BY <1>1, <1>2 DEF Ownership, Owned

\* r drops what it holds.
LEMMA OwnDrop ==
    ASSUME TypeOK, Ownership, NEW r \in Requests, pc[r] \in HoldsAt,
           DropConnection(r), NEW l, l \notin HoldsAt, pc' = [pc EXCEPT ![r] = l]
    PROVE  Ownership'
<1>1. Owned(Pooled, held, open) /\ Distinct(pool) /\ HoldsExactly
    BY OwnedIs
<1>2. held' = [held EXCEPT ![r] = NoConn] /\ open' = open \ {held[r]} /\ pool' = pool
    BY DEF DropConnection, Shutdown
<1>3. held \in [Requests -> Conns \cup {NoConn}] /\ pc \in [Requests -> Locations]
    BY DEF TypeOK
<1>4. held[r] # NoConn
    BY <1>1 DEF HoldsExactly
<1>5. Owned(Pooled, held', open')
    BY <1>1, <1>2, <1>3, <1>4 DEF Owned
<1>6. Pooled' = Pooled /\ Distinct(pool)'
    BY <1>1, <1>2 DEF Pooled
<1>7. HoldsExactly'
    BY <1>1, <1>2, <1>3 DEF HoldsExactly
<1>8. Owned(Pooled, held, open)'
    BY <1>5, <1>6
<1> QED BY <1>6, <1>7, <1>8, OwnedIs, PTL

\* r moves without touching a connection.
LEMMA OwnSame ==
    ASSUME TypeOK, Ownership, UNCHANGED <<pool, open, held>>,
           \A r \in Requests : pc[r] \in HoldsAt <=> pc'[r] \in HoldsAt
    PROVE  Ownership'
BY DEF Ownership, OneOwner, OpenAreOwned, HoldsExactly, Holding, Pooled

LEMMA OwnershipStep ==
    ASSUME TypeOK, Ownership, [Next]_vars
    PROVE  Ownership'
<1>0. Owned(Pooled, held, open) /\ Distinct(pool) /\ HoldsExactly
    BY OwnedIs
<1>T. held \in [Requests -> Conns \cup {NoConn}] /\ pc \in [Requests -> Locations]
    BY DEF TypeOK
<1>Q. ASSUME Owned(Pooled', held', open'), Distinct(pool)', HoldsExactly'
      PROVE  Ownership'
    <2>1. Owned(Pooled, held, open)'
        BY <1>Q
    <2> QED BY <2>1, <1>Q, OwnedIs, PTL
<1>1. ASSUME NEW r \in Requests,
             Start(r) \/ EnterTake(r) \/ ConnectFails(r) \/ BeginExchange(r)
                \/ Reusable(r) \/ EnterStore(r) \/ Cancel(r)
      PROVE  Ownership'
    <2>1. UNCHANGED <<pool, open, held>>
        BY <1>1 DEF Start, EnterTake, ConnectFails, BeginExchange, Reusable, EnterStore,
                    Cancel, connVars
    <2>2. \A q \in Requests : pc[q] \in HoldsAt <=> pc'[q] \in HoldsAt
        BY <1>1, <1>T DEF Start, EnterTake, ConnectFails, BeginExchange, Reusable,
                          EnterStore, Cancel, Goto, HoldsAt
    <2> QED BY <2>1, <2>2, OwnSame
<1>2. ASSUME NEW r \in Requests, TakeLocked(r) PROVE Ownership'
    <2>1. /\ Distinct(pool')
          /\ ExpiredConns \subseteq Pooled /\ Pooled \subseteq Conns
          /\ \/ /\ held' = held
                /\ pc' = [pc EXCEPT ![r] = "connect"]
                /\ Members(pool') = Pooled \ ExpiredConns
             \/ \E c \in Pooled \ ExpiredConns :
                   /\ held' = [held EXCEPT ![r] = c]
                   /\ pc' = [pc EXCEPT ![r] = "probe"]
                   /\ Members(pool') = (Pooled \ ExpiredConns) \ {c}
        BY <1>2, <1>0, TakenPool
    <2>2. open' = open \ ExpiredConns
        BY <1>2 DEF TakeLocked, Shutdown
    <2>3. pc[r] = "takeLocked"
        BY <1>2 DEF TakeLocked
    <2>4. held[r] = NoConn
        BY <1>0, <2>3 DEF HoldsExactly, HoldsAt
    <2>5. CASE /\ held' = held
               /\ pc' = [pc EXCEPT ![r] = "connect"]
               /\ Members(pool') = Pooled \ ExpiredConns
        <3>1. Pooled' = Pooled \ ExpiredConns
            BY <2>5 DEF Pooled
        <3>2. Owned(Pooled', held', open')
            BY <3>1, <2>5, <2>1, <2>2, <1>0 DEF Owned
        <3>3. HoldsExactly'
            BY <2>5, <2>3, <1>0, <1>T DEF HoldsExactly, HoldsAt
        <3> QED BY <3>2, <3>3, <2>1, <1>Q
    <2>6. ASSUME NEW c \in Pooled \ ExpiredConns,
                 held' = [held EXCEPT ![r] = c],
                 pc' = [pc EXCEPT ![r] = "probe"],
                 Members(pool') = (Pooled \ ExpiredConns) \ {c}
          PROVE  Ownership'
        <3>1. Pooled' = (Pooled \ ExpiredConns) \ {c}
            BY <2>6 DEF Pooled
        <3>2. c # NoConn
            BY <2>1, ConstantsAssumption
        <3>3. Owned(Pooled', held', open')
            BY <3>1, <3>2, <2>6, <2>1, <2>2, <2>4, <1>0, <1>T DEF Owned
        <3>4. HoldsExactly'
            BY <2>6, <2>3, <3>2, <1>0, <1>T DEF HoldsExactly, HoldsAt
        <3> QED BY <3>3, <3>4, <2>1, <1>Q
    <2> QED BY <2>1, <2>5, <2>6
<1>3. ASSUME NEW r \in Requests, ProbeTaken(r) PROVE Ownership'
    <2>1. pc[r] = "probe"
        BY <1>3 DEF ProbeTaken
    <2>2. CASE IsUsable(held[r])
        <3>1. UNCHANGED <<pool, open, held>> /\ pc' = [pc EXCEPT ![r] = "begin"]
            BY <1>3, <2>2 DEF ProbeTaken, Goto
        <3>2. \A q \in Requests : pc[q] \in HoldsAt <=> pc'[q] \in HoldsAt
            BY <3>1, <2>1, <1>T DEF HoldsAt
        <3> QED BY <3>1, <3>2, OwnSame
    <2>3. CASE ~IsUsable(held[r])
        <3>1. DropConnection(r) /\ pc' = [pc EXCEPT ![r] = "take"]
            BY <1>3, <2>3 DEF ProbeTaken, DropConnection, Goto
        <3> QED BY <3>1, <2>1, OwnDrop DEF HoldsAt
    <2> QED BY <2>2, <2>3
<1>4. ASSUME NEW r \in Requests, Connect(r) PROVE Ownership'
    <2>1. PICK c \in Conns \ open :
             open' = open \cup {c} /\ held' = [held EXCEPT ![r] = c]
        BY <1>4 DEF Connect
    <2>2. /\ pool' = pool /\ pc[r] = "connect"
          /\ pc' = [pc EXCEPT ![r] = "begin"]
        BY <1>4 DEF Connect, Goto
    <2>3. c # NoConn /\ held[r] = NoConn
        BY <2>2, <1>0, ConstantsAssumption DEF HoldsExactly, HoldsAt
    <2>4. Pooled' = Pooled
        BY <2>2 DEF Pooled
    <2>5. Owned(Pooled', held', open')
        BY <2>1, <2>3, <2>4, <1>0, <1>T DEF Owned
    <2>6. HoldsExactly'
        BY <2>1, <2>2, <2>3, <1>0, <1>T DEF HoldsExactly, HoldsAt
    <2> QED BY <2>2, <2>5, <2>6, <1>0, <1>Q
<1>5. ASSUME NEW r \in Requests, Mismatched(r) \/ Unanswered(r) \/ Spent(r)
      PROVE  Ownership'
    <2>1. pc[r] = "exchange" /\ DropConnection(r)
          /\ \E l \in {"connect", "done"} : pc' = [pc EXCEPT ![r] = l]
        BY <1>5 DEF Mismatched, Unanswered, Spent, Goto
    <2> QED BY <2>1, OwnDrop DEF HoldsAt
<1>6. ASSUME NEW r \in Requests, ProbeReturned(r) PROVE Ownership'
    <2>1. pc[r] = "returnProbe"
        BY <1>6 DEF ProbeReturned
    <2>2. CASE IsUsable(held[r])
        <3>1. UNCHANGED <<pool, open, held>> /\ pc' = [pc EXCEPT ![r] = "store"]
            BY <1>6, <2>2 DEF ProbeReturned, Goto
        <3>2. \A q \in Requests : pc[q] \in HoldsAt <=> pc'[q] \in HoldsAt
            BY <3>1, <2>1, <1>T DEF HoldsAt
        <3> QED BY <3>1, <3>2, OwnSame
    <2>3. CASE ~IsUsable(held[r])
        <3>1. DropConnection(r) /\ pc' = [pc EXCEPT ![r] = "done"]
            BY <1>6, <2>3 DEF ProbeReturned, Goto
        <3> QED BY <3>1, <2>1, OwnDrop DEF HoldsAt
    <2> QED BY <2>2, <2>3
<1>7. ASSUME NEW r \in Requests, StoreLocked(r) PROVE Ownership'
    <2>1. pc[r] = "storeLocked" /\ held' = [held EXCEPT ![r] = NoConn]
          /\ pc' = [pc EXCEPT ![r] = "done"]
        BY <1>7 DEF StoreLocked, Goto
    <2>2. held[r] \in Conns /\ held[r] \notin Pooled
        BY <2>1, InHand DEF HoldsAt
    <2>3. /\ Distinct(pool') /\ ExpiredConns \subseteq Pooled
          /\ \E trimmed \in SUBSET ((Pooled \ ExpiredConns) \cup {held[r]}) :
                /\ Shutdown(ExpiredConns \cup trimmed)
                /\ Members(pool') =
                      ((Pooled \ ExpiredConns) \cup {held[r]}) \ trimmed
        BY <1>7, <2>2, <1>0, ReturnedPool
    <2>4. PICK trimmed \in SUBSET ((Pooled \ ExpiredConns) \cup {held[r]}) :
             /\ open' = open \ (ExpiredConns \cup trimmed)
             /\ Members(pool') = ((Pooled \ ExpiredConns) \cup {held[r]}) \ trimmed
        BY <2>3 DEF Shutdown
    <2>5. Pooled' = ((Pooled \ ExpiredConns) \cup {held[r]}) \ trimmed
        BY <2>4 DEF Pooled
    <2>6. held[r] # NoConn
        BY <2>2, ConstantsAssumption
    <2>7. Owned(Pooled', held', open')
        BY <2>1, <2>2, <2>3, <2>4, <2>5, <2>6, <1>0, <1>T DEF Owned
    <2>8. HoldsExactly'
        BY <2>1, <1>0, <1>T DEF HoldsExactly, HoldsAt
    <2> QED BY <2>3, <2>7, <2>8, <1>Q
<1>8. CASE (\E c \in Conns : PeerActs(c)) \/ Tick \/ UNCHANGED vars
    <2>1. UNCHANGED <<pool, open, held, pc>>
        BY <1>8 DEF PeerActs, Tick, vars
    <2> QED BY <2>1, OwnSame
<1> QED BY <1>1, <1>2, <1>3, <1>4, <1>5, <1>6, <1>7, <1>8 DEF Next, PerformRequest

-----------------------------------------------------------------------------
(* Retries.                                                                *)

LEMMA RetryStep ==
    ASSUME TypeOK, RetriesBounded, RetryPhase, [Next]_vars
    PROVE  RetriesBounded' /\ RetryPhase'
<1>T. /\ pc \in [Requests -> Locations]
      /\ pooled \in [Requests -> BOOLEAN]
      /\ validating \in [Requests -> BOOLEAN]
      /\ attempts \in [Requests -> Nat]
    BY DEF TypeOK
<1> DEFINE Phase(q, l, n, p, v) ==
              /\ l \in {"idle", "take", "takeLocked", "probe"} => n = 0 /\ p = FALSE
              /\ l = "connect" => /\ p = FALSE
                                  /\ n <= 2
                                  /\ v = TRUE => n <= 1
              /\ l = "begin" => /\ n <= 2
                                /\ v = TRUE => n <= 1
                                /\ p = TRUE => n = 0
              /\ l = "exchange" => /\ n <= 3
                                   /\ v = TRUE => n <= 2
                                   /\ p = TRUE => n = 1
              /\ n <= 3 /\ (n >= 2 => ~p)
<1>0. \A q \in Requests : Phase(q, pc[q], attempts[q], pooled[q], validating[q])
    BY DEF RetryPhase, RetriesBounded
<1>P. ASSUME \A q \in Requests : Phase(q, pc'[q], attempts'[q], pooled'[q], validating'[q])
      PROVE  RetriesBounded' /\ RetryPhase'
    BY <1>P DEF RetryPhase, RetriesBounded
<1>1. ASSUME NEW r \in Requests, PerformRequest(r)
      PROVE  /\ \A q \in Requests \ {r} :
                   /\ pc'[q] = pc[q] /\ attempts'[q] = attempts[q]
                   /\ pooled'[q] = pooled[q] /\ validating'[q] = validating[q]
             /\ Phase(r, pc'[r], attempts'[r], pooled'[r], validating'[r])
    <2>1. Phase(r, pc[r], attempts[r], pooled[r], validating[r])
        BY <1>0
    <2>2. attempts[r] \in Nat /\ pooled[r] \in BOOLEAN /\ validating[r] \in BOOLEAN
        BY <1>T
    <2>3. CASE Start(r)
        BY <2>1, <2>2, <2>3, <1>T DEF Start, Goto
    <2>4. CASE EnterTake(r) \/ TakeLocked(r) \/ ConnectFails(r) \/ Spent(r)
               \/ ProbeReturned(r) \/ EnterStore(r) \/ StoreLocked(r)
        <3>1. /\ UNCHANGED <<attempts, pooled, validating>>
              /\ \/ pc[r] = "take" /\ pc' = [pc EXCEPT ![r] = "takeLocked"]
                 \/ /\ pc[r] = "takeLocked"
                    /\ \E l \in {"connect", "probe"} : pc' = [pc EXCEPT ![r] = l]
                 \/ \E l \in {"done", "store", "storeLocked"} : pc' = [pc EXCEPT ![r] = l]
            BY <2>4 DEF EnterTake, TakeLocked, ConnectFails, Spent, ProbeReturned,
                        EnterStore, StoreLocked, Goto
        <3> QED BY <3>1, <2>1, <2>2, <1>T
    <2>5. CASE ProbeTaken(r)
        <3>1. pc[r] = "probe" /\ validating' = validating
              /\ \/ /\ pc' = [pc EXCEPT ![r] = "take"]
                    /\ UNCHANGED <<pooled, attempts>>
                 \/ /\ pc' = [pc EXCEPT ![r] = "begin"]
                    /\ pooled' = [pooled EXCEPT ![r] = TRUE]
                    /\ UNCHANGED attempts
            BY <2>5 DEF ProbeTaken, Goto
        <3> QED BY <3>1, <2>1, <2>2, <1>T
    <2>6. CASE Connect(r)
        <3>1. /\ pc[r] = "connect" /\ UNCHANGED <<attempts, pooled, validating>>
              /\ pc' = [pc EXCEPT ![r] = "begin"]
            BY <2>6 DEF Connect, Goto
        <3> QED BY <3>1, <2>1, <2>2, <1>T
    <2>10. CASE BeginExchange(r)
        <3>1. /\ pc[r] = "begin" /\ UNCHANGED <<pooled, validating>>
              /\ pc' = [pc EXCEPT ![r] = "exchange"]
              /\ attempts' = [attempts EXCEPT ![r] = @ + 1]
            BY <2>10 DEF BeginExchange, Goto, connVars
        <3> QED BY <3>1, <2>1, <2>2, <1>T
    <2>7. CASE Mismatched(r)
        <3>1. /\ pc[r] = "exchange" /\ validating[r] /\ UNCHANGED attempts
              /\ validating' = [validating EXCEPT ![r] = FALSE]
              /\ pooled' = [pooled EXCEPT ![r] = FALSE]
              /\ pc' = [pc EXCEPT ![r] = "connect"]
            BY <2>7 DEF Mismatched, Goto, PooledAfterRetry
        <3>2. validating[r] = TRUE
            BY <3>1, <2>2
        <3> QED BY <3>1, <3>2, <2>1, <2>2, <1>T
    <2>8. CASE Unanswered(r)
        <3>1. /\ pc[r] = "exchange" /\ UNCHANGED <<attempts, validating>>
              /\ \/ /\ pooled[r]
                    /\ pooled' = [pooled EXCEPT ![r] = FALSE]
                    /\ pc' = [pc EXCEPT ![r] = "connect"]
                 \/ pooled' = pooled /\ pc' = [pc EXCEPT ![r] = "done"]
            BY <2>8 DEF Unanswered, Goto, PooledAfterRetry
        <3> QED BY <3>1, <2>1, <2>2, <1>T
    <2>9. CASE Reusable(r)
        <3>1. /\ UNCHANGED <<attempts, pooled>>
              /\ validating' = [validating EXCEPT ![r] = FALSE]
              /\ pc' = [pc EXCEPT ![r] = "returnProbe"]
            BY <2>9 DEF Reusable, Goto
        <3> QED BY <3>1, <2>1, <2>2, <1>T
    <2> QED BY <1>1, <2>3, <2>4, <2>5, <2>6, <2>7, <2>8, <2>9, <2>10
            DEF PerformRequest
<1>2. CASE \E r \in Requests : PerformRequest(r)
    <2>1. PICK r \in Requests : PerformRequest(r)
        BY <1>2
    <2> HIDE DEF Phase
    <2>2. ASSUME NEW q \in Requests
          PROVE  Phase(q, pc'[q], attempts'[q], pooled'[q], validating'[q])
        <3>1. CASE q = r
            BY <2>1, <3>1, <1>1
        <3>2. CASE q # r
            <4>1. /\ pc'[q] = pc[q] /\ attempts'[q] = attempts[q]
                  /\ pooled'[q] = pooled[q] /\ validating'[q] = validating[q]
                BY <2>1, <3>2, <1>1
            <4>2. Phase(q, pc[q], attempts[q], pooled[q], validating[q])
                BY <1>0
            <4> QED BY ONLY <4>1, <4>2
        <3> QED BY <3>1, <3>2
    <2> QED BY <2>2, <1>P
<1>3. CASE (\E r \in Requests : Cancel(r)) \/ (\E c \in Conns : PeerActs(c)) \/ Tick
           \/ UNCHANGED vars
    <2>1. UNCHANGED <<pc, attempts, pooled, validating>>
        BY <1>3 DEF Cancel, PeerActs, Tick, vars, connVars
    <2> QED BY <2>1, <1>0, <1>P
<1> QED BY <1>2, <1>3 DEF Next

-----------------------------------------------------------------------------
(* The theorems.                                                           *)

LEMMA Inductive == Spec => []IInv
<1>1. Init => IInv
    BY InitIInv
<1>2. IInv /\ [Next]_vars => IInv'
    <2> SUFFICES ASSUME IInv, [Next]_vars PROVE IInv'
        OBVIOUS
    <2>0. TypeOK /\ Ownership /\ RetriesBounded /\ RetryPhase
        BY DEF IInv
    <2>1. TypeOK'
        BY <2>0, TypeStep
    <2>2. Ownership'
        BY <2>0, OwnershipStep
    <2>3. RetriesBounded' /\ RetryPhase'
        BY <2>0, RetryStep
    <2> QED BY <2>1, <2>2, <2>3 DEF IInv
<1> QED BY <1>1, <1>2, PTL DEF Spec

\* Types, and no bucket is ever longer than kIdlePerHost outside the lock.
THEOREM TypeCorrect == Spec => []TypeOK
<1>1. IInv => TypeOK
    BY DEF IInv
<1> QED BY <1>1, Inductive, PTL

\* No connection is handed to two requests, or handed out and pooled, by any
\* interleaving of takeIdleConnection and returnIdleConnection.
THEOREM OneOwnerPerConnection == Spec => []OneOwner
<1>1. IInv => OneOwner
    BY DEF IInv, Ownership
<1> QED BY <1>1, Inductive, PTL

\* Whatever is shut down has left the pool, and no open socket is forgotten.
THEOREM NothingLeaks == Spec => []OpenAreOwned
<1>1. IInv => OpenAreOwned
    BY DEF IInv, Ownership
<1> QED BY <1>1, Inductive, PTL

\* performRequest's loop sends a request at most three times.
THEOREM RetriesAreBounded == Spec => []RetriesBounded
<1>1. IInv => RetriesBounded
    BY DEF IInv
<1> QED BY <1>1, Inductive, PTL
=============================================================================
