---------------------- MODULE OwnedReferences_proofs -----------------------
(***************************************************************************)
(* Proofs about OwnedReferences, in two parts.                             *)
(*                                                                         *)
(* The first is about any script: an assertion says of a place in it which *)
(* names own a reference there, which are set, which are NULL and which    *)
(* are borrowed; `Sound' says what a step asks for and which assertion     *)
(* then has to hold, and a script that keeps to that, from the arguments   *)
(* to each of its returns, never works on what is gone and leaves nothing  *)
(* behind.  The second part gives such an assertion for each place of each *)
(* function: the lines of a function's proof, read from the last to the    *)
(* first, are the function with what it owns between its steps.            *)
(***************************************************************************)
EXTENDS OwnedReferences, FiniteSetTheorems, SequenceTheorems, TLAPS

-----------------------------------------------------------------------------
(* Places of a script *)

IsSeq(s) == \E S : s \in Seq(S)

\* The i-th step of s is d, and j comes next; or there is none.
Step(s, i, d, j) == IsSeq(s) /\ i \in 1..Len(s) /\ s[i] = d /\ j = i + 1
End(s, j) == IsSeq(s) /\ j = Len(s) + 1

\* The rest of s from its i-th step, and then r.
From(s, i, r) == SubSeq(s, i, Len(s)) \o r

LEMMA CommonSet ==
    ASSUME NEW s, NEW r, IsSeq(s), IsSeq(r)
    PROVE  \E S : s \in Seq(S) /\ r \in Seq(S)
<1>1. PICK S, T : s \in Seq(S) /\ r \in Seq(T)
    BY DEF IsSeq
<1>2. s \in Seq(S \cup T) /\ r \in Seq(S \cup T)
    <2>1. S \subseteq S \cup T /\ T \subseteq S \cup T
        OBVIOUS
    <2> QED
        BY <1>1, <2>1, SeqMonotonic
<1> QED
    BY <1>2

LEMMA ConcatIsSeq ==
    ASSUME NEW s, NEW r, IsSeq(s), IsSeq(r)
    PROVE  IsSeq(s \o r)
<1>1. PICK S : s \in Seq(S) /\ r \in Seq(S)
    BY CommonSet
<1> QED
    BY <1>1, ConcatProperties DEF IsSeq

LEMMA StepFrom ==
    ASSUME NEW s, NEW i, NEW d, NEW j, NEW r, Step(s, i, d, j), IsSeq(r)
    PROVE  /\ From(s, i, r) # <<>> /\ Head(From(s, i, r)) = d
           /\ Tail(From(s, i, r)) = From(s, j, r)
           /\ IsSeq(From(s, i, r)) /\ IsSeq(From(s, j, r))
<1>1. PICK S : s \in Seq(S) /\ r \in Seq(S)
    BY CommonSet DEF Step
<1>2. i \in 1..Len(s) /\ j = i + 1 /\ s[i] = d /\ Len(s) \in Nat
    BY <1>1, LenProperties DEF Step
<1> DEFINE q == SubSeq(s, i, Len(s))
<1>3. /\ q \in Seq(S)
      /\ Len(q) = Len(s) - i + 1
      /\ Head(q) = d
      /\ Tail(q) = SubSeq(s, j, Len(s))
    <2>1. \A k \in i..Len(s) : s[k] \in S
        BY <1>1, <1>2, ElementOfSeq
    <2>2. q \in Seq(S) /\ Len(q) = Len(s) - i + 1
        BY <1>2, <2>1, SubSeqProperties
    <2>3. Head(q) = s[i] /\ Tail(q) = SubSeq(s, i + 1, Len(s))
        BY <1>1, <1>2, HeadTailOfSubSeq
    <2> QED
        BY <1>2, <2>2, <2>3
<1> HIDE DEF q
<1>4. q # <<>> /\ Len(q) \in Nat \ {0}
    BY <1>2, <1>3, EmptySeq
<1>5. q \o r \in Seq(S) /\ Len(q \o r) = Len(q) + Len(r) /\ Len(r) \in Nat
      /\ \A k \in 1..Len(q) + Len(r) :
            (q \o r)[k] = IF k <= Len(q) THEN q[k] ELSE r[k - Len(q)]
    BY <1>1, <1>3, ConcatProperties, LenProperties
<1>6. q \o r # <<>>
    BY <1>1, <1>3, <1>4, ConcatEqualIffEmpty
<1>7. Head(q \o r) = d
    BY <1>3, <1>4, <1>5
<1>8. Tail(q \o r) = Tail(q) \o r
    <2>1. Tail(q) \in Seq(S) /\ Len(Tail(q)) = Len(q) - 1
          /\ \A k \in 1..Len(Tail(q)) : Tail(q)[k] = q[k + 1]
        BY <1>3, <1>4, HeadTailProperties
    <2>2. Tail(q \o r) \in Seq(S) /\ Len(Tail(q \o r)) = Len(q \o r) - 1
          /\ \A k \in 1..Len(Tail(q \o r)) : Tail(q \o r)[k] = (q \o r)[k + 1]
        BY <1>5, <1>6, HeadTailProperties
    <2>3. Tail(q) \o r \in Seq(S) /\ Len(Tail(q) \o r) = Len(Tail(q)) + Len(r)
          /\ \A k \in 1..Len(Tail(q)) + Len(r) :
                (Tail(q) \o r)[k] =
                    IF k <= Len(Tail(q)) THEN Tail(q)[k] ELSE r[k - Len(Tail(q))]
        BY <1>1, <2>1, ConcatProperties
    <2>4. Len(Tail(q \o r)) = Len(Tail(q) \o r)
        BY <1>4, <1>5, <2>1, <2>2, <2>3
    <2>5. ASSUME NEW k \in 1..Len(Tail(q \o r))
          PROVE  Tail(q \o r)[k] = (Tail(q) \o r)[k]
        <3>1. k + 1 \in 1..Len(q) + Len(r) /\ k \in 1..Len(Tail(q)) + Len(r)
            BY <1>4, <1>5, <2>1, <2>2
        <3>2. (q \o r)[k + 1] = IF k + 1 <= Len(q) THEN q[k + 1] ELSE r[k + 1 - Len(q)]
            BY <1>5, <3>1
        <3>3. (Tail(q) \o r)[k] =
                  IF k <= Len(Tail(q)) THEN Tail(q)[k] ELSE r[k - Len(Tail(q))]
            BY <2>3, <3>1
        <3>4. k + 1 <= Len(q) <=> k <= Len(Tail(q))
            BY <1>4, <2>1
        <3>5. k + 1 - Len(q) = k - Len(Tail(q))
            BY <1>4, <2>1
        <3>6. k <= Len(Tail(q)) => Tail(q)[k] = q[k + 1]
            BY <2>1
        <3> QED
            BY <2>2, <3>2, <3>3, <3>4, <3>5, <3>6
    <2> QED
        BY <2>2, <2>3, <2>4, <2>5, SeqEqual
<1>9. Tail(q \o r) \in Seq(S)
    BY <1>5, <1>6, HeadTailProperties
<1> QED
    BY <1>3, <1>5, <1>6, <1>7, <1>8, <1>9 DEF From, q, IsSeq

LEMMA StartAndEnd ==
    ASSUME NEW s, NEW r, IsSeq(s), IsSeq(r)
    PROVE  /\ From(s, 1, r) = s \o r
           /\ \A j : End(s, j) => From(s, j, r) = r
<1>1. PICK S : s \in Seq(S) /\ r \in Seq(S)
    BY CommonSet
<1>2. SubSeq(s, 1, Len(s)) = s
    BY <1>1, SubSeqFull
<1>3. SubSeq(s, Len(s) + 1, Len(s)) = <<>>
    BY <1>1, SubSeqEmpty, LenProperties
<1>4. <<>> \o r = r
    BY <1>1, ConcatEmptySeq
<1> QED
    BY <1>2, <1>3, <1>4 DEF From, End

LEMMA NothingAfter ==
    ASSUME NEW s, IsSeq(s)
    PROVE  From(s, 1, <<>>) = s /\ IsSeq(<<>>)
<1>1. PICK S : s \in Seq(S)
    BY DEF IsSeq
<1>2. s \o <<>> = s /\ <<>> \in Seq(S)
    BY <1>1, ConcatEmptySeq, EmptySeq
<1>3. IsSeq(<<>>)
    BY <1>2 DEF IsSeq
<1> QED
    BY <1>2, <1>3, StartAndEnd

LEMMA Joined ==
    ASSUME NEW s, NEW t, NEW r, IsSeq(s), IsSeq(t), IsSeq(r)
    PROVE  (s \o t) \o r = s \o (t \o r)
<1>1. PICK S : s \in Seq(S) /\ t \o r \in Seq(S)
    BY CommonSet, ConcatIsSeq
<1>2. PICK T : t \in Seq(T) /\ r \in Seq(T)
    BY CommonSet
<1>3. S \subseteq S \cup T /\ T \subseteq S \cup T
    OBVIOUS
<1>4. s \in Seq(S \cup T) /\ t \in Seq(S \cup T) /\ r \in Seq(S \cup T)
    BY <1>1, <1>2, <1>3, SeqMonotonic
<1> QED
    BY <1>4, ConcatAssociative

-----------------------------------------------------------------------------
(* Assertions, and what a step asks for *)

\* Besides the cache, which always owns itself, the names in own have one reference
\* each, unless they are NULL. Those in set are not NULL and those in nul are; those in
\* lent are NULL or in what c refers to.
Knows(own, set, nul, c, lent) ==
    [own |-> own, set |-> set, nul |-> nul, c |-> c, lent |-> lent]

\* The function may work on what x refers to.
Firm(x, own, set, c, lent) ==
    x \in set /\ (x \in own \cup {Static} \/ (x \in lent /\ c \in own /\ c \in set))

\* Nothing is lost when x is made to refer to something else.
Unused(x, own, nul) == x # "NULL" /\ (x \in own \cup {Static} => x \in nul)

\* What still is borrowed then.
Spared(lent, x, c) == IF x = c THEN {} ELSE lent \ {x}

\* The first assertion says no more than the second.
Weaker(own2, set2, nul2, lent2, own, set, nul, lent) ==
    /\ own2 \cup nul = own \cup nul
    /\ set2 \subseteq set /\ nul2 \subseteq nul /\ lent2 \subseteq lent

Leads(G, u, own, set, nul, c, lent) ==
    \E own2, set2, nul2, lent2 :
        /\ <<u, Knows(own2, set2, nul2, c, lent2)>> \in G
        /\ Weaker(own2, set2, nul2, lent2, own, set, nul, lent)

\* f may return x: the arguments and x are all that it owns.
Settled(f, x, own, set, nul) ==
    /\ x # Static /\ x # "result"
    /\ x \notin Calls[f].given /\ "result" \notin Calls[f].given
    /\ x = "NULL" \/ x \in own \cup nul
    /\ own \subseteq Calls[f].given \cup {x, Static} \cup nul
    /\ IF f = "fdopendir"
         THEN /\ Calls[f].given \ {"fd"} \subseteq own \cup nul
              /\ (x \in set /\ "fd" \notin own) \/ (x \in nul \cup {"NULL"} /\ "fd" \in own)
         ELSE Calls[f].given \subseteq own \cup nul

\* Where the rest of f is t and the assertion holds, the step is allowed, and from it
\* each way on leads to a place and an assertion in G.
Sound(f, G, t, own, set, nul, c, lent) ==
    LET d == Head(t)
        on == Tail(t)
    IN /\ t # <<>>
       /\ \A n \in d.needs : Firm(n, own, set, c, lent)
       /\ d.op \in {"new", "sure"} => Unused(d.x, own, nul)
       /\ d.op = "sure" => Leads(G, on, own \cup {d.x}, set \cup {d.x}, nul \ {d.x}, c,
                                 Spared(lent, d.x, c))
       /\ d.op = "new" => Leads(G, on, own \cup {d.x}, set \ {d.x}, nul \ {d.x}, c,
                                Spared(lent, d.x, c))
       /\ d.op = "get" => \E x : /\ d.x = <<x, c>> /\ c \in d.needs
                                 /\ Unused(x, own, nul) /\ x \notin {c, Static}
                                 /\ Leads(G, on, own \ {x}, set \ {x}, nul \ {x}, c,
                                          lent \cup {x})
       /\ d.op = "put" => \E x, y : /\ d.x = <<x, y>> /\ x \in d.needs /\ y \in d.needs
                                    /\ Leads(G, on, own, set, nul, c, lent)
       /\ d.op = "use" => Leads(G, on, own, set, nul, c, lent)
       /\ d.op = "drop" => /\ d.x \in own \cap set /\ d.x # Static
                           /\ Leads(G, on, own \ {d.x}, set, nul, c, lent)
       /\ d.op = "set" =>
            /\ d.x \notin nul => Leads(G, d.then \o on, own, set \cup {d.x}, nul, c, lent)
            /\ d.x \notin set => Leads(G, on, own, set, nul \cup {d.x}, c, lent)
       /\ d.op = "null" =>
            /\ d.x \notin set => Leads(G, d.then \o on, own, set, nul \cup {d.x}, c, lent)
            /\ d.x \notin nul => Leads(G, on, own, set \cup {d.x}, nul, c, lent)
       /\ d.op = "maybe" => /\ Leads(G, d.then \o on, own, set, nul, c, lent)
                            /\ Leads(G, on, own, set, nul, c, lent)
       /\ d.op = "repeat" => /\ Leads(G, d.then \o t, own, set, nul, c, lent)
                             /\ Leads(G, on, own, set, nul, c, lent)
       /\ d.op = "return" => Settled(f, d.x, own, set, nul)

\* Places and assertions that lead only to each other and to those in H, where H is
\* the head of the loop that the place is in.
Closed(f, S, G) ==
    \A p \in S : \E t, own, set, nul, c, lent :
        p = <<t, Knows(own, set, nul, c, lent)>> /\ Sound(f, G, t, own, set, nul, c, lent)

Good(f, H, t, a) == \E S : Closed(f, S, S \cup H) /\ <<t, a>> \in S \cup H

LEMMA LeadsMonotone ==
    ASSUME NEW G, NEW G2, G \subseteq G2, NEW u, NEW own, NEW set, NEW nul, NEW c, NEW lent,
           Leads(G, u, own, set, nul, c, lent)
    PROVE  Leads(G2, u, own, set, nul, c, lent)
BY DEF Leads

LEMMA SoundMonotone ==
    ASSUME NEW f, NEW G, NEW G2, G \subseteq G2,
           NEW t, NEW own, NEW set, NEW nul, NEW c, NEW lent,
           Sound(f, G, t, own, set, nul, c, lent)
    PROVE  Sound(f, G2, t, own, set, nul, c, lent)
<1>1. \A u, o, s, n, l : Leads(G, u, o, s, n, c, l) => Leads(G2, u, o, s, n, c, l)
    BY LeadsMonotone
<1> DEFINE d == Head(t)
           on == Tail(t)
<1>2. /\ t # <<>>
      /\ \A n \in d.needs : Firm(n, own, set, c, lent)
      /\ d.op \in {"new", "sure"} => Unused(d.x, own, nul)
      /\ d.op = "return" => Settled(f, d.x, own, set, nul)
    BY Zenon DEF Sound
<1>3. d.op = "sure" => Leads(G2, on, own \cup {d.x}, set \cup {d.x}, nul \ {d.x}, c,
                             Spared(lent, d.x, c))
    BY <1>1, Zenon DEF Sound
<1>4. d.op = "new" => Leads(G2, on, own \cup {d.x}, set \ {d.x}, nul \ {d.x}, c,
                            Spared(lent, d.x, c))
    BY <1>1, Zenon DEF Sound
<1>5. d.op = "get" => \E x : /\ d.x = <<x, c>> /\ c \in d.needs
                             /\ Unused(x, own, nul) /\ x \notin {c, Static}
                             /\ Leads(G2, on, own \ {x}, set \ {x}, nul \ {x}, c,
                                       lent \cup {x})
    BY <1>1, Zenon DEF Sound
<1>6. d.op = "put" => \E x, y : /\ d.x = <<x, y>> /\ x \in d.needs /\ y \in d.needs
                                /\ Leads(G2, on, own, set, nul, c, lent)
    BY <1>1, Zenon DEF Sound
<1> QED
    BY <1>1, <1>2, <1>3, <1>4, <1>5, <1>6, Zenon DEF Sound

LEMMA ClosedMonotone ==
    ASSUME NEW f, NEW S, NEW G, NEW G2, G \subseteq G2, Closed(f, S, G)
    PROVE  Closed(f, S, G2)
BY SoundMonotone DEF Closed

LEMMA GoodMonotone ==
    ASSUME NEW f, NEW H, NEW H2, H \subseteq H2, NEW t, NEW a, Good(f, H, t, a)
    PROVE  Good(f, H2, t, a)
<1>1. PICK S : Closed(f, S, S \cup H) /\ <<t, a>> \in S \cup H
    BY DEF Good
<1>2. Closed(f, S, S \cup H2)
    BY <1>1, ClosedMonotone
<1> QED
    BY <1>1, <1>2 DEF Good

\* A step that leads to good places, or around a loop to itself, is at one.
LEMMA Join ==
    ASSUME NEW f, NEW H, NEW t, NEW own, NEW set, NEW nul, NEW c, NEW lent,
           NEW u1, NEW b1, NEW u2, NEW b2,
           LET H2 == H \cup {<<t, Knows(own, set, nul, c, lent)>>}
           IN Good(f, H2, u1, b1) /\ Good(f, H2, u2, b2),
           Sound(f, {<<u1, b1>>, <<u2, b2>>}, t, own, set, nul, c, lent)
    PROVE  Good(f, H, t, Knows(own, set, nul, c, lent))
<1> DEFINE p == <<t, Knows(own, set, nul, c, lent)>>
           H2 == H \cup {p}
<1>1. PICK S1 : Closed(f, S1, S1 \cup H2) /\ <<u1, b1>> \in S1 \cup H2
    BY DEF Good
<1>2. PICK S2 : Closed(f, S2, S2 \cup H2) /\ <<u2, b2>> \in S2 \cup H2
    BY DEF Good
<1> DEFINE S == S1 \cup S2 \cup {p}
<1>3. S1 \cup H2 \subseteq S \cup H /\ S2 \cup H2 \subseteq S \cup H
    OBVIOUS
<1>4. Closed(f, S1, S \cup H) /\ Closed(f, S2, S \cup H)
    <2> HIDE DEF S, H2
    <2> QED
        BY <1>1, <1>2, <1>3, ClosedMonotone
<1>5. Sound(f, S \cup H, t, own, set, nul, c, lent)
    <2>1. {<<u1, b1>>, <<u2, b2>>} \subseteq S \cup H
        BY <1>1, <1>2, <1>3
    <2> HIDE DEF S, H2
    <2> QED
        BY <2>1, SoundMonotone
<1>6. Closed(f, S, S \cup H)
    <2> SUFFICES ASSUME NEW q \in S
                 PROVE  \E t2, own2, set2, nul2, c2, lent2 :
                            /\ q = <<t2, Knows(own2, set2, nul2, c2, lent2)>>
                            /\ Sound(f, S \cup H, t2, own2, set2, nul2, c2, lent2)
        BY Zenon DEF Closed
    <2>1. CASE q \in S1
        BY <1>4, <2>1, Zenon DEF Closed
    <2>2. CASE q \in S2
        BY <1>4, <2>2, Zenon DEF Closed
    <2>3. CASE q = p
        BY <1>5, <2>3, Zenon
    <2> QED
        BY <2>1, <2>2, <2>3
<1> QED
    BY <1>6, Zenon DEF Good

LEMMA Onward ==
    ASSUME NEW f, NEW H, NEW t, NEW own, NEW set, NEW nul, NEW c, NEW lent,
           NEW u, NEW b, Good(f, H, u, b),
           Sound(f, {<<u, b>>}, t, own, set, nul, c, lent)
    PROVE  Good(f, H, t, Knows(own, set, nul, c, lent))
<1> DEFINE H2 == H \cup {<<t, Knows(own, set, nul, c, lent)>>}
<1>1. Good(f, H2, u, b)
    BY GoodMonotone
<1>2. {<<u, b>>, <<u, b>>} = {<<u, b>>}
    OBVIOUS
<1> QED
    BY <1>1, <1>2, Join

LEMMA Branching ==
    ASSUME NEW f, NEW H, NEW t, NEW own, NEW set, NEW nul, NEW c, NEW lent,
           NEW u1, NEW b1, NEW u2, NEW b2, Good(f, H, u1, b1), Good(f, H, u2, b2),
           Sound(f, {<<u1, b1>>, <<u2, b2>>}, t, own, set, nul, c, lent)
    PROVE  Good(f, H, t, Knows(own, set, nul, c, lent))
<1> DEFINE H2 == H \cup {<<t, Knows(own, set, nul, c, lent)>>}
<1>1. Good(f, H2, u1, b1) /\ Good(f, H2, u2, b2)
    BY GoodMonotone
<1> QED
    BY <1>1, Join

\* At a good place the step is allowed and leads to good places.
LEMMA Unfold ==
    ASSUME NEW f, NEW t, NEW a, Good(f, {}, t, a)
    PROVE  \E S, own, set, nul, c, lent :
               /\ a = Knows(own, set, nul, c, lent)
               /\ Sound(f, S, t, own, set, nul, c, lent)
               /\ \A u, b : <<u, b>> \in S => Good(f, {}, u, b)
<1>1. PICK S : Closed(f, S, S \cup {}) /\ <<t, a>> \in S \cup {}
    BY DEF Good
<1>2. S \cup {} = S
    OBVIOUS
<1>3. \A u, b : <<u, b>> \in S => Good(f, {}, u, b)
    BY <1>1, <1>2, Zenon DEF Good
<1>4. PICK t2, own, set, nul, c, lent :
        /\ <<t, a>> = <<t2, Knows(own, set, nul, c, lent)>>
        /\ Sound(f, S, t2, own, set, nul, c, lent)
    BY <1>1, <1>2 DEF Closed
<1>5. t = t2 /\ a = Knows(own, set, nul, c, lent)
    BY <1>4
<1> QED
    BY <1>3, <1>4, <1>5

-----------------------------------------------------------------------------
(* The rules: a place is good from what comes after it *)

\* What is made or copied for certain is owned and set.
LEMMA SureAt ==
    ASSUME NEW f, NEW H, NEW s, NEW i, NEW j, NEW r,
           NEW own, NEW set, NEW nul, NEW c, NEW lent,
           NEW own2, NEW set2, NEW nul2, NEW lent2,
           NEW x, NEW needs, Step(s, i, Sure(x, needs), j), IsSeq(r),
           \A n \in needs : Firm(n, own, set, c, lent), Unused(x, own, nul),
           Weaker(own2, set2, nul2, lent2, own \cup {x}, set \cup {x}, nul \ {x},
                  Spared(lent, x, c)),
           Good(f, H, From(s, j, r), Knows(own2, set2, nul2, c, lent2))
    PROVE  Good(f, H, From(s, i, r), Knows(own, set, nul, c, lent))
<1> DEFINE t == From(s, i, r)
           G == {<<From(s, j, r), Knows(own2, set2, nul2, c, lent2)>>}
<1>1. t # <<>> /\ Head(t) = Sure(x, needs) /\ Tail(t) = From(s, j, r)
    BY StepFrom
<1>2. Leads(G, From(s, j, r), own \cup {x}, set \cup {x}, nul \ {x}, c, Spared(lent, x, c))
    <2>1. <<From(s, j, r), Knows(own2, set2, nul2, c, lent2)>> \in G
        OBVIOUS
    <2> HIDE DEF G
    <2> QED
        BY <2>1 DEF Leads
<1> HIDE DEF t, G
<1>3. Sound(f, G, t, own, set, nul, c, lent)
    <2> DEFINE d == Head(t)
    <2>1. d.op = "sure" /\ d.x = x /\ d.needs = needs
        BY <1>1 DEF Sure, Do
    <2> QED
        BY <1>1, <1>2, <2>1 DEF Sound
<1> QED
    BY <1>3, Onward DEF t, G

\* It is owned, and set if it was made.
LEMMA NewAt ==
    ASSUME NEW f, NEW H, NEW s, NEW i, NEW j, NEW r,
           NEW own, NEW set, NEW nul, NEW c, NEW lent,
           NEW own2, NEW set2, NEW nul2, NEW lent2,
           NEW x, NEW needs, Step(s, i, New(x, needs), j), IsSeq(r),
           \A n \in needs : Firm(n, own, set, c, lent), Unused(x, own, nul),
           Weaker(own2, set2, nul2, lent2, own \cup {x}, set \ {x}, nul \ {x},
                  Spared(lent, x, c)),
           Good(f, H, From(s, j, r), Knows(own2, set2, nul2, c, lent2))
    PROVE  Good(f, H, From(s, i, r), Knows(own, set, nul, c, lent))
<1> DEFINE t == From(s, i, r)
           G == {<<From(s, j, r), Knows(own2, set2, nul2, c, lent2)>>}
<1>1. t # <<>> /\ Head(t) = New(x, needs) /\ Tail(t) = From(s, j, r)
    BY StepFrom
<1>2. Leads(G, From(s, j, r), own \cup {x}, set \ {x}, nul \ {x}, c, Spared(lent, x, c))
    <2>1. <<From(s, j, r), Knows(own2, set2, nul2, c, lent2)>> \in G
        OBVIOUS
    <2> HIDE DEF G
    <2> QED
        BY <2>1 DEF Leads
<1> HIDE DEF t, G
<1>3. Sound(f, G, t, own, set, nul, c, lent)
    <2> DEFINE d == Head(t)
    <2>1. d.op = "new" /\ d.x = x /\ d.needs = needs
        BY <1>1 DEF New, Do
    <2> QED
        BY <1>1, <1>2, <2>1 DEF Sound
<1> QED
    BY <1>3, Onward DEF t, G

\* It is borrowed from the container.
LEMMA GetAt ==
    ASSUME NEW f, NEW H, NEW s, NEW i, NEW j, NEW r,
           NEW own, NEW set, NEW nul, NEW c, NEW lent,
           NEW own2, NEW set2, NEW nul2, NEW lent2,
           NEW x, Step(s, i, Get(x, c), j), IsSeq(r),
           Firm(c, own, set, c, lent), Unused(x, own, nul), x \notin {c, Static},
           Weaker(own2, set2, nul2, lent2, own \ {x}, set \ {x}, nul \ {x}, lent \cup {x}),
           Good(f, H, From(s, j, r), Knows(own2, set2, nul2, c, lent2))
    PROVE  Good(f, H, From(s, i, r), Knows(own, set, nul, c, lent))
<1> DEFINE t == From(s, i, r)
           G == {<<From(s, j, r), Knows(own2, set2, nul2, c, lent2)>>}
<1>1. t # <<>> /\ Head(t) = Get(x, c) /\ Tail(t) = From(s, j, r)
    BY StepFrom
<1>2. Leads(G, From(s, j, r), own \ {x}, set \ {x}, nul \ {x}, c, lent \cup {x})
    <2>1. <<From(s, j, r), Knows(own2, set2, nul2, c, lent2)>> \in G
        OBVIOUS
    <2> HIDE DEF G
    <2> QED
        BY <2>1 DEF Leads
<1> HIDE DEF t, G
<1>3. Sound(f, G, t, own, set, nul, c, lent)
    <2> DEFINE d == Head(t)
    <2>1. d.op = "get" /\ d.x = <<x, c>> /\ d.needs = {c}
        BY <1>1 DEF Get, Do
    <2> QED
        BY <1>1, <1>2, <2>1 DEF Sound
<1> QED
    BY <1>3, Onward DEF t, G

\* Both are worked on, and nobody lets go of anything.
LEMMA PutAt ==
    ASSUME NEW f, NEW H, NEW s, NEW i, NEW j, NEW r,
           NEW own, NEW set, NEW nul, NEW c, NEW lent,
           NEW own2, NEW set2, NEW nul2, NEW lent2,
           NEW x, NEW y, Step(s, i, Put(x, y), j), IsSeq(r),
           Firm(x, own, set, c, lent), Firm(y, own, set, c, lent),
           Weaker(own2, set2, nul2, lent2, own, set, nul, lent),
           Good(f, H, From(s, j, r), Knows(own2, set2, nul2, c, lent2))
    PROVE  Good(f, H, From(s, i, r), Knows(own, set, nul, c, lent))
<1> DEFINE t == From(s, i, r)
           G == {<<From(s, j, r), Knows(own2, set2, nul2, c, lent2)>>}
<1>1. t # <<>> /\ Head(t) = Put(x, y) /\ Tail(t) = From(s, j, r)
    BY StepFrom
<1>2. Leads(G, From(s, j, r), own, set, nul, c, lent)
    <2>1. <<From(s, j, r), Knows(own2, set2, nul2, c, lent2)>> \in G
        OBVIOUS
    <2> HIDE DEF G
    <2> QED
        BY <2>1 DEF Leads
<1> HIDE DEF t, G
<1>3. Sound(f, G, t, own, set, nul, c, lent)
    <2> DEFINE d == Head(t)
    <2>1. d.op = "put" /\ d.x = <<x, y>> /\ d.needs = {x, y}
        BY <1>1 DEF Put, Do
    <2> QED
        BY <1>1, <1>2, <2>1 DEF Sound
<1> QED
    BY <1>3, Onward DEF t, G

LEMMA UseAt ==
    ASSUME NEW f, NEW H, NEW s, NEW i, NEW j, NEW r,
           NEW own, NEW set, NEW nul, NEW c, NEW lent,
           NEW own2, NEW set2, NEW nul2, NEW lent2,
           NEW needs, Step(s, i, Use(needs), j), IsSeq(r),
           \A n \in needs : Firm(n, own, set, c, lent),
           Weaker(own2, set2, nul2, lent2, own, set, nul, lent),
           Good(f, H, From(s, j, r), Knows(own2, set2, nul2, c, lent2))
    PROVE  Good(f, H, From(s, i, r), Knows(own, set, nul, c, lent))
<1> DEFINE t == From(s, i, r)
           G == {<<From(s, j, r), Knows(own2, set2, nul2, c, lent2)>>}
<1>1. t # <<>> /\ Head(t) = Use(needs) /\ Tail(t) = From(s, j, r)
    BY StepFrom
<1>2. Leads(G, From(s, j, r), own, set, nul, c, lent)
    <2>1. <<From(s, j, r), Knows(own2, set2, nul2, c, lent2)>> \in G
        OBVIOUS
    <2> HIDE DEF G
    <2> QED
        BY <2>1 DEF Leads
<1> HIDE DEF t, G
<1>3. Sound(f, G, t, own, set, nul, c, lent)
    <2> DEFINE d == Head(t)
    <2>1. d.op = "use" /\ d.needs = needs
        BY <1>1 DEF Use, Do
    <2> QED
        BY <1>1, <1>2, <2>1 DEF Sound
<1> QED
    BY <1>3, Onward DEF t, G

\* A reference that is owned is let go of, and the name is good for nothing more.
LEMMA DropAt ==
    ASSUME NEW f, NEW H, NEW s, NEW i, NEW j, NEW r,
           NEW own, NEW set, NEW nul, NEW c, NEW lent,
           NEW own2, NEW set2, NEW nul2, NEW lent2,
           NEW x, Step(s, i, Drop(x), j), IsSeq(r),
           Firm(x, own, set, c, lent), x \in own, x # Static,
           Weaker(own2, set2, nul2, lent2, own \ {x}, set, nul, lent),
           Good(f, H, From(s, j, r), Knows(own2, set2, nul2, c, lent2))
    PROVE  Good(f, H, From(s, i, r), Knows(own, set, nul, c, lent))
<1> DEFINE t == From(s, i, r)
           G == {<<From(s, j, r), Knows(own2, set2, nul2, c, lent2)>>}
<1>1. t # <<>> /\ Head(t) = Drop(x) /\ Tail(t) = From(s, j, r)
    BY StepFrom
<1>2. Leads(G, From(s, j, r), own \ {x}, set, nul, c, lent)
    <2>1. <<From(s, j, r), Knows(own2, set2, nul2, c, lent2)>> \in G
        OBVIOUS
    <2> HIDE DEF G
    <2> QED
        BY <2>1 DEF Leads
<1> HIDE DEF t, G
<1>3. Sound(f, G, t, own, set, nul, c, lent)
    <2> DEFINE d == Head(t)
    <2>1. d.op = "drop" /\ d.x = x /\ d.needs = {x} /\ x \in set
        BY <1>1 DEF Drop, Do, Firm
    <2> QED
        BY <1>1, <1>2, <2>1 DEF Sound
<1> QED
    BY <1>3, Onward DEF t, G

LEMMA NothingSteps == Step(Nothing, 1, Return("NULL"), 2) /\ IsSeq(Nothing)
<1>1. Nothing \in Seq({Return("NULL")})
    BY DEF Nothing
<1>2. Len(Nothing) = 1 /\ Nothing[1] = Return("NULL")
    BY DEF Nothing
<1> QED
    BY <1>1, <1>2 DEF Step, IsSeq

\* Both ways on, each with what the test has told.
LEMMA IfSetAt ==
    ASSUME NEW f, NEW H, NEW s, NEW i, NEW j, NEW r,
           NEW own, NEW set, NEW nul, NEW c, NEW lent,
           NEW own2, NEW set2, NEW nul2, NEW lent2,
           NEW own3, NEW set3, NEW nul3, NEW lent3,
           NEW x, NEW then, Step(s, i, IfSet(x, then), j), IsSeq(r), IsSeq(then),
           Weaker(own2, set2, nul2, lent2, own, set \cup {x}, nul, lent),
           Good(f, H, From(then, 1, From(s, j, r)), Knows(own2, set2, nul2, c, lent2)),
           Weaker(own3, set3, nul3, lent3, own, set, nul \cup {x}, lent),
           Good(f, H, From(s, j, r), Knows(own3, set3, nul3, c, lent3))
    PROVE  Good(f, H, From(s, i, r), Knows(own, set, nul, c, lent))
<1> DEFINE t == From(s, i, r)
           on == From(s, j, r)
           inner == From(then, 1, on)
           G == {<<inner, Knows(own2, set2, nul2, c, lent2)>>,
                 <<on, Knows(own3, set3, nul3, c, lent3)>>}
<1>1. /\ t # <<>> /\ Head(t) = IfSet(x, then) /\ Tail(t) = on
      /\ IsSeq(on)
    BY StepFrom
<1>0. inner = then \o on
    BY <1>1, StartAndEnd
<1> HIDE DEF t, on, inner
<1>2. /\ <<inner, Knows(own2, set2, nul2, c, lent2)>> \in G
      /\ <<on, Knows(own3, set3, nul3, c, lent3)>> \in G
    OBVIOUS
<1> HIDE DEF G
<1>3. /\ Leads(G, inner, own, set \cup {x}, nul, c, lent)
      /\ Leads(G, on, own, set, nul \cup {x}, c, lent)
    BY <1>2 DEF Leads
<1>4. Sound(f, G, t, own, set, nul, c, lent)
    <2> DEFINE d == Head(t)
    <2>1. d.op = "set" /\ d.x = x /\ d.needs = {} /\ d.then = then
        BY <1>1 DEF IfSet, Do
    <2> QED
        BY <1>1, <1>0, <1>3, <2>1 DEF Sound
<1> QED
    BY <1>4, Branching DEF t, on, inner, G

LEMMA IfNullAt ==
    ASSUME NEW f, NEW H, NEW s, NEW i, NEW j, NEW r,
           NEW own, NEW set, NEW nul, NEW c, NEW lent,
           NEW own2, NEW set2, NEW nul2, NEW lent2,
           NEW own3, NEW set3, NEW nul3, NEW lent3,
           NEW x, NEW then, Step(s, i, IfNull(x, then), j), IsSeq(r), IsSeq(then),
           Weaker(own2, set2, nul2, lent2, own, set, nul \cup {x}, lent),
           Good(f, H, From(then, 1, From(s, j, r)), Knows(own2, set2, nul2, c, lent2)),
           Weaker(own3, set3, nul3, lent3, own, set \cup {x}, nul, lent),
           Good(f, H, From(s, j, r), Knows(own3, set3, nul3, c, lent3))
    PROVE  Good(f, H, From(s, i, r), Knows(own, set, nul, c, lent))
<1> DEFINE t == From(s, i, r)
           on == From(s, j, r)
           inner == From(then, 1, on)
           G == {<<inner, Knows(own2, set2, nul2, c, lent2)>>,
                 <<on, Knows(own3, set3, nul3, c, lent3)>>}
<1>1. /\ t # <<>> /\ Head(t) = IfNull(x, then) /\ Tail(t) = on
      /\ IsSeq(on)
    BY StepFrom
<1>0. inner = then \o on
    BY <1>1, StartAndEnd
<1> HIDE DEF t, on, inner
<1>2. /\ <<inner, Knows(own2, set2, nul2, c, lent2)>> \in G
      /\ <<on, Knows(own3, set3, nul3, c, lent3)>> \in G
    OBVIOUS
<1> HIDE DEF G
<1>3. /\ Leads(G, inner, own, set, nul \cup {x}, c, lent)
      /\ Leads(G, on, own, set \cup {x}, nul, c, lent)
    BY <1>2 DEF Leads
<1>4. Sound(f, G, t, own, set, nul, c, lent)
    <2> DEFINE d == Head(t)
    <2>1. d.op = "null" /\ d.x = x /\ d.needs = {} /\ d.then = then
        BY <1>1 DEF IfNull, Do
    <2> QED
        BY <1>1, <1>0, <1>3, <2>1 DEF Sound
<1> QED
    BY <1>4, Branching DEF t, on, inner, G

LEMMA MaybeAt ==
    ASSUME NEW f, NEW H, NEW s, NEW i, NEW j, NEW r,
           NEW own, NEW set, NEW nul, NEW c, NEW lent,
           NEW own2, NEW set2, NEW nul2, NEW lent2,
           NEW own3, NEW set3, NEW nul3, NEW lent3,
           NEW then, Step(s, i, Maybe(then), j), IsSeq(r), IsSeq(then),
           Weaker(own2, set2, nul2, lent2, own, set, nul, lent),
           Good(f, H, From(then, 1, From(s, j, r)), Knows(own2, set2, nul2, c, lent2)),
           Weaker(own3, set3, nul3, lent3, own, set, nul, lent),
           Good(f, H, From(s, j, r), Knows(own3, set3, nul3, c, lent3))
    PROVE  Good(f, H, From(s, i, r), Knows(own, set, nul, c, lent))
<1> DEFINE t == From(s, i, r)
           on == From(s, j, r)
           inner == From(then, 1, on)
           G == {<<inner, Knows(own2, set2, nul2, c, lent2)>>,
                 <<on, Knows(own3, set3, nul3, c, lent3)>>}
<1>1. /\ t # <<>> /\ Head(t) = Maybe(then) /\ Tail(t) = on
      /\ IsSeq(on)
    BY StepFrom
<1>0. inner = then \o on
    BY <1>1, StartAndEnd
<1> HIDE DEF t, on, inner
<1>2. /\ <<inner, Knows(own2, set2, nul2, c, lent2)>> \in G
      /\ <<on, Knows(own3, set3, nul3, c, lent3)>> \in G
    OBVIOUS
<1> HIDE DEF G
<1>3. Leads(G, inner, own, set, nul, c, lent) /\ Leads(G, on, own, set, nul, c, lent)
    BY <1>2 DEF Leads
<1>4. Sound(f, G, t, own, set, nul, c, lent)
    <2> DEFINE d == Head(t)
    <2>1. d.op = "maybe" /\ d.needs = {} /\ d.then = then
        BY <1>1 DEF Maybe, Do
    <2> QED
        BY <1>1, <1>0, <1>3, <2>1 DEF Sound
<1> QED
    BY <1>4, Branching DEF t, on, inner, G

\* Only one way on, where the assertion tells which.
LEMMA IfSetSkipped ==
    ASSUME NEW f, NEW H, NEW s, NEW i, NEW j, NEW r,
           NEW own, NEW set, NEW nul, NEW c, NEW lent,
           NEW own2, NEW set2, NEW nul2, NEW lent2,
           NEW x, NEW then, Step(s, i, IfSet(x, then), j), IsSeq(r), IsSeq(then),
           x \in nul,
           Weaker(own2, set2, nul2, lent2, own, set, nul \cup {x}, lent),
           Good(f, H, From(s, j, r), Knows(own2, set2, nul2, c, lent2))
    PROVE  Good(f, H, From(s, i, r), Knows(own, set, nul, c, lent))
<1> DEFINE t == From(s, i, r)
           on == From(s, j, r)
           inner == From(then, 1, on)
           G == {<<on, Knows(own2, set2, nul2, c, lent2)>>}
<1>1. /\ t # <<>> /\ Head(t) = IfSet(x, then) /\ Tail(t) = on
      /\ IsSeq(on)
    BY StepFrom
<1>0. inner = then \o on
    BY <1>1, StartAndEnd
<1> HIDE DEF t, on, inner
<1>2. <<on, Knows(own2, set2, nul2, c, lent2)>> \in G
    OBVIOUS
<1> HIDE DEF G
<1>3. Leads(G, on, own, set, nul \cup {x}, c, lent)
    BY <1>2 DEF Leads
<1>4. Sound(f, G, t, own, set, nul, c, lent)
    <2> DEFINE d == Head(t)
    <2>1. d.op = "set" /\ d.x = x /\ d.needs = {} /\ d.then = then
        BY <1>1 DEF IfSet, Do
    <2> QED
        BY <1>1, <1>0, <1>3, <2>1 DEF Sound
<1> QED
    BY <1>4, Onward DEF t, on, inner, G

LEMMA IfNullSkipped ==
    ASSUME NEW f, NEW H, NEW s, NEW i, NEW j, NEW r,
           NEW own, NEW set, NEW nul, NEW c, NEW lent,
           NEW own2, NEW set2, NEW nul2, NEW lent2,
           NEW x, NEW then, Step(s, i, IfNull(x, then), j), IsSeq(r), IsSeq(then),
           x \in set,
           Weaker(own2, set2, nul2, lent2, own, set \cup {x}, nul, lent),
           Good(f, H, From(s, j, r), Knows(own2, set2, nul2, c, lent2))
    PROVE  Good(f, H, From(s, i, r), Knows(own, set, nul, c, lent))
<1> DEFINE t == From(s, i, r)
           on == From(s, j, r)
           inner == From(then, 1, on)
           G == {<<on, Knows(own2, set2, nul2, c, lent2)>>}
<1>1. /\ t # <<>> /\ Head(t) = IfNull(x, then) /\ Tail(t) = on
      /\ IsSeq(on)
    BY StepFrom
<1>0. inner = then \o on
    BY <1>1, StartAndEnd
<1> HIDE DEF t, on, inner
<1>2. <<on, Knows(own2, set2, nul2, c, lent2)>> \in G
    OBVIOUS
<1> HIDE DEF G
<1>3. Leads(G, on, own, set \cup {x}, nul, c, lent)
    BY <1>2 DEF Leads
<1>4. Sound(f, G, t, own, set, nul, c, lent)
    <2> DEFINE d == Head(t)
    <2>1. d.op = "null" /\ d.x = x /\ d.needs = {} /\ d.then = then
        BY <1>1 DEF IfNull, Do
    <2> QED
        BY <1>1, <1>0, <1>3, <2>1 DEF Sound
<1> QED
    BY <1>4, Onward DEF t, on, inner, G

LEMMA IfSetTaken ==
    ASSUME NEW f, NEW H, NEW s, NEW i, NEW j, NEW r,
           NEW own, NEW set, NEW nul, NEW c, NEW lent,
           NEW own2, NEW set2, NEW nul2, NEW lent2,
           NEW x, NEW then, Step(s, i, IfSet(x, then), j), IsSeq(r), IsSeq(then),
           x \in set,
           Weaker(own2, set2, nul2, lent2, own, set \cup {x}, nul, lent),
           Good(f, H, From(then, 1, From(s, j, r)), Knows(own2, set2, nul2, c, lent2))
    PROVE  Good(f, H, From(s, i, r), Knows(own, set, nul, c, lent))
<1> DEFINE t == From(s, i, r)
           on == From(s, j, r)
           inner == From(then, 1, on)
           G == {<<inner, Knows(own2, set2, nul2, c, lent2)>>}
<1>1. /\ t # <<>> /\ Head(t) = IfSet(x, then) /\ Tail(t) = on
      /\ IsSeq(on)
    BY StepFrom
<1>0. inner = then \o on
    BY <1>1, StartAndEnd
<1> HIDE DEF t, on, inner
<1>2. <<inner, Knows(own2, set2, nul2, c, lent2)>> \in G
    OBVIOUS
<1> HIDE DEF G
<1>3. Leads(G, inner, own, set \cup {x}, nul, c, lent)
    BY <1>2 DEF Leads
<1>4. Sound(f, G, t, own, set, nul, c, lent)
    <2> DEFINE d == Head(t)
    <2>1. d.op = "set" /\ d.x = x /\ d.needs = {} /\ d.then = then
        BY <1>1 DEF IfSet, Do
    <2> QED
        BY <1>1, <1>0, <1>3, <2>1 DEF Sound
<1> QED
    BY <1>4, Onward DEF t, on, inner, G

LEMMA IfNullTaken ==
    ASSUME NEW f, NEW H, NEW s, NEW i, NEW j, NEW r,
           NEW own, NEW set, NEW nul, NEW c, NEW lent,
           NEW own2, NEW set2, NEW nul2, NEW lent2,
           NEW x, NEW then, Step(s, i, IfNull(x, then), j), IsSeq(r), IsSeq(then),
           x \in nul,
           Weaker(own2, set2, nul2, lent2, own, set, nul \cup {x}, lent),
           Good(f, H, From(then, 1, From(s, j, r)), Knows(own2, set2, nul2, c, lent2))
    PROVE  Good(f, H, From(s, i, r), Knows(own, set, nul, c, lent))
<1> DEFINE t == From(s, i, r)
           on == From(s, j, r)
           inner == From(then, 1, on)
           G == {<<inner, Knows(own2, set2, nul2, c, lent2)>>}
<1>1. /\ t # <<>> /\ Head(t) = IfNull(x, then) /\ Tail(t) = on
      /\ IsSeq(on)
    BY StepFrom
<1>0. inner = then \o on
    BY <1>1, StartAndEnd
<1> HIDE DEF t, on, inner
<1>2. <<inner, Knows(own2, set2, nul2, c, lent2)>> \in G
    OBVIOUS
<1> HIDE DEF G
<1>3. Leads(G, inner, own, set, nul \cup {x}, c, lent)
    BY <1>2 DEF Leads
<1>4. Sound(f, G, t, own, set, nul, c, lent)
    <2> DEFINE d == Head(t)
    <2>1. d.op = "null" /\ d.x = x /\ d.needs = {} /\ d.then = then
        BY <1>1 DEF IfNull, Do
    <2> QED
        BY <1>1, <1>0, <1>3, <2>1 DEF Sound
<1> QED
    BY <1>4, Onward DEF t, on, inner, G

\* Nothing is left but what the caller has.
LEMMA ReturnAt ==
    ASSUME NEW f, NEW H, NEW s, NEW i, NEW j, NEW r,
           NEW own, NEW set, NEW nul, NEW c, NEW lent,
           NEW x, Step(s, i, Return(x), j), IsSeq(r), Settled(f, x, own, set, nul)
    PROVE  Good(f, H, From(s, i, r), Knows(own, set, nul, c, lent))
<1> DEFINE t == From(s, i, r)
           p == <<t, Knows(own, set, nul, c, lent)>>
<1>1. t # <<>> /\ Head(t) = Return(x)
    BY StepFrom
<1> HIDE DEF t
<1>2. Sound(f, {p} \cup H, t, own, set, nul, c, lent)
    <2> DEFINE d == Head(t)
    <2>1. d.op = "return" /\ d.x = x /\ d.needs = {}
        BY <1>1 DEF Return, Do
    <2> QED
        BY <1>1, <2>1 DEF Sound
<1>3. Closed(f, {p}, {p} \cup H)
    BY <1>2, Zenon DEF Closed
<1> QED
    BY <1>3 DEF Good, t

LEMMA UnlessAt ==
    ASSUME NEW f, NEW H, NEW s, NEW i, NEW j, NEW r,
           NEW own, NEW set, NEW nul, NEW c, NEW lent,
           NEW own2, NEW set2, NEW nul2, NEW lent2,
           NEW x, Step(s, i, Unless(x), j), IsSeq(r),
           Settled(f, "NULL", own, set, nul \cup {x}),
           Weaker(own2, set2, nul2, lent2, own, set \cup {x}, nul, lent),
           Good(f, H, From(s, j, r), Knows(own2, set2, nul2, c, lent2))
    PROVE  Good(f, H, From(s, i, r), Knows(own, set, nul, c, lent))
<1>1. Step(Nothing, 1, Return("NULL"), 2) /\ IsSeq(Nothing)
    BY NothingSteps
<1>2. Good(f, H, From(Nothing, 1, From(s, j, r)), Knows(own, set, nul \cup {x}, c, lent))
    BY <1>1, ReturnAt, StepFrom
<1>3. Weaker(own, set, nul \cup {x}, lent, own, set, nul \cup {x}, lent)
    BY DEF Weaker
<1> QED
    BY <1>1, <1>2, <1>3, IfNullAt DEF Unless

\* Around a loop the assertion is the one it was entered with.
LEMMA RepeatAt ==
    ASSUME NEW f, NEW H, NEW s, NEW i, NEW j, NEW r,
           NEW own, NEW set, NEW nul, NEW c, NEW lent,
           NEW own2, NEW set2, NEW nul2, NEW lent2,
           NEW own3, NEW set3, NEW nul3, NEW lent3,
           NEW then, Step(s, i, Repeat(then), j), IsSeq(r), IsSeq(then),
           Weaker(own2, set2, nul2, lent2, own, set, nul, lent),
           Good(f, H \cup {<<From(s, i, r), Knows(own, set, nul, c, lent)>>},
                From(then, 1, From(s, i, r)), Knows(own2, set2, nul2, c, lent2)),
           Weaker(own3, set3, nul3, lent3, own, set, nul, lent),
           Good(f, H, From(s, j, r), Knows(own3, set3, nul3, c, lent3))
    PROVE  Good(f, H, From(s, i, r), Knows(own, set, nul, c, lent))
<1> DEFINE t == From(s, i, r)
           on == From(s, j, r)
           inner == From(then, 1, t)
           G == {<<inner, Knows(own2, set2, nul2, c, lent2)>>,
                 <<on, Knows(own3, set3, nul3, c, lent3)>>}
           H2 == H \cup {<<t, Knows(own, set, nul, c, lent)>>}
<1>1. /\ t # <<>> /\ Head(t) = Repeat(then) /\ Tail(t) = on
      /\ IsSeq(t)
    BY StepFrom
<1>0. inner = then \o t
    BY <1>1, StartAndEnd
<1>2. /\ Good(f, H2, inner, Knows(own2, set2, nul2, c, lent2))
      /\ Good(f, H2, on, Knows(own3, set3, nul3, c, lent3))
    BY GoodMonotone
<1> HIDE DEF t, on, inner, H2
<1>3. /\ <<inner, Knows(own2, set2, nul2, c, lent2)>> \in G
      /\ <<on, Knows(own3, set3, nul3, c, lent3)>> \in G
    OBVIOUS
<1> HIDE DEF G
<1>4. Leads(G, inner, own, set, nul, c, lent) /\ Leads(G, on, own, set, nul, c, lent)
    BY <1>3 DEF Leads
<1>5. Sound(f, G, t, own, set, nul, c, lent)
    <2> DEFINE d == Head(t)
    <2>1. d.op = "repeat" /\ d.needs = {} /\ d.then = then
        BY <1>1 DEF Repeat, Do
    <2> QED
        BY <1>1, <1>0, <1>4, <2>1 DEF Sound
<1> QED
    BY <1>2, <1>5, Join DEF t, G, H2

\* Where a loop comes back to its head.
LEMMA AgainAt ==
    ASSUME NEW f, NEW H, NEW t, NEW a
    PROVE  Good(f, H \cup {<<t, a>>}, t, a)
<1> DEFINE H2 == H \cup {<<t, a>>}
<1>1. Closed(f, {}, {} \cup H2)
    BY DEF Closed
<1> QED
    BY <1>1, Zenon DEF Good

LEMMA EndAt ==
    ASSUME NEW f, NEW H, NEW s, NEW j, NEW r, NEW a, End(s, j), IsSeq(r), Good(f, H, r, a)
    PROVE  Good(f, H, From(s, j, r), a)
BY StartAndEnd DEF End

-----------------------------------------------------------------------------
(* What an assertion says of a state, and what a step makes of it *)

Owns(own) == own \cup {Static}

Fits(own, set, nul, c, lent) ==
    /\ Of("NULL") = None
    /\ \A x \in set : Of(x) # None
    /\ \A x \in nul : Of(x) = None
    /\ \A x, y \in Owns(own) : Of(x) = Of(y) /\ Of(x) # None => x = y
    /\ \A o \in Objects : owned[o] = IF \E x \in Owns(own) : Of(x) = o THEN 1 ELSE 0
    /\ \A x \in lent : Of(x) # None /\ Of(c) # None => Of(x) \in held[Of(c)]

LEMMA OfTypes ==
    ASSUME TypeOK, NEW x
    PROVE  Of(x) \in Objects \cup {None}
BY DEF TypeOK, Of

\* What is made is not what any name refers to, and nobody owns it.
LEMMA FreshFacts ==
    ASSUME TypeOK, Free # {}
    PROVE  Fresh \in Objects /\ owned[Fresh] = 0 /\ Fresh # None /\ \A x : Of(x) # Fresh
<1>1. Fresh \in Free
    BY DEF Fresh
<1>2. Fresh \in Objects /\ Fresh \notin Live /\ \A x \in DOMAIN var : var[x] # Fresh
    BY <1>1 DEF Free
<1>3. ~(owned[Fresh] > 0)
    BY <1>2 DEF Live
<1>4. owned[Fresh] = 0
    BY <1>2, <1>3 DEF TypeOK
<1> QED
    BY <1>2, <1>4, OwnedAssumption DEF Of

\* One name refers to something else; the others are as they were.
LEMMA Referred ==
    ASSUME TypeOK, NEW x, NEW o \in Objects \cup {None}, Refer(x, o)
    PROVE  /\ var' \in [DOMAIN var' -> Objects \cup {None}]
           /\ Of(x)' = o
           /\ \A y : y # x => Of(y)' = Of(y)
<1>1. DOMAIN var' = DOMAIN var \cup {x}
    BY DEF Refer
<1> QED
    BY <1>1 DEF Refer, Of, TypeOK

\* What an assertion that says less asks for is there too.
LEMMA WeakerFits ==
    ASSUME NEW own, NEW set, NEW nul, NEW c, NEW lent,
           NEW own2, NEW set2, NEW nul2, NEW lent2,
           Fits(own, set, nul, c, lent)',
           Weaker(own2, set2, nul2, lent2, own, set, nul, lent)
    PROVE  Fits(own2, set2, nul2, c, lent2)'
<1>1. \A x : Of(x)' # None => (x \in Owns(own) <=> x \in Owns(own2))
    BY DEF Fits, Weaker, Owns
<1>2. \A o \in Objects :
        (\E x \in Owns(own) : Of(x)' = o) <=> (\E x \in Owns(own2) : Of(x)' = o)
    BY <1>1, OwnedAssumption
<1>3. \A o \in Objects : owned'[o] = IF \E x \in Owns(own2) : Of(x)' = o THEN 1 ELSE 0
    BY <1>2, Zenon DEF Fits
<1>4. \A x, y \in Owns(own2) : Of(x)' = Of(y)' /\ Of(x)' # None => x = y
    BY <1>1 DEF Fits
<1>5. set2 \subseteq set /\ nul2 \subseteq nul /\ lent2 \subseteq lent
    BY DEF Weaker
<1> QED
    BY <1>3, <1>4, <1>5 DEF Fits

LEMMA UnchangedFits ==
    ASSUME NEW own, NEW set, NEW nul, NEW c, NEW lent,
           Fits(own, set, nul, c, lent), UNCHANGED <<var, owned, held>>
    PROVE  Fits(own, set, nul, c, lent)'
BY DEF Fits, Of

\* What a function works on lives.
LEMMA FirmLives ==
    ASSUME NEW own, NEW set, NEW nul, NEW c, NEW lent, TypeOK,
           Fits(own, set, nul, c, lent), NEW x, Firm(x, own, set, c, lent)
    PROVE  Of(x) \in Live /\ Of(x) \in Objects
<1> DEFINE outer == {o \in Objects : owned[o] > 0}
<1>1. \A y \in Owns(own) : Of(y) # None => Of(y) \in outer
    <2> SUFFICES ASSUME NEW y \in Owns(own), Of(y) # None
                 PROVE  Of(y) \in outer
        OBVIOUS
    <2>1. Of(y) \in Objects
        BY OfTypes
    <2>2. owned[Of(y)] = 1
        BY <2>1 DEF Fits
    <2> QED
        BY <2>1, <2>2
<1>2. Of(x) # None /\ Of(x) \in Objects
    BY OfTypes DEF Firm, Fits
<1>3. outer \subseteq Live /\ Contents(outer) \subseteq Live
    BY DEF Live
<1>4. CASE x \in Owns(own)
    BY <1>1, <1>2, <1>3, <1>4
<1>5. CASE x \in lent /\ c \in own /\ c \in set
    <2>1. Of(c) \in outer /\ Of(c) # None
        BY <1>1, <1>5 DEF Owns, Fits
    <2>2. Of(x) \in held[Of(c)]
        BY <1>2, <1>5, <2>1 DEF Fits
    <2>3. Of(x) \in Contents(outer)
        BY <2>1, <2>2 DEF Contents
    <2> QED
        BY <1>2, <1>3, <2>3
<1> QED
    BY <1>4, <1>5 DEF Firm, Owns

\* What each kind of step makes of an assertion.
LEMMA CreateFits ==
    ASSUME NEW own, NEW set, NEW nul, NEW c, NEW lent, TypeOK, Free # {},
           Fits(own, set, nul, c, lent), NEW x, Unused(x, own, nul), Refer(x, Fresh),
           owned' = [owned EXCEPT ![Fresh] = 1], held' = [held EXCEPT ![Fresh] = {}]
    PROVE  Fits(own \cup {x}, set \cup {x}, nul \ {x}, c, Spared(lent, x, c))'
<1>1. Fresh \in Objects /\ owned[Fresh] = 0 /\ Fresh # None /\ \A y : Of(y) # Fresh
    BY FreshFacts
<1>2. Of(x)' = Fresh /\ \A y : y # x => Of(y)' = Of(y)
    BY <1>1, Referred
<1>3. x # "NULL" /\ (x \in Owns(own) => Of(x) = None)
    BY DEF Unused, Fits, Owns
<1>4. ASSUME NEW y \in Owns(own \cup {x}), NEW z \in Owns(own \cup {x}),
             Of(y)' = Of(z)', Of(y)' # None
      PROVE  y = z
    BY <1>1, <1>2, <1>4 DEF Fits, Owns
<1>5. ASSUME NEW o \in Objects
      PROVE  owned'[o] = IF \E y \in Owns(own \cup {x}) : Of(y)' = o THEN 1 ELSE 0
    <2>1. CASE o = Fresh
        BY <1>1, <1>2, <2>1 DEF Owns, TypeOK
    <2>2. CASE o # Fresh
        <3>1. owned'[o] = owned[o]
            BY <2>2 DEF TypeOK
        <3>2. (\E y \in Owns(own \cup {x}) : Of(y)' = o)
                <=> (\E y \in Owns(own) : Of(y) = o)
            BY <1>2, <1>3, <2>2, OwnedAssumption DEF Owns
        <3> QED
            BY <3>1, <3>2, Zenon DEF Fits
    <2> QED
        BY <2>1, <2>2
<1>6. ASSUME NEW y \in Spared(lent, x, c), Of(y)' # None, Of(c)' # None
      PROVE  Of(y)' \in held'[Of(c)']
    <2>1. y \in lent /\ y # x /\ c # x
        BY <1>6 DEF Spared
    <2>2. Of(y) \in held[Of(c)] /\ Of(c) # None
        BY <1>2, <1>6, <2>1 DEF Fits
    <2>3. held'[Of(c)] = held[Of(c)]
        BY <1>1, <2>2, OfTypes DEF TypeOK
    <2> QED
        BY <1>2, <2>1, <2>2, <2>3
<1>7. \A y \in set \cup {x} : Of(y)' # None
    BY <1>1, <1>2 DEF Fits
<1>8. Of("NULL")' = None /\ \A y \in nul \ {x} : Of(y)' = None
    BY <1>2, <1>3 DEF Fits
<1> QED
    BY <1>4, <1>5, <1>6, <1>7, <1>8, Zenon DEF Fits

LEMMA NoneFits ==
    ASSUME NEW own, NEW set, NEW nul, NEW c, NEW lent, TypeOK,
           Fits(own, set, nul, c, lent), NEW x, Unused(x, own, nul), Refer(x, None),
           UNCHANGED <<owned, held>>
    PROVE  /\ Fits(own \cup {x}, set \ {x}, nul \ {x}, c, Spared(lent, x, c))'
           /\ x # Static /\ x # c =>
                Fits(own \ {x}, set \ {x}, nul \ {x}, c, lent \cup {x})'
<1>1. Of(x)' = None /\ \A y : y # x => Of(y)' = Of(y)
    BY Referred
<1>2. x # "NULL" /\ (x \in Owns(own) => Of(x) = None)
    BY DEF Unused, Fits, Owns
<1>3. \A y, z \in Owns(own \cup {x}) : Of(y)' = Of(z)' /\ Of(y)' # None => y = z
    BY <1>1 DEF Fits, Owns
<1>4. \A o \in Objects :
        /\ (\E y \in Owns(own \cup {x}) : Of(y)' = o) <=> (\E y \in Owns(own) : Of(y) = o)
        /\ x # Static => ((\E y \in Owns(own \ {x}) : Of(y)' = o)
                              <=> (\E y \in Owns(own) : Of(y) = o))
    BY <1>1, <1>2, OwnedAssumption DEF Owns
<1>5. \A o \in Objects :
        owned'[o] = IF \E y \in Owns(own \cup {x}) : Of(y)' = o THEN 1 ELSE 0
    BY <1>4, Zenon DEF Fits
<1>6. x # Static =>
        \A o \in Objects :
            owned'[o] = IF \E y \in Owns(own \ {x}) : Of(y)' = o THEN 1 ELSE 0
    BY <1>4, Zenon DEF Fits
<1>7. \A y \in Spared(lent, x, c) :
        Of(y)' # None /\ Of(c)' # None => Of(y)' \in held'[Of(c)']
    BY <1>1 DEF Spared, Fits
<1>8. x # c => \A y \in lent \cup {x} :
        Of(y)' # None /\ Of(c)' # None => Of(y)' \in held'[Of(c)']
    BY <1>1 DEF Fits
<1>9. /\ Of("NULL")' = None /\ \A y \in nul \ {x} : Of(y)' = None
      /\ \A y \in set \ {x} : Of(y)' # None
    BY <1>1, <1>2 DEF Fits
<1>10. Owns(own \ {x}) \subseteq Owns(own \cup {x})
    BY DEF Owns
<1> QED
    BY <1>3, <1>5, <1>6, <1>7, <1>8, <1>9, <1>10, Zenon DEF Fits

LEMMA BorrowFits ==
    ASSUME NEW own, NEW set, NEW nul, NEW c, NEW lent, TypeOK, Free # {},
           Fits(own, set, nul, c, lent), NEW x, Unused(x, own, nul), x \notin {c, Static},
           Of(c) # None, Refer(x, Fresh), UNCHANGED owned,
           held' = [held EXCEPT ![Of(c)] = @ \cup {Fresh}, ![Fresh] = {}]
    PROVE  Fits(own \ {x}, set \ {x}, nul \ {x}, c, lent \cup {x})'
<1>1. Fresh \in Objects /\ owned[Fresh] = 0 /\ Fresh # None /\ \A y : Of(y) # Fresh
    BY FreshFacts
<1>2. Of(x)' = Fresh /\ \A y : y # x => Of(y)' = Of(y)
    BY <1>1, Referred
<1>3. x # "NULL" /\ x # c /\ x # Static /\ (x \in Owns(own) => Of(x) = None)
    BY DEF Unused, Fits, Owns
<1>4. \A y, z \in Owns(own \ {x}) : Of(y)' = Of(z)' /\ Of(y)' # None => y = z
    BY <1>2, <1>3 DEF Fits, Owns
<1>5. \A o \in Objects :
        (\E y \in Owns(own \ {x}) : Of(y)' = o) <=> (\E y \in Owns(own) : Of(y) = o)
    BY <1>2, <1>3, OwnedAssumption DEF Owns
<1>6. \A o \in Objects : owned'[o] = IF \E y \in Owns(own \ {x}) : Of(y)' = o THEN 1 ELSE 0
    BY <1>5, Zenon DEF Fits
<1>7. Of(c)' = Of(c) /\ Of(c) \in Objects /\ Of(c) # Fresh
    BY <1>1, <1>2, <1>3, OfTypes
<1>8. held'[Of(c)] = held[Of(c)] \cup {Fresh}
    BY <1>1, <1>7 DEF TypeOK
<1>9. ASSUME NEW y \in lent \cup {x}, Of(y)' # None
      PROVE  Of(y)' \in held'[Of(c)']
    <2>1. CASE y = x
        BY <1>2, <1>7, <1>8, <2>1
    <2>2. CASE y # x
        <3>1. Of(y)' = Of(y) /\ y \in lent
            BY <1>2, <2>2
        <3>2. Of(y) \in held[Of(c)]
            BY <1>9, <3>1 DEF Fits
        <3> QED
            BY <1>7, <1>8, <3>1, <3>2
    <2> QED
        BY <2>1, <2>2
<1>10. /\ Of("NULL")' = None /\ \A y \in nul \ {x} : Of(y)' = None
       /\ \A y \in set \ {x} : Of(y)' # None
    BY <1>2, <1>3 DEF Fits
<1> QED
    BY <1>4, <1>6, <1>9, <1>10, Zenon DEF Fits

LEMMA InsertFits ==
    ASSUME NEW own, NEW set, NEW nul, NEW c, NEW lent, TypeOK,
           Fits(own, set, nul, c, lent), NEW o \in Objects, NEW o2 \in Objects,
           UNCHANGED <<var, owned>>, held' = [held EXCEPT ![o] = @ \cup {o2}]
    PROVE  Fits(own, set, nul, c, lent)'
<1>1. \A x : Of(x)' = Of(x)
    BY DEF Of
<1>2. \A o3 \in Objects : held[o3] \subseteq held'[o3]
    BY DEF TypeOK
<1>3. \A x \in lent : Of(x)' # None /\ Of(c)' # None => Of(x)' \in held'[Of(c)']
    BY <1>1, <1>2, OfTypes DEF Fits
<1> QED
    BY <1>1, <1>3 DEF Fits

LEMMA ReleaseFits ==
    ASSUME NEW own, NEW set, NEW nul, NEW c, NEW lent, TypeOK,
           Fits(own, set, nul, c, lent), NEW x \in own \cap set, x # Static,
           UNCHANGED <<var, held>>, owned' = [owned EXCEPT ![Of(x)] = @ - 1]
    PROVE  /\ Fits(own \ {x}, set, nul, c, lent)'
           /\ owned' \in [Objects -> Nat]
<1>1. \A y : Of(y)' = Of(y)
    BY DEF Of
<1>2. Of(x) \in Objects /\ Of(x) # None /\ owned[Of(x)] = 1
    <2>1. Of(x) \in Objects /\ Of(x) # None
        BY OfTypes DEF Fits
    <2> QED
        BY <2>1 DEF Fits, Owns
<1>3. ASSUME NEW o \in Objects
      PROVE  owned'[o] = IF \E y \in Owns(own \ {x}) : Of(y)' = o THEN 1 ELSE 0
    <2>1. CASE o = Of(x)
        <3>1. ~ \E y \in Owns(own \ {x}) : Of(y)' = o
            BY <1>1, <1>2, <2>1 DEF Fits, Owns
        <3>2. owned'[o] = 0
            BY <1>2, <2>1 DEF TypeOK
        <3> QED
            BY <3>1, <3>2
    <2>2. CASE o # Of(x)
        <3>1. owned'[o] = owned[o]
            BY <2>2 DEF TypeOK
        <3>2. (\E y \in Owns(own \ {x}) : Of(y)' = o) <=> (\E y \in Owns(own) : Of(y) = o)
            BY <1>1, <2>2 DEF Owns
        <3> QED
            BY <3>1, <3>2, Zenon DEF Fits
    <2> QED
        BY <2>1, <2>2
<1>4. owned' \in [Objects -> Nat]
    BY <1>2 DEF TypeOK
<1>5. \A y, z \in Owns(own \ {x}) : Of(y)' = Of(z)' /\ Of(y)' # None => y = z
    BY <1>1 DEF Fits, Owns
<1>6. /\ Of("NULL")' = None
      /\ \A y \in nul : Of(y)' = None
      /\ \A y \in set : Of(y)' # None
      /\ \A y \in lent : Of(y)' # None /\ Of(c)' # None => Of(y)' \in held'[Of(c)']
    BY <1>1 DEF Fits
<1> QED
    BY <1>3, <1>4, <1>5, <1>6, Zenon DEF Fits

-----------------------------------------------------------------------------
(* The invariant *)

\* A function may be entered, with any of its arguments NULL; its own names are.
Entered(f) ==
    /\ Static \notin Calls[f].given /\ "NULL" \notin Calls[f].given
    /\ \E nul, c : /\ nul \cap (Calls[f].given \cup {Static}) = {}
                   /\ Good(f, {}, Calls[f].body, Knows(Calls[f].given, {}, nul, c, {}))

\* What holds now is an assertion that is good for what is left of the function.
Keeps ==
    \E own, set, nul, c, lent :
        /\ Good(call, {}, todo, Knows(own, set, nul, c, lent))
        /\ Fits(own, set, nul, c, lent)

IInv == TypeOK /\ Balanced /\ (todo # <<>> => call \in DOMAIN Calls /\ Keeps)

LEMMA KnowsEqual ==
    ASSUME NEW own, NEW set, NEW nul, NEW c, NEW lent,
           NEW own2, NEW set2, NEW nul2, NEW c2, NEW lent2,
           Knows(own, set, nul, c, lent) = Knows(own2, set2, nul2, c2, lent2)
    PROVE  own = own2 /\ set = set2 /\ nul = nul2 /\ c = c2 /\ lent = lent2
BY DEF Knows

LEMMA KeepsSound ==
    ASSUME Keeps
    PROVE  \E S, own, set, nul, c, lent :
               /\ Fits(own, set, nul, c, lent)
               /\ Sound(call, S, todo, own, set, nul, c, lent)
               /\ \A u, b : <<u, b>> \in S => Good(call, {}, u, b)
<1>1. PICK own, set, nul, c, lent :
        /\ Good(call, {}, todo, Knows(own, set, nul, c, lent))
        /\ Fits(own, set, nul, c, lent)
    BY DEF Keeps
<1>2. PICK S, own2, set2, nul2, c2, lent2 :
        /\ Knows(own, set, nul, c, lent) = Knows(own2, set2, nul2, c2, lent2)
        /\ Sound(call, S, todo, own2, set2, nul2, c2, lent2)
        /\ \A u, b : <<u, b>> \in S => Good(call, {}, u, b)
    BY <1>1, Unfold
<1> QED
    BY <1>1, <1>2, KnowsEqual

\* A step that leads to a good place, with the assertion that holds there then.
LEMMA KeepsOn ==
    ASSUME NEW S, \A u, b : <<u, b>> \in S => Good(call, {}, u, b),
           UNCHANGED call,
           NEW own, NEW set, NEW nul, NEW c, NEW lent,
           Leads(S, todo', own, set, nul, c, lent), Fits(own, set, nul, c, lent)'
    PROVE  Keeps'
<1>1. PICK own2, set2, nul2, lent2 :
        /\ <<todo', Knows(own2, set2, nul2, c, lent2)>> \in S
        /\ Weaker(own2, set2, nul2, lent2, own, set, nul, lent)
    BY DEF Leads
<1>2. Good(call', {}, todo', Knows(own2, set2, nul2, c, lent2))
    BY <1>1
<1>3. Fits(own2, set2, nul2, c, lent2)'
    BY <1>1, WeakerFits
<1> QED
    BY <1>2, <1>3 DEF Keeps

\* A caller that owns its arguments makes the first assertion of the function true.
LEMMA EnterKeeps ==
    ASSUME TypeOK, NEW f \in DOMAIN Calls, Entered(f), NEW given \in SUBSET Calls[f].given,
           Enter(f, given)
    PROVE  TypeOK' /\ call' \in DOMAIN Calls /\ Keeps'
<1> DEFINE argument == CHOOSE a \in Arguments(given) : TRUE
<1>1. /\ argument \in [given -> Objects \ {Of(Static)}]
      /\ \A x, y \in given : argument[x] = argument[y] => x = y
    BY DEF Enter, Arguments
<1>2. var' = [x \in given \cup {Static} |-> IF x \in given THEN argument[x] ELSE Of(Static)]
    BY DEF Enter
<1> HIDE DEF argument
<1>3. Static \notin given /\ "NULL" \notin given
    BY DEF Entered
<1>4. DOMAIN var' = given \cup {Static}
    BY <1>2
<1>5. /\ \A x \in given : Of(x)' = argument[x]
      /\ Of(Static)' = Of(Static)
      /\ \A x : x \notin given \cup {Static} => Of(x)' = None
    BY <1>2, <1>3, <1>4 DEF Of
<1>6. Of(Static) \in Objects \cup {None}
    BY OfTypes
<1>7. TypeOK'
    <2>1. var' \in [DOMAIN var' -> Objects \cup {None}]
        BY <1>1, <1>2, <1>4, <1>6
    <2>2. owned' \in [Objects -> Nat] /\ held' \in [Objects -> SUBSET Objects]
        BY DEF Enter
    <2>3. call' \in DOMAIN Calls \cup {"none"} /\ rounds' \in 0..MaxRounds
        BY OwnedAssumption DEF Enter
    <2> QED
        BY <2>1, <2>2, <2>3 DEF TypeOK
<1> DEFINE own == Calls[f].given
<1>8. given \subseteq own /\ Static \notin own /\ "NULL" \notin own
    BY DEF Entered
<1>9. \A x, y \in Owns(own) : Of(x)' = Of(y)' /\ Of(x)' # None => x = y
    BY <1>1, <1>3, <1>5, <1>8 DEF Owns
<1>10. ASSUME NEW o \in Objects
       PROVE  owned'[o] = IF \E x \in Owns(own) : Of(x)' = o THEN 1 ELSE 0
    <2>1. owned'[o] = IF \E x \in DOMAIN var' : var'[x] = o THEN 1 ELSE 0
        BY DEF Enter
    <2>2. (\E x \in DOMAIN var' : var'[x] = o) <=> (\E x \in Owns(own) : Of(x)' = o)
        BY <1>2, <1>4, <1>5, <1>8, OwnedAssumption DEF Owns, Of
    <2> QED
        BY <2>1, <2>2
<1>11. Of("NULL")' = None
    BY <1>5, <1>8 DEF Static
<1>12. \A nul, c : nul \cap (own \cup {Static}) = {} => Fits(own, {}, nul, c, {})'
    <2>1. \A x : x \notin own \cup {Static} => Of(x)' = None
        BY <1>5, <1>8
    <2> QED
        BY <1>9, <1>10, <1>11, <2>1 DEF Fits
<1> HIDE DEF own
<1>13. call' = f /\ todo' = Calls[f].body
    BY DEF Enter
<1>14. PICK nul, c : /\ nul \cap (own \cup {Static}) = {}
                      /\ Good(f, {}, Calls[f].body, Knows(own, {}, nul, c, {}))
    BY DEF Entered, own
<1>15. Keeps'
    BY <1>12, <1>13, <1>14 DEF Keeps
<1> QED
    BY <1>7, <1>13, <1>15

\* What a function leaves behind, where it may return.
LEMMA LeaveBalanced ==
    ASSUME TypeOK, call \in DOMAIN Calls, NEW own, NEW set, NEW nul, NEW c, NEW lent,
           Fits(own, set, nul, c, lent), NEW x, Settled(call, x, own, set, nul),
           Refer("result", Of(x)), UNCHANGED <<owned, call>>
    PROVE  Balanced'
<1> DEFINE given == Calls[call].given
           taken == IF call = "fdopendir" /\ Of(x) # None THEN {"fd"} ELSE {}
           owners == (given \ taken) \cup {Static, "result"}
<1>1. Of("result")' = Of(x) /\ \A y : y # "result" => Of(y)' = Of(y)
    BY OfTypes, Referred
<1>2. Taken' = taken /\ Owners' = owners
    BY <1>1 DEF Taken, Owners
<1>3. /\ x # Static /\ x # "result" /\ x \notin given /\ "result" \notin given
      /\ own \subseteq given \cup {x, Static} \cup nul
      /\ Of(x) # None => x \in own
      /\ "result" # Static
    BY DEF Settled, Fits, Static
<1>4. \A y \in given \ taken : Of(y) # None => y \in own
    BY DEF Settled, Fits
<1>5. \A y \in own : Of(y) # None => y = x \/ y = Static \/ y \in given \ taken
    BY DEF Settled, Fits
<1> HIDE DEF given, taken
<1>6. ASSUME NEW o \in Objects
      PROVE  owned[o] = Cardinality({y \in owners : Of(y)' = o})
    <2> DEFINE X == {y \in owners : Of(y)' = o}
    <2>1. o # None
        BY OwnedAssumption
    <2>2. CASE \E y \in Owns(own) : Of(y) = o
        <3>1. PICK y \in Owns(own) : Of(y) = o
            BY <2>2
        <3>2. \A z \in Owns(own) : Of(z) = o => z = y
            BY <2>1, <3>1 DEF Fits
        <3>3. X = {IF y = x THEN "result" ELSE y}
            BY <1>1, <1>3, <1>4, <1>5, <2>1, <3>1, <3>2 DEF Owns
        <3>4. owned[o] = 1
            BY <2>2 DEF Fits
        <3> QED
            BY <3>3, <3>4, FS_Singleton
    <2>3. CASE ~ \E y \in Owns(own) : Of(y) = o
        <3>1. X = {}
            BY <1>1, <1>3, <1>4, <2>1, <2>3 DEF Owns
        <3>2. owned[o] = 0
            BY <2>3 DEF Fits
        <3> QED
            BY <3>1, <3>2, FS_EmptySet
    <2> QED
        BY <2>2, <2>3
<1> QED
    BY <1>2, <1>6 DEF Balanced

LEMMA GoodGoesOn ==
    ASSUME NEW f, NEW t, NEW a, Good(f, {}, t, a)
    PROVE  t # <<>>
<1>1. PICK S, own, set, nul, c, lent : Sound(f, S, t, own, set, nul, c, lent)
    BY Unfold
<1> QED
    BY <1>1, Zenon DEF Sound

\* The conclusion of KeepsOn, with the parts of the invariant that follow from it.
LEMMA GoesOn ==
    ASSUME Keeps', TypeOK', call' \in DOMAIN Calls
    PROVE  IInv'
<1>1. todo' # <<>>
    BY GoodGoesOn DEF Keeps
<1> QED
    BY <1>1 DEF IInv, Balanced

\* Each action: the assertion allows it, and the one that comes next holds after it.
LEMMA CreateInv ==
    ASSUME IInv, Create
    PROVE  IInv'
<1> PICK x : x = Head(todo).x
    OBVIOUS
<1> DEFINE on == Tail(todo)
<1>1. todo # <<>> /\ Head(todo).op \in {"new", "sure"}
    BY DEF Create, At
<1>2. TypeOK /\ call \in DOMAIN Calls /\ Keeps
    BY <1>1 DEF IInv
<1>3. PICK S, own, set, nul, c, lent :
        /\ Fits(own, set, nul, c, lent)
        /\ Sound(call, S, todo, own, set, nul, c, lent)
        /\ \A u, b : <<u, b>> \in S => Good(call, {}, u, b)
    BY <1>2, KeepsSound
<1>4. /\ Free # {} /\ Refer(x, Fresh) /\ owned' = [owned EXCEPT ![Fresh] = 1]
      /\ held' = [held EXCEPT ![Fresh] = {}]
      /\ todo' = on /\ call' = call /\ rounds' = rounds
    BY DEF Create, Name, Rest, Goes
<1>5. Unused(x, own, nul)
    BY <1>1, <1>3, Zenon DEF Sound
<1>6. /\ Head(todo).op = "sure" => Leads(S, on, own \cup {x}, set \cup {x}, nul \ {x}, c,
                                         Spared(lent, x, c))
      /\ Head(todo).op = "new" => Leads(S, on, own \cup {x}, set \ {x}, nul \ {x}, c,
                                        Spared(lent, x, c))
    BY <1>3, Zenon DEF Sound
<1>7. Fresh \in Objects
    BY <1>2, <1>4, FreshFacts
<1>8. TypeOK'
    BY <1>2, <1>4, <1>7, Referred DEF TypeOK
<1> HIDE DEF on
<1>9. Fits(own \cup {x}, set \cup {x}, nul \ {x}, c, Spared(lent, x, c))'
    BY <1>2, <1>3, <1>4, <1>5, CreateFits
<1>10. Fits(own \cup {x}, set \ {x}, nul \ {x}, c, Spared(lent, x, c))'
    <2>1. Weaker(own \cup {x}, set \ {x}, nul \ {x}, Spared(lent, x, c),
                 own \cup {x}, set \cup {x}, nul \ {x}, Spared(lent, x, c))
        BY DEF Weaker
    <2> QED
        BY <1>9, <2>1, WeakerFits
<1>11. Keeps'
    BY <1>1, <1>3, <1>4, <1>6, <1>9, <1>10, KeepsOn
<1> QED
    BY <1>2, <1>4, <1>8, <1>11, GoesOn

LEMMA FailToCreateInv ==
    ASSUME IInv, FailToCreate
    PROVE  IInv'
<1> PICK x : x = Head(todo).x
    OBVIOUS
<1> DEFINE on == Tail(todo)
<1>1. todo # <<>> /\ Head(todo).op = "new"
    BY DEF FailToCreate, At
<1>2. TypeOK /\ call \in DOMAIN Calls /\ Keeps
    BY <1>1 DEF IInv
<1>3. PICK S, own, set, nul, c, lent :
        /\ Fits(own, set, nul, c, lent)
        /\ Sound(call, S, todo, own, set, nul, c, lent)
        /\ \A u, b : <<u, b>> \in S => Good(call, {}, u, b)
    BY <1>2, KeepsSound
<1>4. /\ Refer(x, None) /\ UNCHANGED <<owned, held, call, rounds>> /\ todo' = on
    BY DEF FailToCreate, Name, Rest, Goes
<1>5. /\ Unused(x, own, nul)
      /\ Leads(S, on, own \cup {x}, set \ {x}, nul \ {x}, c, Spared(lent, x, c))
    BY <1>1, <1>3, Zenon DEF Sound
<1>6. TypeOK'
    BY <1>2, <1>4, Referred DEF TypeOK
<1> HIDE DEF on
<1>7. Fits(own \cup {x}, set \ {x}, nul \ {x}, c, Spared(lent, x, c))'
    BY <1>2, <1>3, <1>4, <1>5, NoneFits
<1>8. Keeps'
    BY <1>3, <1>4, <1>5, <1>7, KeepsOn
<1> QED
    BY <1>2, <1>4, <1>6, <1>8, GoesOn

LEMMA BorrowInv ==
    ASSUME IInv, Borrow
    PROVE  IInv'
<1> DEFINE on == Tail(todo)
<1>1. todo # <<>> /\ Head(todo).op = "get"
    BY DEF Borrow, At
<1>2. TypeOK /\ call \in DOMAIN Calls /\ Keeps
    BY <1>1 DEF IInv
<1>3. PICK S, own, set, nul, c, lent :
        /\ Fits(own, set, nul, c, lent)
        /\ Sound(call, S, todo, own, set, nul, c, lent)
        /\ \A u, b : <<u, b>> \in S => Good(call, {}, u, b)
    BY <1>2, KeepsSound
<1>4. PICK x : /\ Head(todo).x = <<x, c>> /\ c \in Head(todo).needs
               /\ Unused(x, own, nul) /\ x \notin {c, Static}
               /\ Leads(S, on, own \ {x}, set \ {x}, nul \ {x}, c, lent \cup {x})
    BY <1>1, <1>3, Zenon DEF Sound
<1>5. Name[1] = x /\ Name[2] = c
    BY <1>4 DEF Name
<1>6. Firm(c, own, set, c, lent)
    BY <1>3, <1>4, Zenon DEF Sound
<1>7. Of(c) \in Objects /\ Of(c) # None
    BY <1>2, <1>3, <1>6, FirmLives, OwnedAssumption
<1>8. todo' = on /\ UNCHANGED <<call, rounds, owned>>
    BY DEF Borrow, Rest, Goes
<1> HIDE DEF on
<1>9. CASE Refer(Name[1], None) /\ UNCHANGED <<owned, held>>
    <2>1. Refer(x, None)
        BY <1>5, <1>9
    <2>2. Fits(own \ {x}, set \ {x}, nul \ {x}, c, lent \cup {x})'
        BY <1>2, <1>3, <1>4, <1>9, <2>1, NoneFits
    <2>3. TypeOK'
        BY <1>2, <1>8, <1>9, <2>1, Referred DEF TypeOK
    <2>4. Keeps'
        BY <1>3, <1>4, <1>8, <2>2, KeepsOn
    <2> QED
        BY <1>2, <1>8, <2>3, <2>4, GoesOn
<1>10. CASE /\ Free # {} /\ Refer(Name[1], Fresh)
            /\ held' = [held EXCEPT ![Of(Name[2])] = @ \cup {Fresh}, ![Fresh] = {}]
    <2>1. /\ Refer(x, Fresh)
          /\ held' = [held EXCEPT ![Of(c)] = @ \cup {Fresh}, ![Fresh] = {}]
        BY <1>5, <1>10
    <2>2. Fits(own \ {x}, set \ {x}, nul \ {x}, c, lent \cup {x})'
        BY <1>2, <1>3, <1>4, <1>7, <1>8, <1>10, <2>1, BorrowFits
    <2>3. Fresh \in Objects
        BY <1>2, <1>10, FreshFacts
    <2>4. var' \in [DOMAIN var' -> Objects \cup {None}]
        BY <1>2, <2>1, <2>3, Referred
    <2>5. held' \in [Objects -> SUBSET Objects]
        BY <1>2, <1>7, <2>1, <2>3 DEF TypeOK
    <2>6. TypeOK'
        BY <1>2, <1>8, <2>4, <2>5 DEF TypeOK
    <2>7. Keeps'
        BY <1>3, <1>4, <1>8, <2>2, KeepsOn
    <2> QED
        BY <1>2, <1>8, <2>6, <2>7, GoesOn
<1> QED
    BY <1>9, <1>10 DEF Borrow

LEMMA InsertInv ==
    ASSUME IInv, Insert
    PROVE  IInv'
<1> DEFINE on == Tail(todo)
<1>1. todo # <<>> /\ Head(todo).op = "put"
    BY DEF Insert, At
<1>2. TypeOK /\ call \in DOMAIN Calls /\ Keeps
    BY <1>1 DEF IInv
<1>3. PICK S, own, set, nul, c, lent :
        /\ Fits(own, set, nul, c, lent)
        /\ Sound(call, S, todo, own, set, nul, c, lent)
        /\ \A u, b : <<u, b>> \in S => Good(call, {}, u, b)
    BY <1>2, KeepsSound
<1>4. PICK x, y : /\ Head(todo).x = <<x, y>>
                  /\ x \in Head(todo).needs /\ y \in Head(todo).needs
                  /\ Leads(S, on, own, set, nul, c, lent)
    BY <1>1, <1>3, Zenon DEF Sound
<1>5. Firm(x, own, set, c, lent) /\ Firm(y, own, set, c, lent)
    BY <1>3, <1>4, Zenon DEF Sound
<1>6. Of(x) \in Objects /\ Of(y) \in Objects
    BY <1>2, <1>3, <1>5, FirmLives
<1>7. held' = [held EXCEPT ![Of(y)] = @ \cup {Of(x)}]
    <2>1. Name[1] = x /\ Name[2] = y
        BY <1>4 DEF Name
    <2> QED
        BY <2>1 DEF Insert
<1>8. todo' = on /\ UNCHANGED <<call, rounds, var, owned>>
    BY DEF Insert, Rest, Goes
<1> HIDE DEF on
<1>9. Fits(own, set, nul, c, lent)'
    BY <1>2, <1>3, <1>6, <1>7, <1>8, InsertFits
<1>10. TypeOK'
    BY <1>2, <1>6, <1>7, <1>8 DEF TypeOK
<1>11. Keeps'
    BY <1>3, <1>4, <1>8, <1>9, KeepsOn
<1> QED
    BY <1>2, <1>8, <1>10, <1>11, GoesOn

LEMMA WorkOnInv ==
    ASSUME IInv, WorkOn
    PROVE  IInv'
<1>1. todo # <<>> /\ Head(todo).op = "use"
    BY DEF WorkOn, At
<1>2. TypeOK /\ call \in DOMAIN Calls /\ Keeps
    BY <1>1 DEF IInv
<1>3. PICK S, own, set, nul, c, lent :
        /\ Fits(own, set, nul, c, lent)
        /\ Sound(call, S, todo, own, set, nul, c, lent)
        /\ \A u, b : <<u, b>> \in S => Good(call, {}, u, b)
    BY <1>2, KeepsSound
<1>4. Leads(S, Tail(todo), own, set, nul, c, lent)
    BY <1>1, <1>3, Zenon DEF Sound
<1>5. todo' = Tail(todo) /\ UNCHANGED <<call, rounds, var, owned, held>>
    BY DEF WorkOn, Rest, Goes
<1>6. Fits(own, set, nul, c, lent)'
    BY <1>3, <1>5, UnchangedFits
<1>7. TypeOK'
    BY <1>2, <1>5 DEF TypeOK
<1>8. Keeps'
    BY <1>3, <1>4, <1>5, <1>6, KeepsOn
<1> QED
    BY <1>2, <1>5, <1>7, <1>8, GoesOn

LEMMA ReleaseInv ==
    ASSUME IInv, Release
    PROVE  IInv'
<1> PICK x : x = Head(todo).x
    OBVIOUS
<1> DEFINE on == Tail(todo)
<1>1. todo # <<>> /\ Head(todo).op = "drop"
    BY DEF Release, At
<1>2. TypeOK /\ call \in DOMAIN Calls /\ Keeps
    BY <1>1 DEF IInv
<1>3. PICK S, own, set, nul, c, lent :
        /\ Fits(own, set, nul, c, lent)
        /\ Sound(call, S, todo, own, set, nul, c, lent)
        /\ \A u, b : <<u, b>> \in S => Good(call, {}, u, b)
    BY <1>2, KeepsSound
<1>4. x \in own \cap set /\ x # Static /\ Leads(S, on, own \ {x}, set, nul, c, lent)
    BY <1>1, <1>3, Zenon DEF Sound
<1>5. /\ owned' = [owned EXCEPT ![Of(x)] = @ - 1]
      /\ todo' = on /\ UNCHANGED <<call, rounds, var, held>>
    BY DEF Release, Name, Rest, Goes
<1> HIDE DEF on
<1>6. Fits(own \ {x}, set, nul, c, lent)' /\ owned' \in [Objects -> Nat]
    BY <1>2, <1>3, <1>4, <1>5, ReleaseFits
<1>7. TypeOK'
    BY <1>2, <1>5, <1>6 DEF TypeOK
<1>8. Keeps'
    BY <1>3, <1>4, <1>5, <1>6, KeepsOn
<1> QED
    BY <1>2, <1>5, <1>7, <1>8, GoesOn

LEMMA BranchInv ==
    ASSUME IInv, Branch
    PROVE  IInv'
<1> PICK x : x = Head(todo).x
    OBVIOUS
<1> DEFINE inner == Head(todo).then \o Tail(todo)
           on == Tail(todo)
<1>1. todo # <<>> /\ Head(todo).op \in {"set", "null", "maybe"}
    BY DEF Branch, At
<1>2. TypeOK /\ call \in DOMAIN Calls /\ Keeps
    BY <1>1 DEF IInv
<1>3. PICK S, own, set, nul, c, lent :
        /\ Fits(own, set, nul, c, lent)
        /\ Sound(call, S, todo, own, set, nul, c, lent)
        /\ \A u, b : <<u, b>> \in S => Good(call, {}, u, b)
    BY <1>2, KeepsSound
<1>4. UNCHANGED <<call, rounds, var, owned, held>>
    BY DEF Branch, Goes
<1>5. TypeOK'
    BY <1>2, <1>4 DEF TypeOK
<1>6. Fits(own, set, nul, c, lent)'
    BY <1>3, <1>4, UnchangedFits
<1>7. /\ Of(x) # None => Fits(own, set \cup {x}, nul, c, lent)'
      /\ Of(x) = None => Fits(own, set, nul \cup {x}, c, lent)'
    BY <1>4, <1>6 DEF Fits, Of
<1>8. (Of(x) # None => x \notin nul) /\ (Of(x) = None => x \notin set)
    BY <1>3 DEF Fits
<1>9. CASE At("set") /\ todo' = IF Of(x) # None THEN inner ELSE on
    <2>1. /\ x \notin nul => Leads(S, inner, own, set \cup {x}, nul, c, lent)
          /\ x \notin set => Leads(S, on, own, set, nul \cup {x}, c, lent)
        BY <1>3, <1>9, Zenon DEF Sound, At
    <2> HIDE DEF on, inner
    <2>2. Keeps'
        <3>1. CASE Of(x) # None
            BY <1>3, <1>4, <1>7, <1>8, <1>9, <2>1, <3>1, KeepsOn
        <3>2. CASE Of(x) = None
            BY <1>3, <1>4, <1>7, <1>8, <1>9, <2>1, <3>2, KeepsOn
        <3> QED
            BY <3>1, <3>2
    <2> QED
        BY <1>2, <1>4, <1>5, <2>2, GoesOn
<1>10. CASE At("null") /\ todo' = IF Of(x) = None THEN inner ELSE on
    <2>1. /\ x \notin set => Leads(S, inner, own, set, nul \cup {x}, c, lent)
          /\ x \notin nul => Leads(S, on, own, set \cup {x}, nul, c, lent)
        BY <1>3, <1>10, Zenon DEF Sound, At
    <2> HIDE DEF on, inner
    <2>2. Keeps'
        <3>1. CASE Of(x) # None
            BY <1>3, <1>4, <1>7, <1>8, <1>10, <2>1, <3>1, KeepsOn
        <3>2. CASE Of(x) = None
            BY <1>3, <1>4, <1>7, <1>8, <1>10, <2>1, <3>2, KeepsOn
        <3> QED
            BY <3>1, <3>2
    <2> QED
        BY <1>2, <1>4, <1>5, <2>2, GoesOn
<1>11. CASE At("maybe") /\ (todo' = inner \/ todo' = on)
    <2>1. Leads(S, inner, own, set, nul, c, lent) /\ Leads(S, on, own, set, nul, c, lent)
        BY <1>3, <1>11, Zenon DEF Sound, At
    <2>2. Keeps'
        BY <1>3, <1>4, <1>6, <1>11, <2>1, KeepsOn
    <2> QED
        BY <1>2, <1>4, <1>5, <2>2, GoesOn
<1> QED
    BY <1>9, <1>10, <1>11 DEF Branch, Goes, Name, Rest

LEMMA IterateInv ==
    ASSUME IInv, Iterate
    PROVE  IInv'
<1>1. todo # <<>> /\ Head(todo).op = "repeat"
    BY DEF Iterate, At
<1>2. TypeOK /\ call \in DOMAIN Calls /\ Keeps
    BY <1>1 DEF IInv
<1>3. PICK S, own, set, nul, c, lent :
        /\ Fits(own, set, nul, c, lent)
        /\ Sound(call, S, todo, own, set, nul, c, lent)
        /\ \A u, b : <<u, b>> \in S => Good(call, {}, u, b)
    BY <1>2, KeepsSound
<1>4. /\ Leads(S, Head(todo).then \o todo, own, set, nul, c, lent)
      /\ Leads(S, Tail(todo), own, set, nul, c, lent)
    BY <1>1, <1>3, Zenon DEF Sound
<1>5. /\ UNCHANGED <<call, var, owned, held>>
      /\ todo' = Head(todo).then \o todo \/ todo' = Tail(todo)
      /\ rounds' = rounds \/ (rounds < MaxRounds /\ rounds' = rounds + 1)
    BY DEF Iterate, Rest, Goes
<1>6. Fits(own, set, nul, c, lent)'
    BY <1>3, <1>5, UnchangedFits
<1>7. TypeOK'
    BY <1>2, <1>5, OwnedAssumption DEF TypeOK
<1>8. Keeps'
    BY <1>3, <1>4, <1>5, <1>6, KeepsOn
<1> QED
    BY <1>2, <1>5, <1>7, <1>8, GoesOn

LEMMA LeaveInv ==
    ASSUME IInv, Leave
    PROVE  IInv'
<1> PICK x : x = Head(todo).x
    OBVIOUS
<1>1. todo # <<>> /\ Head(todo).op = "return"
    BY DEF Leave, At
<1>2. TypeOK /\ call \in DOMAIN Calls /\ Keeps
    BY <1>1 DEF IInv
<1>3. PICK S, own, set, nul, c, lent :
        /\ Fits(own, set, nul, c, lent)
        /\ Sound(call, S, todo, own, set, nul, c, lent)
        /\ \A u, b : <<u, b>> \in S => Good(call, {}, u, b)
    BY <1>2, KeepsSound
<1>4. Settled(call, x, own, set, nul)
    BY <1>1, <1>3, Zenon DEF Sound
<1>5. Refer("result", Of(x)) /\ todo' = <<>> /\ UNCHANGED <<owned, held, call, rounds>>
    BY DEF Leave, Name, Goes
<1>6. Balanced'
    BY <1>2, <1>3, <1>4, <1>5, LeaveBalanced
<1>7. TypeOK'
    <2>1. var' \in [DOMAIN var' -> Objects \cup {None}]
        BY <1>2, <1>5, OfTypes, Referred
    <2> QED
        BY <1>2, <1>5, <2>1 DEF TypeOK
<1> QED
    BY <1>5, <1>6, <1>7 DEF IInv

LEMMA InitInv == Init => IInv
<1> SUFFICES ASSUME Init
             PROVE  IInv
    OBVIOUS
<1>1. TypeOK
    <2>1. DOMAIN var = {Static} /\ var = [x \in {Static} |-> None]
        BY DEF Init
    <2>2. var \in [DOMAIN var -> Objects \cup {None}]
        BY <2>1
    <2>3. /\ owned \in [Objects -> Nat] /\ held \in [Objects -> SUBSET Objects]
          /\ rounds \in 0..MaxRounds /\ call = "none"
        BY OwnedAssumption DEF Init
    <2> QED
        BY <2>2, <2>3 DEF TypeOK
<1> QED
    BY <1>1 DEF IInv, Init, Balanced

LEMMA NextInv ==
    ASSUME \A f \in DOMAIN Calls : Entered(f)
    PROVE  IInv /\ [Next]_vars => IInv'
<1> SUFFICES ASSUME IInv, [Next]_vars
             PROVE  IInv'
    OBVIOUS
<1>1. CASE Begin
    <2>1. PICK f \in DOMAIN Calls : \E given \in SUBSET Calls[f].given : Enter(f, given)
        BY <1>1 DEF Begin
    <2>2. PICK given \in SUBSET Calls[f].given : Enter(f, given)
        BY <2>1
    <2>3. TypeOK' /\ call' \in DOMAIN Calls /\ Keeps'
        BY <2>2, EnterKeeps DEF IInv
    <2> QED
        BY <2>3, GoesOn
<1>2. CASE UNCHANGED vars
    <2>1. IInv' <=> IInv
        BY <1>2 DEF vars, IInv, TypeOK, Balanced, Owners, Taken, Keeps, Fits, Of
    <2> QED
        BY <2>1
<1> QED
    BY <1>1, <1>2, CreateInv, FailToCreateInv, BorrowInv, InsertInv, WorkOnInv, ReleaseInv,
       BranchInv, IterateInv, LeaveInv DEF Next

\* What a step works on is firm, and what is firm lives.
LEMMA KeepsAlive ==
    ASSUME IInv
    PROVE  NeverDangling
<1> SUFFICES ASSUME todo # <<>>, NEW x \in Head(todo).needs
             PROVE  Of(x) \in Live
    BY DEF NeverDangling
<1>1. PICK S, own, set, nul, c, lent :
        /\ Fits(own, set, nul, c, lent)
        /\ Sound(call, S, todo, own, set, nul, c, lent)
    BY KeepsSound DEF IInv
<1>2. Firm(x, own, set, c, lent)
    BY <1>1, Zenon DEF Sound
<1> QED
    BY <1>1, <1>2, FirmLives DEF IInv
-----------------------------------------------------------------------------
(* The functions.  Each proof first says what the steps of the script and  *)
(* of its inner blocks are; then comes an assertion for each of them, from *)
(* the last to the first, under the step that it is asserted before.       *)

LEMMA CreateForCSSFamilyEntered == Entered("CTFontDescriptorCreateForCSSFamily")
<1> DEFINE f == "CTFontDescriptorCreateForCSSFamily"
<1>1. /\ IsSeq(DescriptorForFamily)
      /\ Step(DescriptorForFamily, 1, Sure("named", {}), 2)
      /\ Step(DescriptorForFamily, 2, New("descriptor", {"named"}), 3)
      /\ Step(DescriptorForFamily, 3, Drop("named"), 4)
      /\ Step(DescriptorForFamily, 4, Return("descriptor"), 5)
    <2>1. DescriptorForFamily \in Seq({Sure("named", {}), New("descriptor", {"named"}),
              Drop("named"), Return("descriptor")})
        BY DEF DescriptorForFamily
    <2>2. IsSeq(DescriptorForFamily)
        BY <2>1 DEF IsSeq
    <2> QED
        BY <2>2 DEF DescriptorForFamily, Step
<1>2. f # "fdopendir" /\ Calls[f].given = {} /\ Calls[f].body = CreateForCSSFamily
    BY DEF Calls, Script
<1>3. CreateForCSSFamily = DescriptorForFamily
    BY DEF CreateForCSSFamily
<1> HIDE DEF f
<1>4. IsSeq(<<>>)
    BY <1>1, NothingAfter, StepFrom

\* Return("descriptor")
<1>5. Good(f, {}, From(DescriptorForFamily, 4, <<>>),
           Knows({"descriptor"}, {}, {}, "NULL", {}))
    BY <1>1, <1>2, <1>4, ReturnAt DEF Settled, Static

\* Drop("named")
<1>6. Good(f, {}, From(DescriptorForFamily, 3, <<>>),
           Knows({"descriptor", "named"}, {"named"}, {}, "NULL", {}))
    BY <1>5, <1>1, <1>4, DropAt DEF Firm, Weaker, Static

\* New("descriptor", {"named"})
<1>7. Good(f, {}, From(DescriptorForFamily, 2, <<>>),
           Knows({"named"}, {"named"}, {}, "NULL", {}))
    BY <1>6, <1>1, <1>4, NewAt DEF Firm, Unused, Spared, Weaker, Static

\* Sure("named", {})
<1>8. Good(f, {}, From(DescriptorForFamily, 1, <<>>),
           Knows({}, {}, {}, "NULL", {}))
    BY <1>7, <1>1, <1>4, SureAt DEF Unused, Spared, Weaker, Static
<1>9. Entered(f)
    <2>1. {} \cap (Calls[f].given \cup {Static}) = {} /\ Static \notin Calls[f].given
          /\ "NULL" \notin Calls[f].given
        BY <1>2 DEF Static
    <2>2. From(DescriptorForFamily, 1, <<>>) = Calls[f].body
        BY <1>3, <1>2, <1>1, NothingAfter
    <2> QED
        BY <2>1, <2>2, <1>8, <1>2, Zenon DEF Entered
<1> QED
    BY <1>9 DEF f

LEMMA CreateForCharactersEntered ==
    Entered("CTFontCreateForCharactersWithLanguageAndOption")
<1> DEFINE f == "CTFontCreateForCharactersWithLanguageAndOption"
<1>1. /\ IsSeq(CreateForCharacters)
      /\ Step(CreateForCharacters, 1, Unless("currentFont"), 2)
      /\ Step(CreateForCharacters, 2, New("string", {}), 3)
      /\ Step(CreateForCharacters, 3, Unless("string"), 4)
      /\ Step(CreateForCharacters, 4, New("substitute", {"currentFont", "string"}), 5)
      /\ Step(CreateForCharacters, 5, Drop("string"), 6)
      /\ Step(CreateForCharacters, 6, Unless("substitute"), 7)
      /\ Step(CreateForCharacters, 7, Return("substitute"), 8)
    <2>1. CreateForCharacters \in Seq({Unless("currentFont"), New("string", {}),
              Unless("string"), New("substitute", {"currentFont", "string"}),
              Drop("string"), Unless("substitute"), Return("substitute")})
        BY DEF CreateForCharacters
    <2>2. IsSeq(CreateForCharacters)
        BY <2>1 DEF IsSeq
    <2> QED
        BY <2>2 DEF CreateForCharacters, Step
<1>2. /\ f # "fdopendir"
      /\ Calls[f].given = {"currentFont"}
      /\ Calls[f].body = CreateForCharacters
    BY DEF Calls, Script
<1> HIDE DEF f
<1>3. IsSeq(<<>>)
    BY <1>1, NothingAfter, StepFrom

\* Return("substitute")
<1>4. Good(f, {}, From(CreateForCharacters, 7, <<>>),
           Knows({"currentFont", "substitute"}, {"substitute"}, {}, "NULL", {}))
    BY <1>1, <1>2, <1>3, ReturnAt DEF Settled, Static

\* Unless("substitute")
<1>5. Good(f, {}, From(CreateForCharacters, 6, <<>>),
           Knows({"currentFont", "substitute"}, {}, {}, "NULL", {}))
    BY <1>4, <1>1, <1>2, <1>3, UnlessAt DEF Settled, Weaker, Static

\* Drop("string")
<1>6. Good(f, {}, From(CreateForCharacters, 5, <<>>),
           Knows({"currentFont", "string", "substitute"}, {"string"}, {}, "NULL", {}))
    BY <1>5, <1>1, <1>3, DropAt DEF Firm, Weaker, Static

\* New("substitute", {"currentFont", "string"})
<1>7. Good(f, {}, From(CreateForCharacters, 4, <<>>),
           Knows({"currentFont", "string"}, {"currentFont", "string"}, {}, "NULL", {}))
    BY <1>6, <1>1, <1>3, NewAt DEF Firm, Unused, Spared, Weaker, Static

\* Unless("string")
<1>8. Good(f, {}, From(CreateForCharacters, 3, <<>>),
           Knows({"currentFont", "string"}, {"currentFont"}, {}, "NULL", {}))
    BY <1>7, <1>1, <1>2, <1>3, UnlessAt DEF Settled, Weaker, Static

\* New("string", {})
<1>9. Good(f, {}, From(CreateForCharacters, 2, <<>>),
           Knows({"currentFont"}, {"currentFont"}, {}, "NULL", {}))
    BY <1>8, <1>1, <1>3, NewAt DEF Unused, Spared, Weaker, Static

\* Unless("currentFont")
<1>10. Good(f, {}, From(CreateForCharacters, 1, <<>>),
            Knows({"currentFont"}, {}, {}, "NULL", {}))
    BY <1>9, <1>1, <1>2, <1>3, UnlessAt DEF Settled, Weaker, Static
<1>11. Entered(f)
    <2>1. {} \cap (Calls[f].given \cup {Static}) = {} /\ Static \notin Calls[f].given
          /\ "NULL" \notin Calls[f].given
        BY <1>2 DEF Static
    <2>2. From(CreateForCharacters, 1, <<>>) = Calls[f].body
        BY <1>2, <1>1, NothingAfter
    <2> QED
        BY <2>1, <2>2, <1>10, <1>2, Zenon DEF Entered
<1> QED
    BY <1>11 DEF f

LEMMA HasTableEntered == Entered("CTFontHasTable")
<1> DEFINE f == "CTFontHasTable"
<1>1. /\ IsSeq(HasTable)
      /\ Step(HasTable, 1, Unless("font"), 2)
      /\ Step(HasTable, 2, New("table", {"font"}), 3)
      /\ Step(HasTable, 3, Unless("table"), 4)
      /\ Step(HasTable, 4, Drop("table"), 5)
      /\ Step(HasTable, 5, Return("NULL"), 6)
    <2>1. HasTable \in Seq({Unless("font"), New("table", {"font"}), Unless("table"),
              Drop("table"), Return("NULL")})
        BY DEF HasTable
    <2>2. IsSeq(HasTable)
        BY <2>1 DEF IsSeq
    <2> QED
        BY <2>2 DEF HasTable, Step
<1>2. f # "fdopendir" /\ Calls[f].given = {"font"} /\ Calls[f].body = HasTable
    BY DEF Calls, Script
<1> HIDE DEF f
<1>3. IsSeq(<<>>)
    BY <1>1, NothingAfter, StepFrom

\* Return("NULL")
<1>4. Good(f, {}, From(HasTable, 5, <<>>),
           Knows({"font"}, {}, {}, "NULL", {}))
    BY <1>1, <1>2, <1>3, ReturnAt DEF Settled, Static

\* Drop("table")
<1>5. Good(f, {}, From(HasTable, 4, <<>>),
           Knows({"font", "table"}, {"table"}, {}, "NULL", {}))
    BY <1>4, <1>1, <1>3, DropAt DEF Firm, Weaker, Static

\* Unless("table")
<1>6. Good(f, {}, From(HasTable, 3, <<>>),
           Knows({"font", "table"}, {}, {}, "NULL", {}))
    BY <1>5, <1>1, <1>2, <1>3, UnlessAt DEF Settled, Weaker, Static

\* New("table", {"font"})
<1>7. Good(f, {}, From(HasTable, 2, <<>>),
           Knows({"font"}, {"font"}, {}, "NULL", {}))
    BY <1>6, <1>1, <1>3, NewAt DEF Firm, Unused, Spared, Weaker, Static

\* Unless("font")
<1>8. Good(f, {}, From(HasTable, 1, <<>>),
           Knows({"font"}, {}, {}, "NULL", {}))
    BY <1>7, <1>1, <1>2, <1>3, UnlessAt DEF Settled, Weaker, Static
<1>9. Entered(f)
    <2>1. {} \cap (Calls[f].given \cup {Static}) = {} /\ Static \notin Calls[f].given
          /\ "NULL" \notin Calls[f].given
        BY <1>2 DEF Static
    <2>2. From(HasTable, 1, <<>>) = Calls[f].body
        BY <1>2, <1>1, NothingAfter
    <2> QED
        BY <2>1, <2>2, <1>8, <1>2, Zenon DEF Entered
<1> QED
    BY <1>9 DEF f

LEMMA IsAppleColorEmojiEntered == Entered("CTFontIsAppleColorEmoji")
<1> DEFINE f == "CTFontIsAppleColorEmoji"
<1>1. /\ IsSeq(IsAppleColorEmoji)
      /\ Step(IsAppleColorEmoji, 1, Unless("font"), 2)
      /\ Step(IsAppleColorEmoji, 2, New("family", {"font"}), 3)
      /\ Step(IsAppleColorEmoji, 3, Unless("family"), 4)
      /\ Step(IsAppleColorEmoji, 4, Use({"family"}), 5)
      /\ Step(IsAppleColorEmoji, 5, Drop("family"), 6)
      /\ Step(IsAppleColorEmoji, 6, Return("NULL"), 7)
    <2>1. IsAppleColorEmoji \in Seq({Unless("font"), New("family", {"font"}),
              Unless("family"), Use({"family"}), Drop("family"), Return("NULL")})
        BY DEF IsAppleColorEmoji
    <2>2. IsSeq(IsAppleColorEmoji)
        BY <2>1 DEF IsSeq
    <2> QED
        BY <2>2 DEF IsAppleColorEmoji, Step
<1>2. f # "fdopendir" /\ Calls[f].given = {"font"} /\ Calls[f].body = IsAppleColorEmoji
    BY DEF Calls, Script
<1> HIDE DEF f
<1>3. IsSeq(<<>>)
    BY <1>1, NothingAfter, StepFrom

\* Return("NULL")
<1>4. Good(f, {}, From(IsAppleColorEmoji, 6, <<>>),
           Knows({"font"}, {}, {}, "NULL", {}))
    BY <1>1, <1>2, <1>3, ReturnAt DEF Settled, Static

\* Drop("family")
<1>5. Good(f, {}, From(IsAppleColorEmoji, 5, <<>>),
           Knows({"family", "font"}, {"family"}, {}, "NULL", {}))
    BY <1>4, <1>1, <1>3, DropAt DEF Firm, Weaker, Static

\* Use({"family"})
<1>6. Good(f, {}, From(IsAppleColorEmoji, 4, <<>>),
           Knows({"family", "font"}, {"family"}, {}, "NULL", {}))
    BY <1>5, <1>1, <1>3, UseAt DEF Firm, Weaker, Static

\* Unless("family")
<1>7. Good(f, {}, From(IsAppleColorEmoji, 3, <<>>),
           Knows({"family", "font"}, {}, {}, "NULL", {}))
    BY <1>6, <1>1, <1>2, <1>3, UnlessAt DEF Settled, Weaker, Static

\* New("family", {"font"})
<1>8. Good(f, {}, From(IsAppleColorEmoji, 2, <<>>),
           Knows({"font"}, {"font"}, {}, "NULL", {}))
    BY <1>7, <1>1, <1>3, NewAt DEF Firm, Unused, Spared, Weaker, Static

\* Unless("font")
<1>9. Good(f, {}, From(IsAppleColorEmoji, 1, <<>>),
           Knows({"font"}, {}, {}, "NULL", {}))
    BY <1>8, <1>1, <1>2, <1>3, UnlessAt DEF Settled, Weaker, Static
<1>10. Entered(f)
    <2>1. {} \cap (Calls[f].given \cup {Static}) = {} /\ Static \notin Calls[f].given
          /\ "NULL" \notin Calls[f].given
        BY <1>2 DEF Static
    <2>2. From(IsAppleColorEmoji, 1, <<>>) = Calls[f].body
        BY <1>2, <1>1, NothingAfter
    <2> QED
        BY <2>1, <2>2, <1>9, <1>2, Zenon DEF Entered
<1> QED
    BY <1>10 DEF f

LEMMA CreateForUITypeEntered == Entered("CTFontDescriptorCreateForUIType")
<1> DEFINE f == "CTFontDescriptorCreateForUIType"
           HasDescriptor == <<Return("descriptor")>>
           HasFont == <<New("descriptor", {"font"}), Drop("font"), IfSet("descriptor",
                        HasDescriptor)>>
           Start == <<New("font", {}), IfSet("font", HasFont)>>
           AfterStart == From(DescriptorForFamily, 1, <<>>)
           AfterHasFont == From(Start, 3, AfterStart)
           AfterHasDescriptor == From(HasFont, 4, AfterHasFont)
<1>1. /\ IsSeq(Start)
      /\ Step(Start, 1, New("font", {}), 2)
      /\ Step(Start, 2, IfSet("font", HasFont), 3)
      /\ End(Start, 3)
    <2>1. Start \in Seq({New("font", {}), IfSet("font", HasFont)})
        BY DEF Start
    <2>2. IsSeq(Start)
        BY <2>1 DEF IsSeq
    <2> QED
        BY <2>2 DEF Start, Step, End
<1>2. /\ IsSeq(HasFont)
      /\ Step(HasFont, 1, New("descriptor", {"font"}), 2)
      /\ Step(HasFont, 2, Drop("font"), 3)
      /\ Step(HasFont, 3, IfSet("descriptor", HasDescriptor), 4)
      /\ End(HasFont, 4)
    <2>1. HasFont \in Seq({New("descriptor", {"font"}), Drop("font"),
              IfSet("descriptor", HasDescriptor)})
        BY DEF HasFont
    <2>2. IsSeq(HasFont)
        BY <2>1 DEF IsSeq
    <2> QED
        BY <2>2 DEF HasFont, Step, End
<1>3. /\ IsSeq(HasDescriptor)
      /\ Step(HasDescriptor, 1, Return("descriptor"), 2)
    <2>1. HasDescriptor \in Seq({Return("descriptor")})
        BY DEF HasDescriptor
    <2>2. IsSeq(HasDescriptor)
        BY <2>1 DEF IsSeq
    <2> QED
        BY <2>2 DEF HasDescriptor, Step
<1>4. /\ IsSeq(DescriptorForFamily)
      /\ Step(DescriptorForFamily, 1, Sure("named", {}), 2)
      /\ Step(DescriptorForFamily, 2, New("descriptor", {"named"}), 3)
      /\ Step(DescriptorForFamily, 3, Drop("named"), 4)
      /\ Step(DescriptorForFamily, 4, Return("descriptor"), 5)
    <2>1. DescriptorForFamily \in Seq({Sure("named", {}), New("descriptor", {"named"}),
              Drop("named"), Return("descriptor")})
        BY DEF DescriptorForFamily
    <2>2. IsSeq(DescriptorForFamily)
        BY <2>1 DEF IsSeq
    <2> QED
        BY <2>2 DEF DescriptorForFamily, Step
<1>5. f # "fdopendir" /\ Calls[f].given = {} /\ Calls[f].body = CreateForUIType
    BY DEF Calls, Script
<1>6. CreateForUIType = Start \o DescriptorForFamily
    BY DEF CreateForUIType
<1> HIDE DEF f, HasDescriptor, HasFont, Start
<1>7. /\ IsSeq(<<>>) /\ IsSeq(AfterStart) /\ IsSeq(AfterHasFont)
      /\ IsSeq(AfterHasDescriptor)
    BY <1>1, <1>2, <1>3, <1>4, NothingAfter, StepFrom, StartAndEnd

\* Return("descriptor")
<1>8. Good(f, {}, From(DescriptorForFamily, 4, <<>>),
           Knows({"descriptor"}, {}, {}, "NULL", {}))
    BY <1>4, <1>5, <1>7, ReturnAt DEF Settled, Static

\* Drop("named")
<1>9. Good(f, {}, From(DescriptorForFamily, 3, <<>>),
           Knows({"descriptor", "named"}, {"named"}, {}, "NULL", {}))
    BY <1>8, <1>4, <1>7, DropAt DEF Firm, Weaker, Static

\* New("descriptor", {"named"})
<1>10. Good(f, {}, From(DescriptorForFamily, 2, <<>>),
            Knows({"named"}, {"named"}, {}, "NULL", {}))
    BY <1>9, <1>4, <1>7, NewAt DEF Firm, Unused, Spared, Weaker, Static

\* Sure("named", {})
<1>11. Good(f, {}, From(DescriptorForFamily, 1, <<>>),
            Knows({}, {}, {}, "NULL", {}))
    BY <1>10, <1>4, <1>7, SureAt DEF Unused, Spared, Weaker, Static

\* the end of Start
<1>12. Good(f, {}, From(Start, 3, AfterStart),
            Knows({}, {}, {}, "NULL", {}))
    BY <1>11, <1>1, <1>7, EndAt

\* the end of HasFont
<1>13. Good(f, {}, From(HasFont, 4, AfterHasFont),
            Knows({}, {}, {}, "NULL", {}))
    BY <1>12, <1>2, <1>7, EndAt

\* Return("descriptor")
<1>14. Good(f, {}, From(HasDescriptor, 1, AfterHasDescriptor),
            Knows({"descriptor"}, {"descriptor"}, {}, "NULL", {}))
    BY <1>3, <1>5, <1>7, ReturnAt DEF Settled, Static

\* IfSet("descriptor", HasDescriptor)
<1>15. Good(f, {}, From(HasFont, 3, AfterHasFont),
            Knows({"descriptor"}, {}, {}, "NULL", {}))
    BY <1>14, <1>13, <1>2, <1>3, <1>7, IfSetAt DEF Weaker

\* Drop("font")
<1>16. Good(f, {}, From(HasFont, 2, AfterHasFont),
            Knows({"descriptor", "font"}, {"font"}, {}, "NULL", {}))
    BY <1>15, <1>2, <1>7, DropAt DEF Firm, Weaker, Static

\* New("descriptor", {"font"})
<1>17. Good(f, {}, From(HasFont, 1, AfterHasFont),
            Knows({"font"}, {"font"}, {}, "NULL", {}))
    BY <1>16, <1>2, <1>7, NewAt DEF Firm, Unused, Spared, Weaker, Static

\* IfSet("font", HasFont)
<1>18. Good(f, {}, From(Start, 2, AfterStart),
            Knows({"font"}, {}, {}, "NULL", {}))
    BY <1>17, <1>12, <1>1, <1>2, <1>7, IfSetAt DEF Weaker

\* New("font", {})
<1>19. Good(f, {}, From(Start, 1, AfterStart),
            Knows({}, {}, {}, "NULL", {}))
    BY <1>18, <1>1, <1>7, NewAt DEF Unused, Spared, Weaker, Static
<1>20. Entered(f)
    <2>1. {} \cap (Calls[f].given \cup {Static}) = {} /\ Static \notin Calls[f].given
          /\ "NULL" \notin Calls[f].given
        BY <1>5 DEF Static
    <2>2. From(Start, 1, AfterStart) = Calls[f].body
        BY <1>6, <1>5, <1>1, <1>2, <1>3, <1>4, NothingAfter, StartAndEnd
    <2> QED
        BY <2>1, <2>2, <1>19, <1>5, Zenon DEF Entered
<1> QED
    BY <1>20 DEF f

LEMMA CreateWithTextStyleAndAttributesEntered ==
    Entered("CTFontDescriptorCreateWithTextStyleAndAttributes")
<1> DEFINE f == "CTFontDescriptorCreateWithTextStyleAndAttributes"
<1>1. /\ IsSeq(CreateWithTextStyleAndAttributes)
      /\ Step(CreateWithTextStyleAndAttributes, 1, IfNull("attributes",
              DescriptorForFamily), 2)
      /\ Step(CreateWithTextStyleAndAttributes, 2, Maybe(DescriptorForFamily), 3)
      /\ Step(CreateWithTextStyleAndAttributes, 3, Sure("merged", {"attributes"}), 4)
      /\ Step(CreateWithTextStyleAndAttributes, 4, New("descriptor", {"merged"}), 5)
      /\ Step(CreateWithTextStyleAndAttributes, 5, Drop("merged"), 6)
      /\ Step(CreateWithTextStyleAndAttributes, 6, Return("descriptor"), 7)
    <2>1. CreateWithTextStyleAndAttributes \in Seq({IfNull("attributes",
              DescriptorForFamily), Maybe(DescriptorForFamily), Sure("merged",
              {"attributes"}), New("descriptor", {"merged"}), Drop("merged"),
              Return("descriptor")})
        BY DEF CreateWithTextStyleAndAttributes
    <2>2. IsSeq(CreateWithTextStyleAndAttributes)
        BY <2>1 DEF IsSeq
    <2> QED
        BY <2>2 DEF CreateWithTextStyleAndAttributes, Step
<1>2. /\ IsSeq(DescriptorForFamily)
      /\ Step(DescriptorForFamily, 1, Sure("named", {}), 2)
      /\ Step(DescriptorForFamily, 2, New("descriptor", {"named"}), 3)
      /\ Step(DescriptorForFamily, 3, Drop("named"), 4)
      /\ Step(DescriptorForFamily, 4, Return("descriptor"), 5)
    <2>1. DescriptorForFamily \in Seq({Sure("named", {}), New("descriptor", {"named"}),
              Drop("named"), Return("descriptor")})
        BY DEF DescriptorForFamily
    <2>2. IsSeq(DescriptorForFamily)
        BY <2>1 DEF IsSeq
    <2> QED
        BY <2>2 DEF DescriptorForFamily, Step
<1>3. /\ f # "fdopendir"
      /\ Calls[f].given = {"attributes"}
      /\ Calls[f].body = CreateWithTextStyleAndAttributes
    BY DEF Calls, Script
<1> HIDE DEF f
<1>4. /\ IsSeq(<<>>) /\ IsSeq(From(CreateWithTextStyleAndAttributes, 2, <<>>))
      /\ IsSeq(From(CreateWithTextStyleAndAttributes, 3, <<>>))
    BY <1>1, <1>2, NothingAfter, StepFrom

\* Return("descriptor")
<1>5. Good(f, {}, From(CreateWithTextStyleAndAttributes, 6, <<>>),
           Knows({"attributes", "descriptor"}, {}, {}, "NULL", {}))
    BY <1>1, <1>3, <1>4, ReturnAt DEF Settled, Static

\* Drop("merged")
<1>6. Good(f, {}, From(CreateWithTextStyleAndAttributes, 5, <<>>),
           Knows({"attributes", "descriptor", "merged"}, {"merged"}, {}, "NULL", {}))
    BY <1>5, <1>1, <1>4, DropAt DEF Firm, Weaker, Static

\* New("descriptor", {"merged"})
<1>7. Good(f, {}, From(CreateWithTextStyleAndAttributes, 4, <<>>),
           Knows({"attributes", "merged"}, {"merged"}, {}, "NULL", {}))
    BY <1>6, <1>1, <1>4, NewAt DEF Firm, Unused, Spared, Weaker, Static

\* Sure("merged", {"attributes"})
<1>8. Good(f, {}, From(CreateWithTextStyleAndAttributes, 3, <<>>),
           Knows({"attributes"}, {"attributes"}, {}, "NULL", {}))
    BY <1>7, <1>1, <1>4, SureAt DEF Firm, Unused, Spared, Weaker, Static

\* Return("descriptor")
<1>9. Good(f, {}, From(DescriptorForFamily, 4,
                       From(CreateWithTextStyleAndAttributes, 3, <<>>)),
           Knows({"attributes", "descriptor"}, {}, {}, "NULL", {}))
    BY <1>2, <1>3, <1>4, ReturnAt DEF Settled, Static

\* Drop("named")
<1>10. Good(f, {}, From(DescriptorForFamily, 3,
                        From(CreateWithTextStyleAndAttributes, 3, <<>>)),
            Knows({"attributes", "descriptor", "named"}, {"named"}, {}, "NULL", {}))
    BY <1>9, <1>2, <1>4, DropAt DEF Firm, Weaker, Static

\* New("descriptor", {"named"})
<1>11. Good(f, {}, From(DescriptorForFamily, 2,
                        From(CreateWithTextStyleAndAttributes, 3, <<>>)),
            Knows({"attributes", "named"}, {"named"}, {}, "NULL", {}))
    BY <1>10, <1>2, <1>4, NewAt DEF Firm, Unused, Spared, Weaker, Static

\* Sure("named", {})
<1>12. Good(f, {}, From(DescriptorForFamily, 1,
                        From(CreateWithTextStyleAndAttributes, 3, <<>>)),
            Knows({"attributes"}, {}, {}, "NULL", {}))
    BY <1>11, <1>2, <1>4, SureAt DEF Unused, Spared, Weaker, Static

\* Maybe(DescriptorForFamily)
<1>13. Good(f, {}, From(CreateWithTextStyleAndAttributes, 2, <<>>),
            Knows({"attributes"}, {"attributes"}, {}, "NULL", {}))
    BY <1>12, <1>8, <1>1, <1>2, <1>4, MaybeAt DEF Weaker

\* Return("descriptor")
<1>14. Good(f, {}, From(DescriptorForFamily, 4,
                        From(CreateWithTextStyleAndAttributes, 2, <<>>)),
            Knows({"attributes", "descriptor"}, {}, {}, "NULL", {}))
    BY <1>2, <1>3, <1>4, ReturnAt DEF Settled, Static

\* Drop("named")
<1>15. Good(f, {}, From(DescriptorForFamily, 3,
                        From(CreateWithTextStyleAndAttributes, 2, <<>>)),
            Knows({"attributes", "descriptor", "named"}, {"named"}, {}, "NULL", {}))
    BY <1>14, <1>2, <1>4, DropAt DEF Firm, Weaker, Static

\* New("descriptor", {"named"})
<1>16. Good(f, {}, From(DescriptorForFamily, 2,
                        From(CreateWithTextStyleAndAttributes, 2, <<>>)),
            Knows({"attributes", "named"}, {"named"}, {}, "NULL", {}))
    BY <1>15, <1>2, <1>4, NewAt DEF Firm, Unused, Spared, Weaker, Static

\* Sure("named", {})
<1>17. Good(f, {}, From(DescriptorForFamily, 1,
                        From(CreateWithTextStyleAndAttributes, 2, <<>>)),
            Knows({"attributes"}, {}, {}, "NULL", {}))
    BY <1>16, <1>2, <1>4, SureAt DEF Unused, Spared, Weaker, Static

\* IfNull("attributes", DescriptorForFamily)
<1>18. Good(f, {}, From(CreateWithTextStyleAndAttributes, 1, <<>>),
            Knows({"attributes"}, {}, {}, "NULL", {}))
    BY <1>17, <1>13, <1>1, <1>2, <1>4, IfNullAt DEF Weaker
<1>19. Entered(f)
    <2>1. {} \cap (Calls[f].given \cup {Static}) = {} /\ Static \notin Calls[f].given
          /\ "NULL" \notin Calls[f].given
        BY <1>3 DEF Static
    <2>2. From(CreateWithTextStyleAndAttributes, 1, <<>>) = Calls[f].body
        BY <1>3, <1>1, <1>2, NothingAfter
    <2> QED
        BY <2>1, <2>2, <1>18, <1>3, Zenon DEF Entered
<1> QED
    BY <1>19 DEF f

LEMMA CreateCopyWithSymbolicTraitsEntered ==
    Entered("CTFontDescriptorCreateCopyWithSymbolicTraits")
<1> DEFINE f == "CTFontDescriptorCreateCopyWithSymbolicTraits"
           HasExisting == <<Sure("attributes", {"existing"}), Drop("existing")>>
           NoExisting == <<Sure("attributes", {})>>
           Start == <<Unless("original"), New("existing", {"original"}), IfSet("existing",
                      HasExisting), IfNull("existing", NoExisting)>>
           HasCurrent == <<Use({"current"})>>
           HasExistingTraits == <<Get("current", "existingTraits"), IfSet("current",
                                  HasCurrent), Drop("existingTraits")>>
           Finish == <<Sure("number", {}), Sure("traits", {}), Put("number", "traits"),
                       Put("traits", "attributes"), Drop("traits"), Drop("number"),
                       New("descriptor", {"attributes"}), Drop("attributes"),
                       Return("descriptor")>>
           AfterReadTraits == From(Finish, 1, <<>>)
           AfterStart == From(ReadTraits, 1, AfterReadTraits)
           AfterHasExisting == From(Start, 4, AfterStart)
           AfterNoExisting == From(Start, 5, AfterStart)
           AfterHasExistingTraits == From(ReadTraits, 3, AfterReadTraits)
           AfterHasCurrent == From(HasExistingTraits, 3, AfterHasExistingTraits)
<1>1. /\ IsSeq(Start)
      /\ Step(Start, 1, Unless("original"), 2)
      /\ Step(Start, 2, New("existing", {"original"}), 3)
      /\ Step(Start, 3, IfSet("existing", HasExisting), 4)
      /\ Step(Start, 4, IfNull("existing", NoExisting), 5)
      /\ End(Start, 5)
    <2>1. Start \in Seq({Unless("original"), New("existing", {"original"}),
              IfSet("existing", HasExisting), IfNull("existing", NoExisting)})
        BY DEF Start
    <2>2. IsSeq(Start)
        BY <2>1 DEF IsSeq
    <2> QED
        BY <2>2 DEF Start, Step, End
<1>2. /\ IsSeq(HasExisting)
      /\ Step(HasExisting, 1, Sure("attributes", {"existing"}), 2)
      /\ Step(HasExisting, 2, Drop("existing"), 3)
      /\ End(HasExisting, 3)
    <2>1. HasExisting \in Seq({Sure("attributes", {"existing"}), Drop("existing")})
        BY DEF HasExisting
    <2>2. IsSeq(HasExisting)
        BY <2>1 DEF IsSeq
    <2> QED
        BY <2>2 DEF HasExisting, Step, End
<1>3. /\ IsSeq(NoExisting)
      /\ Step(NoExisting, 1, Sure("attributes", {}), 2)
      /\ End(NoExisting, 2)
    <2>1. NoExisting \in Seq({Sure("attributes", {})})
        BY DEF NoExisting
    <2>2. IsSeq(NoExisting)
        BY <2>1 DEF IsSeq
    <2> QED
        BY <2>2 DEF NoExisting, Step, End
<1>4. /\ IsSeq(ReadTraits)
      /\ Step(ReadTraits, 1, New("existingTraits", {"original"}), 2)
      /\ Step(ReadTraits, 2, IfSet("existingTraits", HasExistingTraits), 3)
      /\ End(ReadTraits, 3)
    <2>1. ReadTraits \in Seq({New("existingTraits", {"original"}),
              IfSet("existingTraits", HasExistingTraits)})
        BY DEF ReadTraits
    <2>2. IsSeq(ReadTraits)
        BY <2>1 DEF IsSeq
    <2> QED
        BY <2>2 DEF ReadTraits, Step, End
<1>5. /\ IsSeq(HasExistingTraits)
      /\ Step(HasExistingTraits, 1, Get("current", "existingTraits"), 2)
      /\ Step(HasExistingTraits, 2, IfSet("current", HasCurrent), 3)
      /\ Step(HasExistingTraits, 3, Drop("existingTraits"), 4)
      /\ End(HasExistingTraits, 4)
    <2>1. HasExistingTraits \in Seq({Get("current", "existingTraits"), IfSet("current",
              HasCurrent), Drop("existingTraits")})
        BY DEF HasExistingTraits
    <2>2. IsSeq(HasExistingTraits)
        BY <2>1 DEF IsSeq
    <2> QED
        BY <2>2 DEF HasExistingTraits, Step, End
<1>6. /\ IsSeq(HasCurrent)
      /\ Step(HasCurrent, 1, Use({"current"}), 2)
      /\ End(HasCurrent, 2)
    <2>1. HasCurrent \in Seq({Use({"current"})})
        BY DEF HasCurrent
    <2>2. IsSeq(HasCurrent)
        BY <2>1 DEF IsSeq
    <2> QED
        BY <2>2 DEF HasCurrent, Step, End
<1>7. /\ IsSeq(Finish)
      /\ Step(Finish, 1, Sure("number", {}), 2)
      /\ Step(Finish, 2, Sure("traits", {}), 3)
      /\ Step(Finish, 3, Put("number", "traits"), 4)
      /\ Step(Finish, 4, Put("traits", "attributes"), 5)
      /\ Step(Finish, 5, Drop("traits"), 6)
      /\ Step(Finish, 6, Drop("number"), 7)
      /\ Step(Finish, 7, New("descriptor", {"attributes"}), 8)
      /\ Step(Finish, 8, Drop("attributes"), 9)
      /\ Step(Finish, 9, Return("descriptor"), 10)
    <2>1. Finish \in Seq({Sure("number", {}), Sure("traits", {}), Put("number",
              "traits"), Put("traits", "attributes"), Drop("traits"), Drop("number"),
              New("descriptor", {"attributes"}), Drop("attributes"),
              Return("descriptor")})
        BY DEF Finish
    <2>2. IsSeq(Finish)
        BY <2>1 DEF IsSeq
    <2> QED
        BY <2>2 DEF Finish, Step
<1>8. /\ f # "fdopendir"
      /\ Calls[f].given = {"original"}
      /\ Calls[f].body = CreateCopyWithSymbolicTraits
    BY DEF Calls, Script
<1>9. CreateCopyWithSymbolicTraits = (Start \o ReadTraits) \o Finish
    BY DEF CreateCopyWithSymbolicTraits
<1> HIDE DEF f, HasExisting, NoExisting, Start, HasCurrent, HasExistingTraits, Finish
<1>10. /\ IsSeq(<<>>) /\ IsSeq(AfterReadTraits) /\ IsSeq(AfterStart)
       /\ IsSeq(AfterHasExisting) /\ IsSeq(AfterNoExisting)
       /\ IsSeq(AfterHasExistingTraits) /\ IsSeq(AfterHasCurrent)
    BY <1>1, <1>2, <1>3, <1>4, <1>5, <1>6, <1>7, NothingAfter, StepFrom, StartAndEnd

\* Return("descriptor")
<1>11. Good(f, {}, From(Finish, 9, <<>>),
            Knows({"descriptor", "original"}, {}, {}, "existingTraits", {}))
    BY <1>7, <1>8, <1>10, ReturnAt DEF Settled, Static

\* Drop("attributes")
<1>12. Good(f, {}, From(Finish, 8, <<>>),
            Knows({"attributes", "descriptor", "original"}, {"attributes"}, {},
                  "existingTraits", {}))
    BY <1>11, <1>7, <1>10, DropAt DEF Firm, Weaker, Static

\* New("descriptor", {"attributes"})
<1>13. Good(f, {}, From(Finish, 7, <<>>),
            Knows({"attributes", "original"}, {"attributes"}, {}, "existingTraits", {}))
    BY <1>12, <1>7, <1>10, NewAt DEF Firm, Unused, Spared, Weaker, Static

\* Drop("number")
<1>14. Good(f, {}, From(Finish, 6, <<>>),
            Knows({"attributes", "number", "original"}, {"attributes", "number"}, {},
                  "existingTraits", {}))
    BY <1>13, <1>7, <1>10, DropAt DEF Firm, Weaker, Static

\* Drop("traits")
<1>15. Good(f, {}, From(Finish, 5, <<>>),
            Knows({"attributes", "number", "original", "traits"},
                  {"attributes", "number", "traits"}, {}, "existingTraits", {}))
    BY <1>14, <1>7, <1>10, DropAt DEF Firm, Weaker, Static

\* Put("traits", "attributes")
<1>16. Good(f, {}, From(Finish, 4, <<>>),
            Knows({"attributes", "number", "original", "traits"},
                  {"attributes", "number", "traits"}, {}, "existingTraits", {}))
    BY <1>15, <1>7, <1>10, PutAt DEF Firm, Weaker, Static

\* Put("number", "traits")
<1>17. Good(f, {}, From(Finish, 3, <<>>),
            Knows({"attributes", "number", "original", "traits"},
                  {"attributes", "number", "traits"}, {}, "existingTraits", {}))
    BY <1>16, <1>7, <1>10, PutAt DEF Firm, Weaker, Static

\* Sure("traits", {})
<1>18. Good(f, {}, From(Finish, 2, <<>>),
            Knows({"attributes", "number", "original"}, {"attributes", "number"}, {},
                  "existingTraits", {}))
    BY <1>17, <1>7, <1>10, SureAt DEF Unused, Spared, Weaker, Static

\* Sure("number", {})
<1>19. Good(f, {}, From(Finish, 1, <<>>),
            Knows({"attributes", "original"}, {"attributes"}, {}, "existingTraits", {}))
    BY <1>18, <1>7, <1>10, SureAt DEF Unused, Spared, Weaker, Static

\* the end of ReadTraits
<1>20. Good(f, {}, From(ReadTraits, 3, AfterReadTraits),
            Knows({"attributes", "original"}, {"attributes"}, {}, "existingTraits", {}))
    BY <1>19, <1>4, <1>10, EndAt

\* the end of HasExistingTraits
<1>21. Good(f, {}, From(HasExistingTraits, 4, AfterHasExistingTraits),
            Knows({"attributes", "original"}, {"attributes"}, {}, "existingTraits", {}))
    BY <1>20, <1>5, <1>10, EndAt

\* Drop("existingTraits")
<1>22. Good(f, {}, From(HasExistingTraits, 3, AfterHasExistingTraits),
            Knows({"attributes", "existingTraits", "original"},
                  {"attributes", "existingTraits"}, {}, "existingTraits", {}))
    BY <1>21, <1>5, <1>10, DropAt DEF Firm, Weaker, Static

\* the end of HasCurrent
<1>23. Good(f, {}, From(HasCurrent, 2, AfterHasCurrent),
            Knows({"attributes", "existingTraits", "original"},
                  {"attributes", "existingTraits"}, {}, "existingTraits", {}))
    BY <1>22, <1>6, <1>10, EndAt

\* Use({"current"})
<1>24. Good(f, {}, From(HasCurrent, 1, AfterHasCurrent),
            Knows({"attributes", "existingTraits", "original"},
                  {"attributes", "current", "existingTraits"}, {}, "existingTraits",
                  {"current"}))
    BY <1>23, <1>6, <1>10, UseAt DEF Firm, Weaker, Static

\* IfSet("current", HasCurrent)
<1>25. Good(f, {}, From(HasExistingTraits, 2, AfterHasExistingTraits),
            Knows({"attributes", "existingTraits", "original"},
                  {"attributes", "existingTraits"}, {}, "existingTraits", {"current"}))
    BY <1>24, <1>22, <1>5, <1>6, <1>10, IfSetAt DEF Weaker

\* Get("current", "existingTraits")
<1>26. Good(f, {}, From(HasExistingTraits, 1, AfterHasExistingTraits),
            Knows({"attributes", "existingTraits", "original"},
                  {"attributes", "existingTraits"}, {}, "existingTraits", {}))
    BY <1>25, <1>5, <1>10, GetAt DEF Firm, Unused, Weaker, Static

\* IfSet("existingTraits", HasExistingTraits)
<1>27. Good(f, {}, From(ReadTraits, 2, AfterReadTraits),
            Knows({"attributes", "existingTraits", "original"}, {"attributes"}, {},
                  "existingTraits", {}))
    BY <1>26, <1>20, <1>4, <1>5, <1>10, IfSetAt DEF Weaker

\* New("existingTraits", {"original"})
<1>28. Good(f, {}, From(ReadTraits, 1, AfterReadTraits),
            Knows({"attributes", "original"}, {"attributes", "original"}, {},
                  "existingTraits", {}))
    BY <1>27, <1>4, <1>10, NewAt DEF Firm, Unused, Spared, Weaker, Static

\* the end of Start
<1>29. Good(f, {}, From(Start, 5, AfterStart),
            Knows({"attributes", "original"}, {"attributes", "original"}, {},
                  "existingTraits", {}))
    BY <1>28, <1>1, <1>10, EndAt

\* the end of NoExisting
<1>30. Good(f, {}, From(NoExisting, 2, AfterNoExisting),
            Knows({"attributes", "original"}, {"attributes", "original"}, {},
                  "existingTraits", {}))
    BY <1>29, <1>3, <1>10, EndAt

\* Sure("attributes", {})
<1>31. Good(f, {}, From(NoExisting, 1, AfterNoExisting),
            Knows({"original"}, {"original"}, {}, "existingTraits", {}))
    BY <1>30, <1>3, <1>10, SureAt DEF Unused, Spared, Weaker, Static

\* IfNull("existing", NoExisting)
<1>32. Good(f, {}, From(Start, 4, AfterStart),
            Knows({"existing", "original"}, {"original"}, {"attributes", "existing"},
                  "existingTraits", {}))
    BY <1>31, <1>1, <1>3, <1>10, IfNullTaken DEF Weaker

\* IfNull("existing", NoExisting)
<1>33. Good(f, {}, From(Start, 4, AfterStart),
            Knows({"attributes", "original"}, {"attributes", "existing", "original"}, {},
                  "existingTraits", {}))
    BY <1>29, <1>1, <1>3, <1>10, IfNullSkipped DEF Weaker

\* the end of HasExisting
<1>34. Good(f, {}, From(HasExisting, 3, AfterHasExisting),
            Knows({"attributes", "original"}, {"attributes", "existing", "original"}, {},
                  "existingTraits", {}))
    BY <1>33, <1>2, <1>10, EndAt

\* Drop("existing")
<1>35. Good(f, {}, From(HasExisting, 2, AfterHasExisting),
            Knows({"attributes", "existing", "original"},
                  {"attributes", "existing", "original"}, {}, "existingTraits", {}))
    BY <1>34, <1>2, <1>10, DropAt DEF Firm, Weaker, Static

\* Sure("attributes", {"existing"})
<1>36. Good(f, {}, From(HasExisting, 1, AfterHasExisting),
            Knows({"existing", "original"}, {"existing", "original"}, {}, "existingTraits",
                  {}))
    BY <1>35, <1>2, <1>10, SureAt DEF Firm, Unused, Spared, Weaker, Static

\* IfSet("existing", HasExisting)
<1>37. Good(f, {}, From(Start, 3, AfterStart),
            Knows({"existing", "original"}, {"original"}, {"attributes"}, "existingTraits",
                  {}))
    BY <1>36, <1>32, <1>1, <1>2, <1>10, IfSetAt DEF Weaker

\* New("existing", {"original"})
<1>38. Good(f, {}, From(Start, 2, AfterStart),
            Knows({"original"}, {"original"}, {"attributes"}, "existingTraits", {}))
    BY <1>37, <1>1, <1>10, NewAt DEF Firm, Unused, Spared, Weaker, Static

\* Unless("original")
<1>39. Good(f, {}, From(Start, 1, AfterStart),
            Knows({"original"}, {}, {"attributes"}, "existingTraits", {}))
    BY <1>38, <1>1, <1>8, <1>10, UnlessAt DEF Settled, Weaker, Static
<1>40. Entered(f)
    <2>1. /\ {"attributes"} \cap (Calls[f].given \cup {Static}) = {}
          /\ Static \notin Calls[f].given
          /\ "NULL" \notin Calls[f].given
        BY <1>8 DEF Static
    <2>2. From(Start, 1, AfterStart) = Calls[f].body
        <3>1. From(Finish, 1, <<>>) = Finish
            BY <1>7, NothingAfter
        <3>2. /\ From(ReadTraits, 1, Finish) = ReadTraits \o Finish
              /\ IsSeq(ReadTraits \o Finish)
            BY <1>4, <1>7, StartAndEnd, ConcatIsSeq
        <3>3. From(Start, 1, ReadTraits \o Finish) = Start \o (ReadTraits \o Finish)
            BY <1>1, <3>2, StartAndEnd
        <3>4. IsSeq(Start) /\ IsSeq(ReadTraits) /\ IsSeq(Finish)
            BY <1>1, <1>4, <1>7
        <3>5. (Start \o ReadTraits) \o Finish = Start \o (ReadTraits \o Finish)
            BY <3>4, Joined
        <3> QED
            BY <1>9, <1>8, <3>1, <3>2, <3>3, <3>5
    <2> QED
        BY <2>1, <2>2, <1>39, <1>8, Zenon DEF Entered
<1> QED
    BY <1>40 DEF f

LEMMA DescriptorFromFontDataEntered == Entered("CTFontManagerCreateFontDescriptorFromData")
<1> DEFINE f == "CTFontManagerCreateFontDescriptorFromData"
<1>1. /\ IsSeq(DescriptorFromFontData)
      /\ Step(DescriptorFromFontData, 1, Unless("data"), 2)
      /\ Step(DescriptorFromFontData, 2, New("provider", {"data"}), 3)
      /\ Step(DescriptorFromFontData, 3, Unless("provider"), 4)
      /\ Step(DescriptorFromFontData, 4, New("cgFont", {"provider"}), 5)
      /\ Step(DescriptorFromFontData, 5, Drop("provider"), 6)
      /\ Step(DescriptorFromFontData, 6, Unless("cgFont"), 7)
      /\ Step(DescriptorFromFontData, 7, New("font", {"cgFont"}), 8)
      /\ Step(DescriptorFromFontData, 8, Drop("cgFont"), 9)
      /\ Step(DescriptorFromFontData, 9, Unless("font"), 10)
      /\ Step(DescriptorFromFontData, 10, New("descriptor", {"font"}), 11)
      /\ Step(DescriptorFromFontData, 11, Drop("font"), 12)
      /\ Step(DescriptorFromFontData, 12, Return("descriptor"), 13)
    <2>1. DescriptorFromFontData \in Seq({Unless("data"), New("provider", {"data"}),
              Unless("provider"), New("cgFont", {"provider"}), Drop("provider"),
              Unless("cgFont"), New("font", {"cgFont"}), Drop("cgFont"),
              Unless("font"), New("descriptor", {"font"}), Drop("font"),
              Return("descriptor")})
        BY DEF DescriptorFromFontData
    <2>2. IsSeq(DescriptorFromFontData)
        BY <2>1 DEF IsSeq
    <2> QED
        BY <2>2 DEF DescriptorFromFontData, Step
<1>2. f # "fdopendir" /\ Calls[f].given = {"data"} /\ Calls[f].body = DescriptorFromFontData
    BY DEF Calls, Script
<1> HIDE DEF f
<1>3. IsSeq(<<>>)
    BY <1>1, NothingAfter, StepFrom

\* Return("descriptor")
<1>4. Good(f, {}, From(DescriptorFromFontData, 12, <<>>),
           Knows({"data", "descriptor"}, {}, {}, "NULL", {}))
    BY <1>1, <1>2, <1>3, ReturnAt DEF Settled, Static

\* Drop("font")
<1>5. Good(f, {}, From(DescriptorFromFontData, 11, <<>>),
           Knows({"data", "descriptor", "font"}, {"font"}, {}, "NULL", {}))
    BY <1>4, <1>1, <1>3, DropAt DEF Firm, Weaker, Static

\* New("descriptor", {"font"})
<1>6. Good(f, {}, From(DescriptorFromFontData, 10, <<>>),
           Knows({"data", "font"}, {"font"}, {}, "NULL", {}))
    BY <1>5, <1>1, <1>3, NewAt DEF Firm, Unused, Spared, Weaker, Static

\* Unless("font")
<1>7. Good(f, {}, From(DescriptorFromFontData, 9, <<>>),
           Knows({"data", "font"}, {}, {}, "NULL", {}))
    BY <1>6, <1>1, <1>2, <1>3, UnlessAt DEF Settled, Weaker, Static

\* Drop("cgFont")
<1>8. Good(f, {}, From(DescriptorFromFontData, 8, <<>>),
           Knows({"cgFont", "data", "font"}, {"cgFont"}, {}, "NULL", {}))
    BY <1>7, <1>1, <1>3, DropAt DEF Firm, Weaker, Static

\* New("font", {"cgFont"})
<1>9. Good(f, {}, From(DescriptorFromFontData, 7, <<>>),
           Knows({"cgFont", "data"}, {"cgFont"}, {}, "NULL", {}))
    BY <1>8, <1>1, <1>3, NewAt DEF Firm, Unused, Spared, Weaker, Static

\* Unless("cgFont")
<1>10. Good(f, {}, From(DescriptorFromFontData, 6, <<>>),
            Knows({"cgFont", "data"}, {}, {}, "NULL", {}))
    BY <1>9, <1>1, <1>2, <1>3, UnlessAt DEF Settled, Weaker, Static

\* Drop("provider")
<1>11. Good(f, {}, From(DescriptorFromFontData, 5, <<>>),
            Knows({"cgFont", "data", "provider"}, {"provider"}, {}, "NULL", {}))
    BY <1>10, <1>1, <1>3, DropAt DEF Firm, Weaker, Static

\* New("cgFont", {"provider"})
<1>12. Good(f, {}, From(DescriptorFromFontData, 4, <<>>),
            Knows({"data", "provider"}, {"provider"}, {}, "NULL", {}))
    BY <1>11, <1>1, <1>3, NewAt DEF Firm, Unused, Spared, Weaker, Static

\* Unless("provider")
<1>13. Good(f, {}, From(DescriptorFromFontData, 3, <<>>),
            Knows({"data", "provider"}, {}, {}, "NULL", {}))
    BY <1>12, <1>1, <1>2, <1>3, UnlessAt DEF Settled, Weaker, Static

\* New("provider", {"data"})
<1>14. Good(f, {}, From(DescriptorFromFontData, 2, <<>>),
            Knows({"data"}, {"data"}, {}, "NULL", {}))
    BY <1>13, <1>1, <1>3, NewAt DEF Firm, Unused, Spared, Weaker, Static

\* Unless("data")
<1>15. Good(f, {}, From(DescriptorFromFontData, 1, <<>>),
            Knows({"data"}, {}, {}, "NULL", {}))
    BY <1>14, <1>1, <1>2, <1>3, UnlessAt DEF Settled, Weaker, Static
<1>16. Entered(f)
    <2>1. {} \cap (Calls[f].given \cup {Static}) = {} /\ Static \notin Calls[f].given
          /\ "NULL" \notin Calls[f].given
        BY <1>2 DEF Static
    <2>2. From(DescriptorFromFontData, 1, <<>>) = Calls[f].body
        BY <1>2, <1>1, NothingAfter
    <2> QED
        BY <2>1, <2>2, <1>15, <1>2, Zenon DEF Entered
<1> QED
    BY <1>16 DEF f

LEMMA CreateDescriptorsFromURLEntered ==
    Entered("CTFontManagerCreateFontDescriptorsFromURL")
<1> DEFINE f == "CTFontManagerCreateFontDescriptorsFromURL"
<1>1. /\ IsSeq(CreateDescriptorsFromURL)
      /\ Step(CreateDescriptorsFromURL, 1, Unless("url"), 2)
      /\ Step(CreateDescriptorsFromURL, 2, New("data", {"url"}), 3)
      /\ Step(CreateDescriptorsFromURL, 3, Unless("data"), 4)
      /\ Step(CreateDescriptorsFromURL, 4, New("descriptor", {"data"}), 5)
      /\ Step(CreateDescriptorsFromURL, 5, Drop("data"), 6)
      /\ Step(CreateDescriptorsFromURL, 6, Unless("descriptor"), 7)
      /\ Step(CreateDescriptorsFromURL, 7, Sure("array", {}), 8)
      /\ Step(CreateDescriptorsFromURL, 8, Put("descriptor", "array"), 9)
      /\ Step(CreateDescriptorsFromURL, 9, Drop("descriptor"), 10)
      /\ Step(CreateDescriptorsFromURL, 10, Return("array"), 11)
    <2>1. CreateDescriptorsFromURL \in Seq({Unless("url"), New("data", {"url"}),
              Unless("data"), New("descriptor", {"data"}), Drop("data"),
              Unless("descriptor"), Sure("array", {}), Put("descriptor", "array"),
              Drop("descriptor"), Return("array")})
        BY DEF CreateDescriptorsFromURL
    <2>2. IsSeq(CreateDescriptorsFromURL)
        BY <2>1 DEF IsSeq
    <2> QED
        BY <2>2 DEF CreateDescriptorsFromURL, Step
<1>2. /\ f # "fdopendir"
      /\ Calls[f].given = {"url"}
      /\ Calls[f].body = CreateDescriptorsFromURL
    BY DEF Calls, Script
<1> HIDE DEF f
<1>3. IsSeq(<<>>)
    BY <1>1, NothingAfter, StepFrom

\* Return("array")
<1>4. Good(f, {}, From(CreateDescriptorsFromURL, 10, <<>>),
           Knows({"array", "url"}, {"array"}, {}, "NULL", {}))
    BY <1>1, <1>2, <1>3, ReturnAt DEF Settled, Static

\* Drop("descriptor")
<1>5. Good(f, {}, From(CreateDescriptorsFromURL, 9, <<>>),
           Knows({"array", "descriptor", "url"}, {"array", "descriptor"}, {}, "NULL", {}))
    BY <1>4, <1>1, <1>3, DropAt DEF Firm, Weaker, Static

\* Put("descriptor", "array")
<1>6. Good(f, {}, From(CreateDescriptorsFromURL, 8, <<>>),
           Knows({"array", "descriptor", "url"}, {"array", "descriptor"}, {}, "NULL", {}))
    BY <1>5, <1>1, <1>3, PutAt DEF Firm, Weaker, Static

\* Sure("array", {})
<1>7. Good(f, {}, From(CreateDescriptorsFromURL, 7, <<>>),
           Knows({"descriptor", "url"}, {"descriptor"}, {}, "NULL", {}))
    BY <1>6, <1>1, <1>3, SureAt DEF Unused, Spared, Weaker, Static

\* Unless("descriptor")
<1>8. Good(f, {}, From(CreateDescriptorsFromURL, 6, <<>>),
           Knows({"descriptor", "url"}, {}, {}, "NULL", {}))
    BY <1>7, <1>1, <1>2, <1>3, UnlessAt DEF Settled, Weaker, Static

\* Drop("data")
<1>9. Good(f, {}, From(CreateDescriptorsFromURL, 5, <<>>),
           Knows({"data", "descriptor", "url"}, {"data"}, {}, "NULL", {}))
    BY <1>8, <1>1, <1>3, DropAt DEF Firm, Weaker, Static

\* New("descriptor", {"data"})
<1>10. Good(f, {}, From(CreateDescriptorsFromURL, 4, <<>>),
            Knows({"data", "url"}, {"data"}, {}, "NULL", {}))
    BY <1>9, <1>1, <1>3, NewAt DEF Firm, Unused, Spared, Weaker, Static

\* Unless("data")
<1>11. Good(f, {}, From(CreateDescriptorsFromURL, 3, <<>>),
            Knows({"data", "url"}, {}, {}, "NULL", {}))
    BY <1>10, <1>1, <1>2, <1>3, UnlessAt DEF Settled, Weaker, Static

\* New("data", {"url"})
<1>12. Good(f, {}, From(CreateDescriptorsFromURL, 2, <<>>),
            Knows({"url"}, {"url"}, {}, "NULL", {}))
    BY <1>11, <1>1, <1>3, NewAt DEF Firm, Unused, Spared, Weaker, Static

\* Unless("url")
<1>13. Good(f, {}, From(CreateDescriptorsFromURL, 1, <<>>),
            Knows({"url"}, {}, {}, "NULL", {}))
    BY <1>12, <1>1, <1>2, <1>3, UnlessAt DEF Settled, Weaker, Static
<1>14. Entered(f)
    <2>1. {} \cap (Calls[f].given \cup {Static}) = {} /\ Static \notin Calls[f].given
          /\ "NULL" \notin Calls[f].given
        BY <1>2 DEF Static
    <2>2. From(CreateDescriptorsFromURL, 1, <<>>) = Calls[f].body
        BY <1>2, <1>1, NothingAfter
    <2> QED
        BY <2>1, <2>2, <1>13, <1>2, Zenon DEF Entered
<1> QED
    BY <1>14 DEF f

LEMMA CopyAvailableFontFamilyNamesEntered ==
    Entered("CTFontManagerCopyAvailableFontFamilyNames")
<1> DEFINE f == "CTFontManagerCopyAvailableFontFamilyNames"
           HasCachedFamilies == <<Sure("answer", {"cachedFamilies"}), Return("answer")>>
           Empty == <<Sure("answer", {}), Return("answer")>>
           Perhaps == <<Put("family", "seen"), Put("family", "families")>>
           HasFamily == <<Use({"seen"}), Maybe(Perhaps), Drop("family")>>
           Loop == <<New("family", {"descriptors"}), IfSet("family", HasFamily)>>
           NoCachedFamilies == <<Sure("cachedFamilies", {"families"})>>
           AfterHasCachedFamilies == From(CopyAvailableFontFamilyNames, 2, <<>>)
           AfterLoop == From(CopyAvailableFontFamilyNames, 9, <<>>)
           AfterHasFamily == From(Loop, 3, AfterLoop)
           AfterPerhaps == From(HasFamily, 3, AfterHasFamily)
           AfterNoCachedFamilies == From(CopyAvailableFontFamilyNames, 13, <<>>)
<1>1. /\ IsSeq(CopyAvailableFontFamilyNames)
      /\ Step(CopyAvailableFontFamilyNames, 1, IfSet("cachedFamilies", HasCachedFamilies),
              2)
      /\ Step(CopyAvailableFontFamilyNames, 2, New("collection", {}), 3)
      /\ Step(CopyAvailableFontFamilyNames, 3, IfNull("collection", Empty), 4)
      /\ Step(CopyAvailableFontFamilyNames, 4, New("descriptors", {"collection"}), 5)
      /\ Step(CopyAvailableFontFamilyNames, 5, Drop("collection"), 6)
      /\ Step(CopyAvailableFontFamilyNames, 6, IfNull("descriptors", Empty), 7)
      /\ Step(CopyAvailableFontFamilyNames, 7, Sure("seen", {}), 8)
      /\ Step(CopyAvailableFontFamilyNames, 8, Sure("families", {}), 9)
      /\ Step(CopyAvailableFontFamilyNames, 9, Repeat(Loop), 10)
      /\ Step(CopyAvailableFontFamilyNames, 10, Drop("seen"), 11)
      /\ Step(CopyAvailableFontFamilyNames, 11, Drop("descriptors"), 12)
      /\ Step(CopyAvailableFontFamilyNames, 12, IfNull("cachedFamilies", NoCachedFamilies),
              13)
      /\ Step(CopyAvailableFontFamilyNames, 13, Return("families"), 14)
    <2>1. CopyAvailableFontFamilyNames \in Seq({IfSet("cachedFamilies",
              HasCachedFamilies), New("collection", {}), IfNull("collection", Empty),
              New("descriptors", {"collection"}), Drop("collection"),
              IfNull("descriptors", Empty), Sure("seen", {}), Sure("families", {}),
              Repeat(Loop), Drop("seen"), Drop("descriptors"), IfNull("cachedFamilies",
              NoCachedFamilies), Return("families")})
        BY DEF CopyAvailableFontFamilyNames
    <2>2. IsSeq(CopyAvailableFontFamilyNames)
        BY <2>1 DEF IsSeq
    <2> QED
        BY <2>2 DEF CopyAvailableFontFamilyNames, Step
<1>2. /\ IsSeq(HasCachedFamilies)
      /\ Step(HasCachedFamilies, 1, Sure("answer", {"cachedFamilies"}), 2)
      /\ Step(HasCachedFamilies, 2, Return("answer"), 3)
    <2>1. HasCachedFamilies \in Seq({Sure("answer", {"cachedFamilies"}),
              Return("answer")})
        BY DEF HasCachedFamilies
    <2>2. IsSeq(HasCachedFamilies)
        BY <2>1 DEF IsSeq
    <2> QED
        BY <2>2 DEF HasCachedFamilies, Step
<1>3. /\ IsSeq(Empty)
      /\ Step(Empty, 1, Sure("answer", {}), 2)
      /\ Step(Empty, 2, Return("answer"), 3)
    <2>1. Empty \in Seq({Sure("answer", {}), Return("answer")})
        BY DEF Empty
    <2>2. IsSeq(Empty)
        BY <2>1 DEF IsSeq
    <2> QED
        BY <2>2 DEF Empty, Step
<1>4. /\ IsSeq(Loop)
      /\ Step(Loop, 1, New("family", {"descriptors"}), 2)
      /\ Step(Loop, 2, IfSet("family", HasFamily), 3)
      /\ End(Loop, 3)
    <2>1. Loop \in Seq({New("family", {"descriptors"}), IfSet("family", HasFamily)})
        BY DEF Loop
    <2>2. IsSeq(Loop)
        BY <2>1 DEF IsSeq
    <2> QED
        BY <2>2 DEF Loop, Step, End
<1>5. /\ IsSeq(HasFamily)
      /\ Step(HasFamily, 1, Use({"seen"}), 2)
      /\ Step(HasFamily, 2, Maybe(Perhaps), 3)
      /\ Step(HasFamily, 3, Drop("family"), 4)
      /\ End(HasFamily, 4)
    <2>1. HasFamily \in Seq({Use({"seen"}), Maybe(Perhaps), Drop("family")})
        BY DEF HasFamily
    <2>2. IsSeq(HasFamily)
        BY <2>1 DEF IsSeq
    <2> QED
        BY <2>2 DEF HasFamily, Step, End
<1>6. /\ IsSeq(Perhaps)
      /\ Step(Perhaps, 1, Put("family", "seen"), 2)
      /\ Step(Perhaps, 2, Put("family", "families"), 3)
      /\ End(Perhaps, 3)
    <2>1. Perhaps \in Seq({Put("family", "seen"), Put("family", "families")})
        BY DEF Perhaps
    <2>2. IsSeq(Perhaps)
        BY <2>1 DEF IsSeq
    <2> QED
        BY <2>2 DEF Perhaps, Step, End
<1>7. /\ IsSeq(NoCachedFamilies)
      /\ Step(NoCachedFamilies, 1, Sure("cachedFamilies", {"families"}), 2)
      /\ End(NoCachedFamilies, 2)
    <2>1. NoCachedFamilies \in Seq({Sure("cachedFamilies", {"families"})})
        BY DEF NoCachedFamilies
    <2>2. IsSeq(NoCachedFamilies)
        BY <2>1 DEF IsSeq
    <2> QED
        BY <2>2 DEF NoCachedFamilies, Step, End
<1>8. f # "fdopendir" /\ Calls[f].given = {} /\ Calls[f].body = CopyAvailableFontFamilyNames
    BY DEF Calls, Script
<1> HIDE DEF f, HasCachedFamilies, Empty, Perhaps, HasFamily, Loop,
             NoCachedFamilies
<1>9. /\ IsSeq(<<>>) /\ IsSeq(AfterHasCachedFamilies) /\ IsSeq(AfterLoop)
       /\ IsSeq(AfterHasFamily) /\ IsSeq(AfterPerhaps)
       /\ IsSeq(AfterNoCachedFamilies)
       /\ IsSeq(From(CopyAvailableFontFamilyNames, 4, <<>>))
       /\ IsSeq(From(CopyAvailableFontFamilyNames, 7, <<>>))
    BY <1>1, <1>2, <1>3, <1>4, <1>5, <1>6, <1>7, NothingAfter, StepFrom

\* Return("families")
<1>10. Good(f, {}, From(CopyAvailableFontFamilyNames, 13, <<>>),
            Knows({"cachedFamilies", "families"}, {"families"}, {}, "descriptors", {}))
    BY <1>1, <1>8, <1>9, ReturnAt DEF Settled, Static

\* the end of NoCachedFamilies
<1>11. Good(f, {}, From(NoCachedFamilies, 2, AfterNoCachedFamilies),
            Knows({"cachedFamilies", "families"}, {"families"}, {}, "descriptors", {}))
    BY <1>10, <1>7, <1>9, EndAt

\* Sure("cachedFamilies", {"families"})
<1>12. Good(f, {}, From(NoCachedFamilies, 1, AfterNoCachedFamilies),
            Knows({"families"}, {"families"}, {"cachedFamilies"}, "descriptors", {}))
    BY <1>11, <1>7, <1>9, SureAt DEF Firm, Unused, Spared, Weaker, Static

\* IfNull("cachedFamilies", NoCachedFamilies)
<1>13. Good(f, {}, From(CopyAvailableFontFamilyNames, 12, <<>>),
            Knows({"families"}, {"families"}, {"cachedFamilies"}, "descriptors", {}))
    BY <1>12, <1>1, <1>7, <1>9, IfNullTaken DEF Weaker

\* Drop("descriptors")
<1>14. Good(f, {}, From(CopyAvailableFontFamilyNames, 11, <<>>),
            Knows({"descriptors", "families"}, {"descriptors", "families"},
                  {"cachedFamilies"}, "descriptors", {}))
    BY <1>13, <1>1, <1>9, DropAt DEF Firm, Weaker, Static

\* Drop("seen")
<1>15. Good(f, {}, From(CopyAvailableFontFamilyNames, 10, <<>>),
            Knows({"descriptors", "families", "seen"}, {"descriptors", "families", "seen"},
                  {"cachedFamilies"}, "descriptors", {}))
    BY <1>14, <1>1, <1>9, DropAt DEF Firm, Weaker, Static
<1> DEFINE H == {} \cup {<<From(CopyAvailableFontFamilyNames, 9, <<>>),
                           Knows({"descriptors", "families", "seen"},
                                 {"descriptors", "families", "seen"}, {"cachedFamilies"},
                                 "descriptors", {})>>}

\* the end of Loop
<1>16. Good(f, H, From(Loop, 3, AfterLoop),
            Knows({"descriptors", "families", "seen"}, {"descriptors", "families", "seen"},
                  {"cachedFamilies"}, "descriptors", {}))
    BY <1>4, <1>9, AgainAt, EndAt

\* the end of HasFamily
<1>17. Good(f, H, From(HasFamily, 4, AfterHasFamily),
            Knows({"descriptors", "families", "seen"}, {"descriptors", "families", "seen"},
                  {"cachedFamilies"}, "descriptors", {}))
    BY <1>16, <1>5, <1>9, EndAt

\* Drop("family")
<1>18. Good(f, H, From(HasFamily, 3, AfterHasFamily),
            Knows({"descriptors", "families", "family", "seen"},
                  {"descriptors", "families", "family", "seen"}, {"cachedFamilies"},
                  "descriptors", {}))
    BY <1>17, <1>5, <1>9, DropAt DEF Firm, Weaker, Static

\* the end of Perhaps
<1>19. Good(f, H, From(Perhaps, 3, AfterPerhaps),
            Knows({"descriptors", "families", "family", "seen"},
                  {"descriptors", "families", "family", "seen"}, {"cachedFamilies"},
                  "descriptors", {}))
    BY <1>18, <1>6, <1>9, EndAt

\* Put("family", "families")
<1>20. Good(f, H, From(Perhaps, 2, AfterPerhaps),
            Knows({"descriptors", "families", "family", "seen"},
                  {"descriptors", "families", "family", "seen"}, {"cachedFamilies"},
                  "descriptors", {}))
    BY <1>19, <1>6, <1>9, PutAt DEF Firm, Weaker, Static

\* Put("family", "seen")
<1>21. Good(f, H, From(Perhaps, 1, AfterPerhaps),
            Knows({"descriptors", "families", "family", "seen"},
                  {"descriptors", "families", "family", "seen"}, {"cachedFamilies"},
                  "descriptors", {}))
    BY <1>20, <1>6, <1>9, PutAt DEF Firm, Weaker, Static

\* Maybe(Perhaps)
<1>22. Good(f, H, From(HasFamily, 2, AfterHasFamily),
            Knows({"descriptors", "families", "family", "seen"},
                  {"descriptors", "families", "family", "seen"}, {"cachedFamilies"},
                  "descriptors", {}))
    BY <1>21, <1>18, <1>5, <1>6, <1>9, MaybeAt DEF Weaker

\* Use({"seen"})
<1>23. Good(f, H, From(HasFamily, 1, AfterHasFamily),
            Knows({"descriptors", "families", "family", "seen"},
                  {"descriptors", "families", "family", "seen"}, {"cachedFamilies"},
                  "descriptors", {}))
    BY <1>22, <1>5, <1>9, UseAt DEF Firm, Weaker, Static

\* IfSet("family", HasFamily)
<1>24. Good(f, H, From(Loop, 2, AfterLoop),
            Knows({"descriptors", "families", "family", "seen"},
                  {"descriptors", "families", "seen"}, {"cachedFamilies"}, "descriptors",
                  {}))
    BY <1>23, <1>16, <1>4, <1>5, <1>9, IfSetAt DEF Weaker

\* New("family", {"descriptors"})
<1>25. Good(f, H, From(Loop, 1, AfterLoop),
            Knows({"descriptors", "families", "seen"}, {"descriptors", "families", "seen"},
                  {"cachedFamilies"}, "descriptors", {}))
    BY <1>24, <1>4, <1>9, NewAt DEF Firm, Unused, Spared, Weaker, Static

\* Repeat(Loop)
<1>26. Good(f, {}, From(CopyAvailableFontFamilyNames, 9, <<>>),
            Knows({"descriptors", "families", "seen"}, {"descriptors", "families", "seen"},
                  {"cachedFamilies"}, "descriptors", {}))
    BY <1>25, <1>15, <1>1, <1>4, <1>9, RepeatAt DEF Weaker

\* Sure("families", {})
<1>27. Good(f, {}, From(CopyAvailableFontFamilyNames, 8, <<>>),
            Knows({"descriptors", "seen"}, {"descriptors", "seen"}, {"cachedFamilies"},
                  "descriptors", {}))
    BY <1>26, <1>1, <1>9, SureAt DEF Unused, Spared, Weaker, Static

\* Sure("seen", {})
<1>28. Good(f, {}, From(CopyAvailableFontFamilyNames, 7, <<>>),
            Knows({"descriptors"}, {"descriptors"}, {"cachedFamilies"}, "descriptors", {}))
    BY <1>27, <1>1, <1>9, SureAt DEF Unused, Spared, Weaker, Static

\* Return("answer")
<1>29. Good(f, {}, From(Empty, 2, From(CopyAvailableFontFamilyNames, 7, <<>>)),
            Knows({"answer"}, {"answer"}, {}, "descriptors", {}))
    BY <1>3, <1>8, <1>9, ReturnAt DEF Settled, Static

\* Sure("answer", {})
<1>30. Good(f, {}, From(Empty, 1, From(CopyAvailableFontFamilyNames, 7, <<>>)),
            Knows({}, {}, {}, "descriptors", {}))
    BY <1>29, <1>3, <1>9, SureAt DEF Unused, Spared, Weaker, Static

\* IfNull("descriptors", Empty)
<1>31. Good(f, {}, From(CopyAvailableFontFamilyNames, 6, <<>>),
            Knows({"descriptors"}, {}, {"cachedFamilies"}, "descriptors", {}))
    BY <1>30, <1>28, <1>1, <1>3, <1>9, IfNullAt DEF Weaker

\* Drop("collection")
<1>32. Good(f, {}, From(CopyAvailableFontFamilyNames, 5, <<>>),
            Knows({"collection", "descriptors"}, {"collection"}, {"cachedFamilies"},
                  "descriptors", {}))
    BY <1>31, <1>1, <1>9, DropAt DEF Firm, Weaker, Static

\* New("descriptors", {"collection"})
<1>33. Good(f, {}, From(CopyAvailableFontFamilyNames, 4, <<>>),
            Knows({"collection"}, {"collection"}, {"cachedFamilies"}, "descriptors", {}))
    BY <1>32, <1>1, <1>9, NewAt DEF Firm, Unused, Spared, Weaker, Static

\* Return("answer")
<1>34. Good(f, {}, From(Empty, 2, From(CopyAvailableFontFamilyNames, 4, <<>>)),
            Knows({"answer"}, {"answer"}, {}, "descriptors", {}))
    BY <1>3, <1>8, <1>9, ReturnAt DEF Settled, Static

\* Sure("answer", {})
<1>35. Good(f, {}, From(Empty, 1, From(CopyAvailableFontFamilyNames, 4, <<>>)),
            Knows({}, {}, {}, "descriptors", {}))
    BY <1>34, <1>3, <1>9, SureAt DEF Unused, Spared, Weaker, Static

\* IfNull("collection", Empty)
<1>36. Good(f, {}, From(CopyAvailableFontFamilyNames, 3, <<>>),
            Knows({"collection"}, {}, {"cachedFamilies"}, "descriptors", {}))
    BY <1>35, <1>33, <1>1, <1>3, <1>9, IfNullAt DEF Weaker

\* New("collection", {})
<1>37. Good(f, {}, From(CopyAvailableFontFamilyNames, 2, <<>>),
            Knows({}, {}, {"cachedFamilies"}, "descriptors", {}))
    BY <1>36, <1>1, <1>9, NewAt DEF Unused, Spared, Weaker, Static

\* Return("answer")
<1>38. Good(f, {}, From(HasCachedFamilies, 2, AfterHasCachedFamilies),
            Knows({"answer"}, {"answer"}, {}, "descriptors", {}))
    BY <1>2, <1>8, <1>9, ReturnAt DEF Settled, Static

\* Sure("answer", {"cachedFamilies"})
<1>39. Good(f, {}, From(HasCachedFamilies, 1, AfterHasCachedFamilies),
            Knows({}, {"cachedFamilies"}, {}, "descriptors", {}))
    BY <1>38, <1>2, <1>9, SureAt DEF Firm, Unused, Spared, Weaker, Static

\* IfSet("cachedFamilies", HasCachedFamilies)
<1>40. Good(f, {}, From(CopyAvailableFontFamilyNames, 1, <<>>),
            Knows({}, {}, {}, "descriptors", {}))
    BY <1>39, <1>37, <1>1, <1>2, <1>9, IfSetAt DEF Weaker
<1>41. Entered(f)
    <2>1. {} \cap (Calls[f].given \cup {Static}) = {} /\ Static \notin Calls[f].given
          /\ "NULL" \notin Calls[f].given
        BY <1>8 DEF Static
    <2>2. From(CopyAvailableFontFamilyNames, 1, <<>>) = Calls[f].body
        BY <1>8, <1>1, <1>2, <1>3, <1>4, <1>5, <1>6, <1>7, NothingAfter
    <2> QED
        BY <2>1, <2>2, <1>40, <1>8, Zenon DEF Entered
<1> QED
    BY <1>41 DEF f

LEMMA GetGlyphsForCharacterRangeEntered == Entered("CTFontGetGlyphsForCharacterRange")
<1> DEFINE f == "CTFontGetGlyphsForCharacterRange"
           Perhaps == <<New("characters", {}), Unless("characters"), Use({"characters"})>>
           HasCharacters == <<Drop("characters")>>
           AfterPerhaps == From(GetGlyphsForCharacterRange, 3, <<>>)
           AfterHasCharacters == From(GetGlyphsForCharacterRange, 5, <<>>)
<1>1. /\ IsSeq(GetGlyphsForCharacterRange)
      /\ Step(GetGlyphsForCharacterRange, 1, Unless("font"), 2)
      /\ Step(GetGlyphsForCharacterRange, 2, Maybe(Perhaps), 3)
      /\ Step(GetGlyphsForCharacterRange, 3, Use({"font"}), 4)
      /\ Step(GetGlyphsForCharacterRange, 4, IfSet("characters", HasCharacters), 5)
      /\ Step(GetGlyphsForCharacterRange, 5, Return("NULL"), 6)
    <2>1. GetGlyphsForCharacterRange \in Seq({Unless("font"), Maybe(Perhaps),
              Use({"font"}), IfSet("characters", HasCharacters), Return("NULL")})
        BY DEF GetGlyphsForCharacterRange
    <2>2. IsSeq(GetGlyphsForCharacterRange)
        BY <2>1 DEF IsSeq
    <2> QED
        BY <2>2 DEF GetGlyphsForCharacterRange, Step
<1>2. /\ IsSeq(Perhaps)
      /\ Step(Perhaps, 1, New("characters", {}), 2)
      /\ Step(Perhaps, 2, Unless("characters"), 3)
      /\ Step(Perhaps, 3, Use({"characters"}), 4)
      /\ End(Perhaps, 4)
    <2>1. Perhaps \in Seq({New("characters", {}), Unless("characters"),
              Use({"characters"})})
        BY DEF Perhaps
    <2>2. IsSeq(Perhaps)
        BY <2>1 DEF IsSeq
    <2> QED
        BY <2>2 DEF Perhaps, Step, End
<1>3. /\ IsSeq(HasCharacters)
      /\ Step(HasCharacters, 1, Drop("characters"), 2)
      /\ End(HasCharacters, 2)
    <2>1. HasCharacters \in Seq({Drop("characters")})
        BY DEF HasCharacters
    <2>2. IsSeq(HasCharacters)
        BY <2>1 DEF IsSeq
    <2> QED
        BY <2>2 DEF HasCharacters, Step, End
<1>4. /\ f # "fdopendir"
      /\ Calls[f].given = {"font"}
      /\ Calls[f].body = GetGlyphsForCharacterRange
    BY DEF Calls, Script
<1> HIDE DEF f, Perhaps, HasCharacters
<1>5. IsSeq(<<>>) /\ IsSeq(AfterPerhaps) /\ IsSeq(AfterHasCharacters)
    BY <1>1, <1>2, <1>3, NothingAfter, StepFrom

\* Return("NULL")
<1>6. Good(f, {}, From(GetGlyphsForCharacterRange, 5, <<>>),
           Knows({"font"}, {}, {}, "NULL", {}))
    BY <1>1, <1>4, <1>5, ReturnAt DEF Settled, Static

\* IfSet("characters", HasCharacters)
<1>7. Good(f, {}, From(GetGlyphsForCharacterRange, 4, <<>>),
           Knows({"font"}, {}, {"characters"}, "NULL", {}))
    BY <1>6, <1>1, <1>3, <1>5, IfSetSkipped DEF Weaker

\* Use({"font"})
<1>8. Good(f, {}, From(GetGlyphsForCharacterRange, 3, <<>>),
           Knows({"font"}, {"font"}, {"characters"}, "NULL", {}))
    BY <1>7, <1>1, <1>5, UseAt DEF Firm, Weaker, Static

\* the end of HasCharacters
<1>9. Good(f, {}, From(HasCharacters, 2, AfterHasCharacters),
           Knows({"font"}, {}, {}, "NULL", {}))
    BY <1>6, <1>3, <1>5, EndAt

\* Drop("characters")
<1>10. Good(f, {}, From(HasCharacters, 1, AfterHasCharacters),
            Knows({"characters", "font"}, {"characters"}, {}, "NULL", {}))
    BY <1>9, <1>3, <1>5, DropAt DEF Firm, Weaker, Static

\* IfSet("characters", HasCharacters)
<1>11. Good(f, {}, From(GetGlyphsForCharacterRange, 4, <<>>),
            Knows({"characters", "font"}, {"characters"}, {}, "NULL", {}))
    BY <1>10, <1>1, <1>3, <1>5, IfSetTaken DEF Weaker

\* Use({"font"})
<1>12. Good(f, {}, From(GetGlyphsForCharacterRange, 3, <<>>),
            Knows({"characters", "font"}, {"characters", "font"}, {}, "NULL", {}))
    BY <1>11, <1>1, <1>5, UseAt DEF Firm, Weaker, Static

\* the end of Perhaps
<1>13. Good(f, {}, From(Perhaps, 4, AfterPerhaps),
            Knows({"characters", "font"}, {"characters", "font"}, {}, "NULL", {}))
    BY <1>12, <1>2, <1>5, EndAt

\* Use({"characters"})
<1>14. Good(f, {}, From(Perhaps, 3, AfterPerhaps),
            Knows({"characters", "font"}, {"characters", "font"}, {}, "NULL", {}))
    BY <1>13, <1>2, <1>5, UseAt DEF Firm, Weaker, Static

\* Unless("characters")
<1>15. Good(f, {}, From(Perhaps, 2, AfterPerhaps),
            Knows({"characters", "font"}, {"font"}, {}, "NULL", {}))
    BY <1>14, <1>2, <1>4, <1>5, UnlessAt DEF Settled, Weaker, Static

\* New("characters", {})
<1>16. Good(f, {}, From(Perhaps, 1, AfterPerhaps),
            Knows({"font"}, {"font"}, {}, "NULL", {}))
    BY <1>15, <1>2, <1>5, NewAt DEF Unused, Spared, Weaker, Static

\* Maybe(Perhaps)
<1>17. Good(f, {}, From(GetGlyphsForCharacterRange, 2, <<>>),
            Knows({"font"}, {"font"}, {"characters"}, "NULL", {}))
    BY <1>16, <1>8, <1>1, <1>2, <1>5, MaybeAt DEF Weaker

\* Unless("font")
<1>18. Good(f, {}, From(GetGlyphsForCharacterRange, 1, <<>>),
            Knows({"font"}, {}, {"characters"}, "NULL", {}))
    BY <1>17, <1>1, <1>4, <1>5, UnlessAt DEF Settled, Weaker, Static
<1>19. Entered(f)
    <2>1. /\ {"characters"} \cap (Calls[f].given \cup {Static}) = {}
          /\ Static \notin Calls[f].given
          /\ "NULL" \notin Calls[f].given
        BY <1>4 DEF Static
    <2>2. From(GetGlyphsForCharacterRange, 1, <<>>) = Calls[f].body
        BY <1>4, <1>1, <1>2, <1>3, NothingAfter
    <2> QED
        BY <2>1, <2>2, <1>18, <1>4, Zenon DEF Entered
<1> QED
    BY <1>19 DEF f

LEMMA DrawConicGradientEntered == Entered("CGContextDrawConicGradient")
<1> DEFINE f == "CGContextDrawConicGradient"
<1>1. /\ IsSeq(DrawConicGradient)
      /\ Step(DrawConicGradient, 1, Unless("context"), 2)
      /\ Step(DrawConicGradient, 2, Unless("gradient"), 3)
      /\ Step(DrawConicGradient, 3, Sure("sampleSpace", {}), 4)
      /\ Step(DrawConicGradient, 4, New("sample", {"sampleSpace"}), 5)
      /\ Step(DrawConicGradient, 5, Drop("sampleSpace"), 6)
      /\ Step(DrawConicGradient, 6, Unless("sample"), 7)
      /\ Step(DrawConicGradient, 7, Use({"sample", "gradient"}), 8)
      /\ Step(DrawConicGradient, 8, Drop("sample"), 9)
      /\ Step(DrawConicGradient, 9, Maybe(Nothing), 10)
      /\ Step(DrawConicGradient, 10, Use({"context"}), 11)
      /\ Step(DrawConicGradient, 11, Return("NULL"), 12)
    <2>1. DrawConicGradient \in Seq({Unless("context"), Unless("gradient"),
              Sure("sampleSpace", {}), New("sample", {"sampleSpace"}),
              Drop("sampleSpace"), Unless("sample"), Use({"sample", "gradient"}),
              Drop("sample"), Maybe(Nothing), Use({"context"}), Return("NULL")})
        BY DEF DrawConicGradient
    <2>2. IsSeq(DrawConicGradient)
        BY <2>1 DEF IsSeq
    <2> QED
        BY <2>2 DEF DrawConicGradient, Step
<1>2. /\ f # "fdopendir"
      /\ Calls[f].given = {"context", "gradient"}
      /\ Calls[f].body = DrawConicGradient
    BY DEF Calls, Script
<1> HIDE DEF f
<1>3. IsSeq(<<>>) /\ IsSeq(From(DrawConicGradient, 10, <<>>))
    BY <1>1, NothingAfter, StepFrom

\* Return("NULL")
<1>4. Good(f, {}, From(DrawConicGradient, 11, <<>>),
           Knows({"context", "gradient"}, {}, {}, "NULL", {}))
    BY <1>1, <1>2, <1>3, ReturnAt DEF Settled, Static

\* Use({"context"})
<1>5. Good(f, {}, From(DrawConicGradient, 10, <<>>),
           Knows({"context", "gradient"}, {"context"}, {}, "NULL", {}))
    BY <1>4, <1>1, <1>3, UseAt DEF Firm, Weaker, Static

\* Return("NULL")
<1>6. Good(f, {}, From(Nothing, 1, From(DrawConicGradient, 10, <<>>)),
           Knows({"context", "gradient"}, {}, {}, "NULL", {}))
    BY NothingSteps, <1>2, <1>3, ReturnAt DEF Settled, Static

\* Maybe(Nothing)
<1>7. Good(f, {}, From(DrawConicGradient, 9, <<>>),
           Knows({"context", "gradient"}, {"context"}, {}, "NULL", {}))
    BY <1>6, <1>5, <1>1, NothingSteps, <1>3, MaybeAt DEF Weaker

\* Drop("sample")
<1>8. Good(f, {}, From(DrawConicGradient, 8, <<>>),
           Knows({"context", "gradient", "sample"}, {"context", "sample"}, {}, "NULL", {}))
    BY <1>7, <1>1, <1>3, DropAt DEF Firm, Weaker, Static

\* Use({"sample", "gradient"})
<1>9. Good(f, {}, From(DrawConicGradient, 7, <<>>),
           Knows({"context", "gradient", "sample"}, {"context", "gradient", "sample"}, {},
                 "NULL", {}))
    BY <1>8, <1>1, <1>3, UseAt DEF Firm, Weaker, Static

\* Unless("sample")
<1>10. Good(f, {}, From(DrawConicGradient, 6, <<>>),
            Knows({"context", "gradient", "sample"}, {"context", "gradient"}, {}, "NULL",
                  {}))
    BY <1>9, <1>1, <1>2, <1>3, UnlessAt DEF Settled, Weaker, Static

\* Drop("sampleSpace")
<1>11. Good(f, {}, From(DrawConicGradient, 5, <<>>),
            Knows({"context", "gradient", "sample", "sampleSpace"},
                  {"context", "gradient", "sampleSpace"}, {}, "NULL", {}))
    BY <1>10, <1>1, <1>3, DropAt DEF Firm, Weaker, Static

\* New("sample", {"sampleSpace"})
<1>12. Good(f, {}, From(DrawConicGradient, 4, <<>>),
            Knows({"context", "gradient", "sampleSpace"},
                  {"context", "gradient", "sampleSpace"}, {}, "NULL", {}))
    BY <1>11, <1>1, <1>3, NewAt DEF Firm, Unused, Spared, Weaker, Static

\* Sure("sampleSpace", {})
<1>13. Good(f, {}, From(DrawConicGradient, 3, <<>>),
            Knows({"context", "gradient"}, {"context", "gradient"}, {}, "NULL", {}))
    BY <1>12, <1>1, <1>3, SureAt DEF Unused, Spared, Weaker, Static

\* Unless("gradient")
<1>14. Good(f, {}, From(DrawConicGradient, 2, <<>>),
            Knows({"context", "gradient"}, {"context"}, {}, "NULL", {}))
    BY <1>13, <1>1, <1>2, <1>3, UnlessAt DEF Settled, Weaker, Static

\* Unless("context")
<1>15. Good(f, {}, From(DrawConicGradient, 1, <<>>),
            Knows({"context", "gradient"}, {}, {}, "NULL", {}))
    BY <1>14, <1>1, <1>2, <1>3, UnlessAt DEF Settled, Weaker, Static
<1>16. Entered(f)
    <2>1. {} \cap (Calls[f].given \cup {Static}) = {} /\ Static \notin Calls[f].given
          /\ "NULL" \notin Calls[f].given
        BY <1>2 DEF Static
    <2>2. From(DrawConicGradient, 1, <<>>) = Calls[f].body
        BY <1>2, <1>1, NothingAfter
    <2> QED
        BY <2>1, <2>2, <1>15, <1>2, Zenon DEF Entered
<1> QED
    BY <1>16 DEF f

LEMMA CreateSRGBEntered == Entered("CGColorCreateSRGB")
<1> DEFINE f == "CGColorCreateSRGB"
<1>1. /\ IsSeq(CreateSRGB)
      /\ Step(CreateSRGB, 1, Sure("space", {}), 2)
      /\ Step(CreateSRGB, 2, New("color", {"space"}), 3)
      /\ Step(CreateSRGB, 3, Drop("space"), 4)
      /\ Step(CreateSRGB, 4, Return("color"), 5)
    <2>1. CreateSRGB \in Seq({Sure("space", {}), New("color", {"space"}),
              Drop("space"), Return("color")})
        BY DEF CreateSRGB
    <2>2. IsSeq(CreateSRGB)
        BY <2>1 DEF IsSeq
    <2> QED
        BY <2>2 DEF CreateSRGB, Step
<1>2. f # "fdopendir" /\ Calls[f].given = {} /\ Calls[f].body = CreateSRGB
    BY DEF Calls, Script
<1> HIDE DEF f
<1>3. IsSeq(<<>>)
    BY <1>1, NothingAfter, StepFrom

\* Return("color")
<1>4. Good(f, {}, From(CreateSRGB, 4, <<>>),
           Knows({"color"}, {}, {}, "NULL", {}))
    BY <1>1, <1>2, <1>3, ReturnAt DEF Settled, Static

\* Drop("space")
<1>5. Good(f, {}, From(CreateSRGB, 3, <<>>),
           Knows({"color", "space"}, {"space"}, {}, "NULL", {}))
    BY <1>4, <1>1, <1>3, DropAt DEF Firm, Weaker, Static

\* New("color", {"space"})
<1>6. Good(f, {}, From(CreateSRGB, 2, <<>>),
           Knows({"space"}, {"space"}, {}, "NULL", {}))
    BY <1>5, <1>1, <1>3, NewAt DEF Firm, Unused, Spared, Weaker, Static

\* Sure("space", {})
<1>7. Good(f, {}, From(CreateSRGB, 1, <<>>),
           Knows({}, {}, {}, "NULL", {}))
    BY <1>6, <1>1, <1>3, SureAt DEF Unused, Spared, Weaker, Static
<1>8. Entered(f)
    <2>1. {} \cap (Calls[f].given \cup {Static}) = {} /\ Static \notin Calls[f].given
          /\ "NULL" \notin Calls[f].given
        BY <1>2 DEF Static
    <2>2. From(CreateSRGB, 1, <<>>) = Calls[f].body
        BY <1>2, <1>1, NothingAfter
    <2> QED
        BY <2>1, <2>2, <1>7, <1>2, Zenon DEF Entered
<1> QED
    BY <1>8 DEF f

LEMMA CopyCertificateChainEntered == Entered("SecTrustCopyCertificateChain")
<1> DEFINE f == "SecTrustCopyCertificateChain"
           HasCertificate == <<Put("certificate", "chain")>>
           Loop == <<Get("certificate", "trust"), IfSet("certificate", HasCertificate)>>
           AfterLoop == From(CopyCertificateChain, 3, <<>>)
           AfterHasCertificate == From(Loop, 3, AfterLoop)
<1>1. /\ IsSeq(CopyCertificateChain)
      /\ Step(CopyCertificateChain, 1, Unless("trust"), 2)
      /\ Step(CopyCertificateChain, 2, Sure("chain", {}), 3)
      /\ Step(CopyCertificateChain, 3, Repeat(Loop), 4)
      /\ Step(CopyCertificateChain, 4, Return("chain"), 5)
    <2>1. CopyCertificateChain \in Seq({Unless("trust"), Sure("chain", {}),
              Repeat(Loop), Return("chain")})
        BY DEF CopyCertificateChain
    <2>2. IsSeq(CopyCertificateChain)
        BY <2>1 DEF IsSeq
    <2> QED
        BY <2>2 DEF CopyCertificateChain, Step
<1>2. /\ IsSeq(Loop)
      /\ Step(Loop, 1, Get("certificate", "trust"), 2)
      /\ Step(Loop, 2, IfSet("certificate", HasCertificate), 3)
      /\ End(Loop, 3)
    <2>1. Loop \in Seq({Get("certificate", "trust"), IfSet("certificate",
              HasCertificate)})
        BY DEF Loop
    <2>2. IsSeq(Loop)
        BY <2>1 DEF IsSeq
    <2> QED
        BY <2>2 DEF Loop, Step, End
<1>3. /\ IsSeq(HasCertificate)
      /\ Step(HasCertificate, 1, Put("certificate", "chain"), 2)
      /\ End(HasCertificate, 2)
    <2>1. HasCertificate \in Seq({Put("certificate", "chain")})
        BY DEF HasCertificate
    <2>2. IsSeq(HasCertificate)
        BY <2>1 DEF IsSeq
    <2> QED
        BY <2>2 DEF HasCertificate, Step, End
<1>4. f # "fdopendir" /\ Calls[f].given = {"trust"} /\ Calls[f].body = CopyCertificateChain
    BY DEF Calls, Script
<1> HIDE DEF f, HasCertificate, Loop
<1>5. IsSeq(<<>>) /\ IsSeq(AfterLoop) /\ IsSeq(AfterHasCertificate)
    BY <1>1, <1>2, <1>3, NothingAfter, StepFrom

\* Return("chain")
<1>6. Good(f, {}, From(CopyCertificateChain, 4, <<>>),
           Knows({"chain", "trust"}, {"chain"}, {}, "trust", {}))
    BY <1>1, <1>4, <1>5, ReturnAt DEF Settled, Static
<1> DEFINE H == {} \cup {<<From(CopyCertificateChain, 3, <<>>),
                           Knows({"chain", "trust"}, {"chain", "trust"}, {}, "trust", {})>>}

\* the end of Loop
<1>7. Good(f, H, From(Loop, 3, AfterLoop),
           Knows({"chain", "trust"}, {"chain", "trust"}, {}, "trust", {}))
    BY <1>2, <1>5, AgainAt, EndAt

\* the end of HasCertificate
<1>8. Good(f, H, From(HasCertificate, 2, AfterHasCertificate),
           Knows({"chain", "trust"}, {"chain", "trust"}, {}, "trust", {}))
    BY <1>7, <1>3, <1>5, EndAt

\* Put("certificate", "chain")
<1>9. Good(f, H, From(HasCertificate, 1, AfterHasCertificate),
           Knows({"chain", "trust"}, {"certificate", "chain", "trust"}, {}, "trust",
                 {"certificate"}))
    BY <1>8, <1>3, <1>5, PutAt DEF Firm, Weaker, Static

\* IfSet("certificate", HasCertificate)
<1>10. Good(f, H, From(Loop, 2, AfterLoop),
            Knows({"chain", "trust"}, {"chain", "trust"}, {}, "trust", {"certificate"}))
    BY <1>9, <1>7, <1>2, <1>3, <1>5, IfSetAt DEF Weaker

\* Get("certificate", "trust")
<1>11. Good(f, H, From(Loop, 1, AfterLoop),
            Knows({"chain", "trust"}, {"chain", "trust"}, {}, "trust", {}))
    BY <1>10, <1>2, <1>5, GetAt DEF Firm, Unused, Weaker, Static

\* Repeat(Loop)
<1>12. Good(f, {}, From(CopyCertificateChain, 3, <<>>),
            Knows({"chain", "trust"}, {"chain", "trust"}, {}, "trust", {}))
    BY <1>11, <1>6, <1>1, <1>2, <1>5, RepeatAt DEF Weaker

\* Sure("chain", {})
<1>13. Good(f, {}, From(CopyCertificateChain, 2, <<>>),
            Knows({"trust"}, {"trust"}, {}, "trust", {}))
    BY <1>12, <1>1, <1>5, SureAt DEF Unused, Spared, Weaker, Static

\* Unless("trust")
<1>14. Good(f, {}, From(CopyCertificateChain, 1, <<>>),
            Knows({"trust"}, {}, {}, "trust", {}))
    BY <1>13, <1>1, <1>4, <1>5, UnlessAt DEF Settled, Weaker, Static
<1>15. Entered(f)
    <2>1. {} \cap (Calls[f].given \cup {Static}) = {} /\ Static \notin Calls[f].given
          /\ "NULL" \notin Calls[f].given
        BY <1>4 DEF Static
    <2>2. From(CopyCertificateChain, 1, <<>>) = Calls[f].body
        BY <1>4, <1>1, <1>2, <1>3, NothingAfter
    <2> QED
        BY <2>1, <2>2, <1>14, <1>4, Zenon DEF Entered
<1> QED
    BY <1>15 DEF f

LEMMA FDOpenDirEntered == Entered("fdopendir")
<1> DEFINE f == "fdopendir"
           HasDirectory == <<Drop("fd")>>
           AfterHasDirectory == From(FDOpenDir, 5, <<>>)
<1>1. /\ IsSeq(FDOpenDir)
      /\ Step(FDOpenDir, 1, Unless("fd"), 2)
      /\ Step(FDOpenDir, 2, Maybe(Nothing), 3)
      /\ Step(FDOpenDir, 3, New("directory", {"fd"}), 4)
      /\ Step(FDOpenDir, 4, IfSet("directory", HasDirectory), 5)
      /\ Step(FDOpenDir, 5, Return("directory"), 6)
    <2>1. FDOpenDir \in Seq({Unless("fd"), Maybe(Nothing), New("directory", {"fd"}),
              IfSet("directory", HasDirectory), Return("directory")})
        BY DEF FDOpenDir
    <2>2. IsSeq(FDOpenDir)
        BY <2>1 DEF IsSeq
    <2> QED
        BY <2>2 DEF FDOpenDir, Step
<1>2. /\ IsSeq(HasDirectory)
      /\ Step(HasDirectory, 1, Drop("fd"), 2)
      /\ End(HasDirectory, 2)
    <2>1. HasDirectory \in Seq({Drop("fd")})
        BY DEF HasDirectory
    <2>2. IsSeq(HasDirectory)
        BY <2>1 DEF IsSeq
    <2> QED
        BY <2>2 DEF HasDirectory, Step, End
<1>3. f = "fdopendir" /\ Calls[f].given = {"fd"} /\ Calls[f].body = FDOpenDir
    BY DEF Calls, Script
<1> HIDE DEF f, HasDirectory
<1>4. IsSeq(<<>>) /\ IsSeq(AfterHasDirectory) /\ IsSeq(From(FDOpenDir, 3, <<>>))
    BY <1>1, <1>2, NothingAfter, StepFrom

\* Return("directory")
<1>5. Good(f, {}, From(FDOpenDir, 5, <<>>),
           Knows({"directory", "fd"}, {"fd"}, {"directory"}, "NULL", {}))
    BY <1>1, <1>3, <1>4, ReturnAt DEF Settled, Static

\* Return("directory")
<1>6. Good(f, {}, From(FDOpenDir, 5, <<>>),
           Knows({"directory"}, {"directory", "fd"}, {}, "NULL", {}))
    BY <1>1, <1>3, <1>4, ReturnAt DEF Settled, Static

\* the end of HasDirectory
<1>7. Good(f, {}, From(HasDirectory, 2, AfterHasDirectory),
           Knows({"directory"}, {"directory", "fd"}, {}, "NULL", {}))
    BY <1>6, <1>2, <1>4, EndAt

\* Drop("fd")
<1>8. Good(f, {}, From(HasDirectory, 1, AfterHasDirectory),
           Knows({"directory", "fd"}, {"directory", "fd"}, {}, "NULL", {}))
    BY <1>7, <1>2, <1>4, DropAt DEF Firm, Weaker, Static

\* IfSet("directory", HasDirectory)
<1>9. Good(f, {}, From(FDOpenDir, 4, <<>>),
           Knows({"directory", "fd"}, {"fd"}, {}, "NULL", {}))
    BY <1>8, <1>5, <1>1, <1>2, <1>4, IfSetAt DEF Weaker

\* New("directory", {"fd"})
<1>10. Good(f, {}, From(FDOpenDir, 3, <<>>),
            Knows({"fd"}, {"fd"}, {}, "NULL", {}))
    BY <1>9, <1>1, <1>4, NewAt DEF Firm, Unused, Spared, Weaker, Static

\* Return("NULL")
<1>11. Good(f, {}, From(Nothing, 1, From(FDOpenDir, 3, <<>>)),
            Knows({"fd"}, {"fd"}, {}, "NULL", {}))
    BY NothingSteps, <1>3, <1>4, ReturnAt DEF Settled, Static

\* Maybe(Nothing)
<1>12. Good(f, {}, From(FDOpenDir, 2, <<>>),
            Knows({"fd"}, {"fd"}, {}, "NULL", {}))
    BY <1>11, <1>10, <1>1, NothingSteps, <1>4, MaybeAt DEF Weaker

\* Unless("fd")
<1>13. Good(f, {}, From(FDOpenDir, 1, <<>>),
            Knows({"fd"}, {}, {}, "NULL", {}))
    BY <1>12, <1>1, <1>3, <1>4, UnlessAt DEF Settled, Weaker, Static
<1>14. Entered(f)
    <2>1. {} \cap (Calls[f].given \cup {Static}) = {} /\ Static \notin Calls[f].given
          /\ "NULL" \notin Calls[f].given
        BY <1>3 DEF Static
    <2>2. From(FDOpenDir, 1, <<>>) = Calls[f].body
        BY <1>3, <1>1, <1>2, NothingAfter
    <2> QED
        BY <2>1, <2>2, <1>13, <1>3, Zenon DEF Entered
<1> QED
    BY <1>14 DEF f

LEMMA MakeTemporaryEntered == Entered("mkostemp")
<1> DEFINE f == "mkostemp"
           Perhaps == <<Use({"file"})>>
           HasFile == <<Maybe(Perhaps)>>
           AfterHasFile == From(MakeTemporary, 3, <<>>)
           AfterPerhaps == From(HasFile, 2, AfterHasFile)
<1>1. /\ IsSeq(MakeTemporary)
      /\ Step(MakeTemporary, 1, New("file", {}), 2)
      /\ Step(MakeTemporary, 2, IfSet("file", HasFile), 3)
      /\ Step(MakeTemporary, 3, Return("file"), 4)
    <2>1. MakeTemporary \in Seq({New("file", {}), IfSet("file", HasFile),
              Return("file")})
        BY DEF MakeTemporary
    <2>2. IsSeq(MakeTemporary)
        BY <2>1 DEF IsSeq
    <2> QED
        BY <2>2 DEF MakeTemporary, Step
<1>2. /\ IsSeq(HasFile)
      /\ Step(HasFile, 1, Maybe(Perhaps), 2)
      /\ End(HasFile, 2)
    <2>1. HasFile \in Seq({Maybe(Perhaps)})
        BY DEF HasFile
    <2>2. IsSeq(HasFile)
        BY <2>1 DEF IsSeq
    <2> QED
        BY <2>2 DEF HasFile, Step, End
<1>3. /\ IsSeq(Perhaps)
      /\ Step(Perhaps, 1, Use({"file"}), 2)
      /\ End(Perhaps, 2)
    <2>1. Perhaps \in Seq({Use({"file"})})
        BY DEF Perhaps
    <2>2. IsSeq(Perhaps)
        BY <2>1 DEF IsSeq
    <2> QED
        BY <2>2 DEF Perhaps, Step, End
<1>4. f # "fdopendir" /\ Calls[f].given = {} /\ Calls[f].body = MakeTemporary
    BY DEF Calls, Script
<1> HIDE DEF f, Perhaps, HasFile
<1>5. IsSeq(<<>>) /\ IsSeq(AfterHasFile) /\ IsSeq(AfterPerhaps)
    BY <1>1, <1>2, <1>3, NothingAfter, StepFrom

\* Return("file")
<1>6. Good(f, {}, From(MakeTemporary, 3, <<>>),
           Knows({"file"}, {}, {"file"}, "NULL", {}))
    BY <1>1, <1>4, <1>5, ReturnAt DEF Settled, Static

\* Return("file")
<1>7. Good(f, {}, From(MakeTemporary, 3, <<>>),
           Knows({"file"}, {"file"}, {}, "NULL", {}))
    BY <1>1, <1>4, <1>5, ReturnAt DEF Settled, Static

\* the end of HasFile
<1>8. Good(f, {}, From(HasFile, 2, AfterHasFile),
           Knows({"file"}, {"file"}, {}, "NULL", {}))
    BY <1>7, <1>2, <1>5, EndAt

\* the end of Perhaps
<1>9. Good(f, {}, From(Perhaps, 2, AfterPerhaps),
           Knows({"file"}, {"file"}, {}, "NULL", {}))
    BY <1>8, <1>3, <1>5, EndAt

\* Use({"file"})
<1>10. Good(f, {}, From(Perhaps, 1, AfterPerhaps),
            Knows({"file"}, {"file"}, {}, "NULL", {}))
    BY <1>9, <1>3, <1>5, UseAt DEF Firm, Weaker, Static

\* Maybe(Perhaps)
<1>11. Good(f, {}, From(HasFile, 1, AfterHasFile),
            Knows({"file"}, {"file"}, {}, "NULL", {}))
    BY <1>10, <1>8, <1>2, <1>3, <1>5, MaybeAt DEF Weaker

\* IfSet("file", HasFile)
<1>12. Good(f, {}, From(MakeTemporary, 2, <<>>),
            Knows({"file"}, {}, {}, "NULL", {}))
    BY <1>11, <1>6, <1>1, <1>2, <1>5, IfSetAt DEF Weaker

\* New("file", {})
<1>13. Good(f, {}, From(MakeTemporary, 1, <<>>),
            Knows({}, {}, {}, "NULL", {}))
    BY <1>12, <1>1, <1>5, NewAt DEF Unused, Spared, Weaker, Static
<1>14. Entered(f)
    <2>1. {} \cap (Calls[f].given \cup {Static}) = {} /\ Static \notin Calls[f].given
          /\ "NULL" \notin Calls[f].given
        BY <1>4 DEF Static
    <2>2. From(MakeTemporary, 1, <<>>) = Calls[f].body
        BY <1>4, <1>1, <1>2, <1>3, NothingAfter
    <2> QED
        BY <2>1, <2>2, <1>13, <1>4, Zenon DEF Entered
<1> QED
    BY <1>14 DEF f

LEMMA GetAnswerEntered == Entered("MGGetAnswer")
<1> DEFINE f == "MGGetAnswer"
<1>1. /\ IsSeq(GetAnswer)
      /\ Step(GetAnswer, 1, New("answer", {}), 2)
      /\ Step(GetAnswer, 2, Unless("answer"), 3)
      /\ Step(GetAnswer, 3, Use({"answer"}), 4)
      /\ Step(GetAnswer, 4, Drop("answer"), 5)
      /\ Step(GetAnswer, 5, Return("NULL"), 6)
    <2>1. GetAnswer \in Seq({New("answer", {}), Unless("answer"), Use({"answer"}),
              Drop("answer"), Return("NULL")})
        BY DEF GetAnswer
    <2>2. IsSeq(GetAnswer)
        BY <2>1 DEF IsSeq
    <2> QED
        BY <2>2 DEF GetAnswer, Step
<1>2. f # "fdopendir" /\ Calls[f].given = {} /\ Calls[f].body = GetAnswer
    BY DEF Calls, Script
<1> HIDE DEF f
<1>3. IsSeq(<<>>)
    BY <1>1, NothingAfter, StepFrom

\* Return("NULL")
<1>4. Good(f, {}, From(GetAnswer, 5, <<>>),
           Knows({}, {}, {}, "NULL", {}))
    BY <1>1, <1>2, <1>3, ReturnAt DEF Settled, Static

\* Drop("answer")
<1>5. Good(f, {}, From(GetAnswer, 4, <<>>),
           Knows({"answer"}, {"answer"}, {}, "NULL", {}))
    BY <1>4, <1>1, <1>3, DropAt DEF Firm, Weaker, Static

\* Use({"answer"})
<1>6. Good(f, {}, From(GetAnswer, 3, <<>>),
           Knows({"answer"}, {"answer"}, {}, "NULL", {}))
    BY <1>5, <1>1, <1>3, UseAt DEF Firm, Weaker, Static

\* Unless("answer")
<1>7. Good(f, {}, From(GetAnswer, 2, <<>>),
           Knows({"answer"}, {}, {}, "NULL", {}))
    BY <1>6, <1>1, <1>2, <1>3, UnlessAt DEF Settled, Weaker, Static

\* New("answer", {})
<1>8. Good(f, {}, From(GetAnswer, 1, <<>>),
           Knows({}, {}, {}, "NULL", {}))
    BY <1>7, <1>1, <1>3, NewAt DEF Unused, Spared, Weaker, Static
<1>9. Entered(f)
    <2>1. {} \cap (Calls[f].given \cup {Static}) = {} /\ Static \notin Calls[f].given
          /\ "NULL" \notin Calls[f].given
        BY <1>2 DEF Static
    <2>2. From(GetAnswer, 1, <<>>) = Calls[f].body
        BY <1>2, <1>1, NothingAfter
    <2> QED
        BY <2>1, <2>2, <1>8, <1>2, Zenon DEF Entered
<1> QED
    BY <1>9 DEF f

LEMMA CopyPeerTrustEntered == Entered("ourSSLCopyPeerTrust")
<1> DEFINE f == "ourSSLCopyPeerTrust"
           HasSecCertificate == <<Put("secCertificate", "certificates"),
                                  Drop("secCertificate")>>
           HasData == <<New("secCertificate", {"data"}), Drop("data"),
                      IfSet("secCertificate",
                        HasSecCertificate)>>
           HasDer == <<New("data", {"der"}), Drop("der"), IfSet("data", HasData)>>
           Loop == <<Use({"chain"}), New("der", {"chain"}), IfSet("der", HasDer)>>
           HasHost == <<New("policy", {"host"}), Drop("host")>>
           Perhaps == <<New("host", {}), IfSet("host", HasHost)>>
           NoPolicy == <<Sure("policy", {})>>
           HasPolicy == <<Drop("policy")>>
           AfterLoop == From(CopyPeerTrust, 5, <<>>)
           AfterHasDer == From(Loop, 4, AfterLoop)
           AfterHasData == From(HasDer, 4, AfterHasDer)
           AfterHasSecCertificate == From(HasData, 4, AfterHasData)
           AfterPerhaps == From(CopyPeerTrust, 7, <<>>)
           AfterHasHost == From(Perhaps, 3, AfterPerhaps)
           AfterNoPolicy == From(CopyPeerTrust, 8, <<>>)
           AfterHasPolicy == From(CopyPeerTrust, 10, <<>>)
<1>1. /\ IsSeq(CopyPeerTrust)
      /\ Step(CopyPeerTrust, 1, Unless("ssl"), 2)
      /\ Step(CopyPeerTrust, 2, Get("chain", "ssl"), 3)
      /\ Step(CopyPeerTrust, 3, Unless("chain"), 4)
      /\ Step(CopyPeerTrust, 4, Sure("certificates", {}), 5)
      /\ Step(CopyPeerTrust, 5, Repeat(Loop), 6)
      /\ Step(CopyPeerTrust, 6, Maybe(Perhaps), 7)
      /\ Step(CopyPeerTrust, 7, IfNull("policy", NoPolicy), 8)
      /\ Step(CopyPeerTrust, 8, New("created", {"certificates", "policy"}), 9)
      /\ Step(CopyPeerTrust, 9, IfSet("policy", HasPolicy), 10)
      /\ Step(CopyPeerTrust, 10, Drop("certificates"), 11)
      /\ Step(CopyPeerTrust, 11, Return("created"), 12)
    <2>1. CopyPeerTrust \in Seq({Unless("ssl"), Get("chain", "ssl"), Unless("chain"),
              Sure("certificates", {}), Repeat(Loop), Maybe(Perhaps), IfNull("policy",
              NoPolicy), New("created", {"certificates", "policy"}), IfSet("policy",
              HasPolicy), Drop("certificates"), Return("created")})
        BY DEF CopyPeerTrust
    <2>2. IsSeq(CopyPeerTrust)
        BY <2>1 DEF IsSeq
    <2> QED
        BY <2>2 DEF CopyPeerTrust, Step
<1>2. /\ IsSeq(Loop)
      /\ Step(Loop, 1, Use({"chain"}), 2)
      /\ Step(Loop, 2, New("der", {"chain"}), 3)
      /\ Step(Loop, 3, IfSet("der", HasDer), 4)
      /\ End(Loop, 4)
    <2>1. Loop \in Seq({Use({"chain"}), New("der", {"chain"}), IfSet("der", HasDer)})
        BY DEF Loop
    <2>2. IsSeq(Loop)
        BY <2>1 DEF IsSeq
    <2> QED
        BY <2>2 DEF Loop, Step, End
<1>3. /\ IsSeq(HasDer)
      /\ Step(HasDer, 1, New("data", {"der"}), 2)
      /\ Step(HasDer, 2, Drop("der"), 3)
      /\ Step(HasDer, 3, IfSet("data", HasData), 4)
      /\ End(HasDer, 4)
    <2>1. HasDer \in Seq({New("data", {"der"}), Drop("der"), IfSet("data", HasData)})
        BY DEF HasDer
    <2>2. IsSeq(HasDer)
        BY <2>1 DEF IsSeq
    <2> QED
        BY <2>2 DEF HasDer, Step, End
<1>4. /\ IsSeq(HasData)
      /\ Step(HasData, 1, New("secCertificate", {"data"}), 2)
      /\ Step(HasData, 2, Drop("data"), 3)
      /\ Step(HasData, 3, IfSet("secCertificate", HasSecCertificate), 4)
      /\ End(HasData, 4)
    <2>1. HasData \in Seq({New("secCertificate", {"data"}), Drop("data"),
              IfSet("secCertificate", HasSecCertificate)})
        BY DEF HasData
    <2>2. IsSeq(HasData)
        BY <2>1 DEF IsSeq
    <2> QED
        BY <2>2 DEF HasData, Step, End
<1>5. /\ IsSeq(HasSecCertificate)
      /\ Step(HasSecCertificate, 1, Put("secCertificate", "certificates"), 2)
      /\ Step(HasSecCertificate, 2, Drop("secCertificate"), 3)
      /\ End(HasSecCertificate, 3)
    <2>1. HasSecCertificate \in Seq({Put("secCertificate", "certificates"),
              Drop("secCertificate")})
        BY DEF HasSecCertificate
    <2>2. IsSeq(HasSecCertificate)
        BY <2>1 DEF IsSeq
    <2> QED
        BY <2>2 DEF HasSecCertificate, Step, End
<1>6. /\ IsSeq(Perhaps)
      /\ Step(Perhaps, 1, New("host", {}), 2)
      /\ Step(Perhaps, 2, IfSet("host", HasHost), 3)
      /\ End(Perhaps, 3)
    <2>1. Perhaps \in Seq({New("host", {}), IfSet("host", HasHost)})
        BY DEF Perhaps
    <2>2. IsSeq(Perhaps)
        BY <2>1 DEF IsSeq
    <2> QED
        BY <2>2 DEF Perhaps, Step, End
<1>7. /\ IsSeq(HasHost)
      /\ Step(HasHost, 1, New("policy", {"host"}), 2)
      /\ Step(HasHost, 2, Drop("host"), 3)
      /\ End(HasHost, 3)
    <2>1. HasHost \in Seq({New("policy", {"host"}), Drop("host")})
        BY DEF HasHost
    <2>2. IsSeq(HasHost)
        BY <2>1 DEF IsSeq
    <2> QED
        BY <2>2 DEF HasHost, Step, End
<1>8. /\ IsSeq(NoPolicy)
      /\ Step(NoPolicy, 1, Sure("policy", {}), 2)
      /\ End(NoPolicy, 2)
    <2>1. NoPolicy \in Seq({Sure("policy", {})})
        BY DEF NoPolicy
    <2>2. IsSeq(NoPolicy)
        BY <2>1 DEF IsSeq
    <2> QED
        BY <2>2 DEF NoPolicy, Step, End
<1>9. /\ IsSeq(HasPolicy)
      /\ Step(HasPolicy, 1, Drop("policy"), 2)
      /\ End(HasPolicy, 2)
    <2>1. HasPolicy \in Seq({Drop("policy")})
        BY DEF HasPolicy
    <2>2. IsSeq(HasPolicy)
        BY <2>1 DEF IsSeq
    <2> QED
        BY <2>2 DEF HasPolicy, Step, End
<1>10. f # "fdopendir" /\ Calls[f].given = {"ssl"} /\ Calls[f].body = CopyPeerTrust
    BY DEF Calls, Script
<1> HIDE DEF f, HasSecCertificate, HasData, HasDer, Loop, HasHost, Perhaps, NoPolicy,
             HasPolicy
<1>11. /\ IsSeq(<<>>) /\ IsSeq(AfterLoop) /\ IsSeq(AfterHasDer) /\ IsSeq(AfterHasData)
       /\ IsSeq(AfterHasSecCertificate) /\ IsSeq(AfterPerhaps) /\ IsSeq(AfterHasHost)
       /\ IsSeq(AfterNoPolicy) /\ IsSeq(AfterHasPolicy)
    BY <1>1, <1>2, <1>3, <1>4, <1>5, <1>6, <1>7, <1>8, <1>9, NothingAfter, StepFrom

\* Return("created")
<1>12. Good(f, {}, From(CopyPeerTrust, 11, <<>>),
            Knows({"created", "ssl"}, {}, {}, "ssl", {}))
    BY <1>1, <1>10, <1>11, ReturnAt DEF Settled, Static

\* Drop("certificates")
<1>13. Good(f, {}, From(CopyPeerTrust, 10, <<>>),
            Knows({"certificates", "created", "ssl"}, {"certificates"}, {}, "ssl", {}))
    BY <1>12, <1>1, <1>11, DropAt DEF Firm, Weaker, Static

\* the end of HasPolicy
<1>14. Good(f, {}, From(HasPolicy, 2, AfterHasPolicy),
            Knows({"certificates", "created", "ssl"}, {"certificates"}, {}, "ssl", {}))
    BY <1>13, <1>9, <1>11, EndAt

\* Drop("policy")
<1>15. Good(f, {}, From(HasPolicy, 1, AfterHasPolicy),
            Knows({"certificates", "created", "policy", "ssl"}, {"certificates", "policy"},
                  {}, "ssl", {}))
    BY <1>14, <1>9, <1>11, DropAt DEF Firm, Weaker, Static

\* IfSet("policy", HasPolicy)
<1>16. Good(f, {}, From(CopyPeerTrust, 9, <<>>),
            Knows({"certificates", "created", "policy", "ssl"}, {"certificates", "policy"},
                  {}, "ssl", {}))
    BY <1>15, <1>1, <1>9, <1>11, IfSetTaken DEF Weaker

\* New("created", {"certificates", "policy"})
<1>17. Good(f, {}, From(CopyPeerTrust, 8, <<>>),
            Knows({"certificates", "policy", "ssl"}, {"certificates", "policy"}, {}, "ssl",
                  {}))
    BY <1>16, <1>1, <1>11, NewAt DEF Firm, Unused, Spared, Weaker, Static

\* the end of NoPolicy
<1>18. Good(f, {}, From(NoPolicy, 2, AfterNoPolicy),
            Knows({"certificates", "policy", "ssl"}, {"certificates", "policy"}, {}, "ssl",
                  {}))
    BY <1>17, <1>8, <1>11, EndAt

\* Sure("policy", {})
<1>19. Good(f, {}, From(NoPolicy, 1, AfterNoPolicy),
            Knows({"certificates", "ssl"}, {"certificates"}, {}, "ssl", {}))
    BY <1>18, <1>8, <1>11, SureAt DEF Unused, Spared, Weaker, Static

\* IfNull("policy", NoPolicy)
<1>20. Good(f, {}, From(CopyPeerTrust, 7, <<>>),
            Knows({"certificates", "ssl"}, {"certificates"}, {"policy"}, "ssl", {}))
    BY <1>19, <1>1, <1>8, <1>11, IfNullTaken DEF Weaker

\* the end of Perhaps
<1>21. Good(f, {}, From(Perhaps, 3, AfterPerhaps),
            Knows({"certificates", "ssl"}, {"certificates"}, {"policy"}, "ssl", {}))
    BY <1>20, <1>6, <1>11, EndAt

\* IfNull("policy", NoPolicy)
<1>22. Good(f, {}, From(CopyPeerTrust, 7, <<>>),
            Knows({"certificates", "policy", "ssl"}, {"certificates"}, {}, "ssl", {}))
    BY <1>19, <1>17, <1>1, <1>8, <1>11, IfNullAt DEF Weaker

\* the end of Perhaps
<1>23. Good(f, {}, From(Perhaps, 3, AfterPerhaps),
            Knows({"certificates", "policy", "ssl"}, {"certificates"}, {}, "ssl", {}))
    BY <1>22, <1>6, <1>11, EndAt

\* the end of HasHost
<1>24. Good(f, {}, From(HasHost, 3, AfterHasHost),
            Knows({"certificates", "policy", "ssl"}, {"certificates"}, {}, "ssl", {}))
    BY <1>23, <1>7, <1>11, EndAt

\* Drop("host")
<1>25. Good(f, {}, From(HasHost, 2, AfterHasHost),
            Knows({"certificates", "host", "policy", "ssl"}, {"certificates", "host"}, {},
                  "ssl", {}))
    BY <1>24, <1>7, <1>11, DropAt DEF Firm, Weaker, Static

\* New("policy", {"host"})
<1>26. Good(f, {}, From(HasHost, 1, AfterHasHost),
            Knows({"certificates", "host", "ssl"}, {"certificates", "host"}, {}, "ssl", {}))
    BY <1>25, <1>7, <1>11, NewAt DEF Firm, Unused, Spared, Weaker, Static

\* IfSet("host", HasHost)
<1>27. Good(f, {}, From(Perhaps, 2, AfterPerhaps),
            Knows({"certificates", "host", "ssl"}, {"certificates"}, {"policy"}, "ssl", {}))
    BY <1>26, <1>21, <1>6, <1>7, <1>11, IfSetAt DEF Weaker

\* New("host", {})
<1>28. Good(f, {}, From(Perhaps, 1, AfterPerhaps),
            Knows({"certificates", "ssl"}, {"certificates"}, {"policy"}, "ssl", {}))
    BY <1>27, <1>6, <1>11, NewAt DEF Unused, Spared, Weaker, Static

\* Maybe(Perhaps)
<1>29. Good(f, {}, From(CopyPeerTrust, 6, <<>>),
            Knows({"certificates", "ssl"}, {"certificates"}, {"policy"}, "ssl", {}))
    BY <1>28, <1>20, <1>1, <1>6, <1>11, MaybeAt DEF Weaker
<1> DEFINE H == {} \cup {<<From(CopyPeerTrust, 5, <<>>),
                           Knows({"certificates", "ssl"}, {"certificates", "chain", "ssl"},
                                 {"policy"}, "ssl", {"chain"})>>}

\* the end of Loop
<1>30. Good(f, H, From(Loop, 4, AfterLoop),
            Knows({"certificates", "ssl"}, {"certificates", "chain", "ssl"}, {"policy"},
                  "ssl", {"chain"}))
    BY <1>2, <1>11, AgainAt, EndAt

\* the end of HasDer
<1>31. Good(f, H, From(HasDer, 4, AfterHasDer),
            Knows({"certificates", "ssl"}, {"certificates", "chain", "ssl"}, {"policy"},
                  "ssl", {"chain"}))
    BY <1>30, <1>3, <1>11, EndAt

\* the end of HasData
<1>32. Good(f, H, From(HasData, 4, AfterHasData),
            Knows({"certificates", "ssl"}, {"certificates", "chain", "ssl"}, {"policy"},
                  "ssl", {"chain"}))
    BY <1>31, <1>4, <1>11, EndAt

\* the end of HasSecCertificate
<1>33. Good(f, H, From(HasSecCertificate, 3, AfterHasSecCertificate),
            Knows({"certificates", "ssl"}, {"certificates", "chain", "ssl"}, {"policy"},
                  "ssl", {"chain"}))
    BY <1>32, <1>5, <1>11, EndAt

\* Drop("secCertificate")
<1>34. Good(f, H, From(HasSecCertificate, 2, AfterHasSecCertificate),
            Knows({"certificates", "secCertificate", "ssl"},
                  {"certificates", "chain", "secCertificate", "ssl"}, {"policy"}, "ssl",
                  {"chain"}))
    BY <1>33, <1>5, <1>11, DropAt DEF Firm, Weaker, Static

\* Put("secCertificate", "certificates")
<1>35. Good(f, H, From(HasSecCertificate, 1, AfterHasSecCertificate),
            Knows({"certificates", "secCertificate", "ssl"},
                  {"certificates", "chain", "secCertificate", "ssl"}, {"policy"}, "ssl",
                  {"chain"}))
    BY <1>34, <1>5, <1>11, PutAt DEF Firm, Weaker, Static

\* IfSet("secCertificate", HasSecCertificate)
<1>36. Good(f, H, From(HasData, 3, AfterHasData),
            Knows({"certificates", "secCertificate", "ssl"},
                  {"certificates", "chain", "ssl"}, {"policy"}, "ssl", {"chain"}))
    BY <1>35, <1>32, <1>4, <1>5, <1>11, IfSetAt DEF Weaker

\* Drop("data")
<1>37. Good(f, H, From(HasData, 2, AfterHasData),
            Knows({"certificates", "data", "secCertificate", "ssl"},
                  {"certificates", "chain", "data", "ssl"}, {"policy"}, "ssl", {"chain"}))
    BY <1>36, <1>4, <1>11, DropAt DEF Firm, Weaker, Static

\* New("secCertificate", {"data"})
<1>38. Good(f, H, From(HasData, 1, AfterHasData),
            Knows({"certificates", "data", "ssl"},
                  {"certificates", "chain", "data", "ssl"}, {"policy"}, "ssl", {"chain"}))
    BY <1>37, <1>4, <1>11, NewAt DEF Firm, Unused, Spared, Weaker, Static

\* IfSet("data", HasData)
<1>39. Good(f, H, From(HasDer, 3, AfterHasDer),
            Knows({"certificates", "data", "ssl"}, {"certificates", "chain", "ssl"},
                  {"policy"}, "ssl", {"chain"}))
    BY <1>38, <1>31, <1>3, <1>4, <1>11, IfSetAt DEF Weaker

\* Drop("der")
<1>40. Good(f, H, From(HasDer, 2, AfterHasDer),
            Knows({"certificates", "data", "der", "ssl"},
                  {"certificates", "chain", "der", "ssl"}, {"policy"}, "ssl", {"chain"}))
    BY <1>39, <1>3, <1>11, DropAt DEF Firm, Weaker, Static

\* New("data", {"der"})
<1>41. Good(f, H, From(HasDer, 1, AfterHasDer),
            Knows({"certificates", "der", "ssl"}, {"certificates", "chain", "der", "ssl"},
                  {"policy"}, "ssl", {"chain"}))
    BY <1>40, <1>3, <1>11, NewAt DEF Firm, Unused, Spared, Weaker, Static

\* IfSet("der", HasDer)
<1>42. Good(f, H, From(Loop, 3, AfterLoop),
            Knows({"certificates", "der", "ssl"}, {"certificates", "chain", "ssl"},
                  {"policy"}, "ssl", {"chain"}))
    BY <1>41, <1>30, <1>2, <1>3, <1>11, IfSetAt DEF Weaker

\* New("der", {"chain"})
<1>43. Good(f, H, From(Loop, 2, AfterLoop),
            Knows({"certificates", "ssl"}, {"certificates", "chain", "ssl"}, {"policy"},
                  "ssl", {"chain"}))
    BY <1>42, <1>2, <1>11, NewAt DEF Firm, Unused, Spared, Weaker, Static

\* Use({"chain"})
<1>44. Good(f, H, From(Loop, 1, AfterLoop),
            Knows({"certificates", "ssl"}, {"certificates", "chain", "ssl"}, {"policy"},
                  "ssl", {"chain"}))
    BY <1>43, <1>2, <1>11, UseAt DEF Firm, Weaker, Static

\* Repeat(Loop)
<1>45. Good(f, {}, From(CopyPeerTrust, 5, <<>>),
            Knows({"certificates", "ssl"}, {"certificates", "chain", "ssl"}, {"policy"},
                  "ssl", {"chain"}))
    BY <1>44, <1>29, <1>1, <1>2, <1>11, RepeatAt DEF Weaker

\* Sure("certificates", {})
<1>46. Good(f, {}, From(CopyPeerTrust, 4, <<>>),
            Knows({"ssl"}, {"chain", "ssl"}, {"policy"}, "ssl", {"chain"}))
    BY <1>45, <1>1, <1>11, SureAt DEF Unused, Spared, Weaker, Static

\* Unless("chain")
<1>47. Good(f, {}, From(CopyPeerTrust, 3, <<>>),
            Knows({"ssl"}, {"ssl"}, {"policy"}, "ssl", {"chain"}))
    BY <1>46, <1>1, <1>10, <1>11, UnlessAt DEF Settled, Weaker, Static

\* Get("chain", "ssl")
<1>48. Good(f, {}, From(CopyPeerTrust, 2, <<>>),
            Knows({"ssl"}, {"ssl"}, {"policy"}, "ssl", {}))
    BY <1>47, <1>1, <1>11, GetAt DEF Firm, Unused, Weaker, Static

\* Unless("ssl")
<1>49. Good(f, {}, From(CopyPeerTrust, 1, <<>>),
            Knows({"ssl"}, {}, {"policy"}, "ssl", {}))
    BY <1>48, <1>1, <1>10, <1>11, UnlessAt DEF Settled, Weaker, Static
<1>50. Entered(f)
    <2>1. /\ {"policy"} \cap (Calls[f].given \cup {Static}) = {}
          /\ Static \notin Calls[f].given
          /\ "NULL" \notin Calls[f].given
        BY <1>10 DEF Static
    <2>2. From(CopyPeerTrust, 1, <<>>) = Calls[f].body
        BY <1>10, <1>1, <1>2, <1>3, <1>4, <1>5, <1>6, <1>7, <1>8, <1>9, NothingAfter
    <2> QED
        BY <2>1, <2>2, <1>49, <1>10, Zenon DEF Entered
<1> QED
    BY <1>50 DEF f

LEMMA ListProcessesEntered == Entered("revpid")
<1> DEFINE f == "revpid"
           Perhaps == <<Drop("processes"), Return("NULL")>>
           AfterPerhaps == From(ListProcesses, 5, <<>>)
<1>1. /\ IsSeq(ListProcesses)
      /\ Step(ListProcesses, 1, Maybe(Nothing), 2)
      /\ Step(ListProcesses, 2, New("processes", {}), 3)
      /\ Step(ListProcesses, 3, Unless("processes"), 4)
      /\ Step(ListProcesses, 4, Maybe(Perhaps), 5)
      /\ Step(ListProcesses, 5, Use({"processes"}), 6)
      /\ Step(ListProcesses, 6, Drop("processes"), 7)
      /\ Step(ListProcesses, 7, Return("NULL"), 8)
    <2>1. ListProcesses \in Seq({Maybe(Nothing), New("processes", {}),
              Unless("processes"), Maybe(Perhaps), Use({"processes"}),
              Drop("processes"), Return("NULL")})
        BY DEF ListProcesses
    <2>2. IsSeq(ListProcesses)
        BY <2>1 DEF IsSeq
    <2> QED
        BY <2>2 DEF ListProcesses, Step
<1>2. /\ IsSeq(Perhaps)
      /\ Step(Perhaps, 1, Drop("processes"), 2)
      /\ Step(Perhaps, 2, Return("NULL"), 3)
    <2>1. Perhaps \in Seq({Drop("processes"), Return("NULL")})
        BY DEF Perhaps
    <2>2. IsSeq(Perhaps)
        BY <2>1 DEF IsSeq
    <2> QED
        BY <2>2 DEF Perhaps, Step
<1>3. f # "fdopendir" /\ Calls[f].given = {} /\ Calls[f].body = ListProcesses
    BY DEF Calls, Script
<1> HIDE DEF f, Perhaps
<1>4. IsSeq(<<>>) /\ IsSeq(AfterPerhaps) /\ IsSeq(From(ListProcesses, 2, <<>>))
    BY <1>1, <1>2, NothingAfter, StepFrom

\* Return("NULL")
<1>5. Good(f, {}, From(ListProcesses, 7, <<>>),
           Knows({}, {}, {}, "NULL", {}))
    BY <1>1, <1>3, <1>4, ReturnAt DEF Settled, Static

\* Drop("processes")
<1>6. Good(f, {}, From(ListProcesses, 6, <<>>),
           Knows({"processes"}, {"processes"}, {}, "NULL", {}))
    BY <1>5, <1>1, <1>4, DropAt DEF Firm, Weaker, Static

\* Use({"processes"})
<1>7. Good(f, {}, From(ListProcesses, 5, <<>>),
           Knows({"processes"}, {"processes"}, {}, "NULL", {}))
    BY <1>6, <1>1, <1>4, UseAt DEF Firm, Weaker, Static

\* Return("NULL")
<1>8. Good(f, {}, From(Perhaps, 2, AfterPerhaps),
           Knows({}, {}, {}, "NULL", {}))
    BY <1>2, <1>3, <1>4, ReturnAt DEF Settled, Static

\* Drop("processes")
<1>9. Good(f, {}, From(Perhaps, 1, AfterPerhaps),
           Knows({"processes"}, {"processes"}, {}, "NULL", {}))
    BY <1>8, <1>2, <1>4, DropAt DEF Firm, Weaker, Static

\* Maybe(Perhaps)
<1>10. Good(f, {}, From(ListProcesses, 4, <<>>),
            Knows({"processes"}, {"processes"}, {}, "NULL", {}))
    BY <1>9, <1>7, <1>1, <1>2, <1>4, MaybeAt DEF Weaker

\* Unless("processes")
<1>11. Good(f, {}, From(ListProcesses, 3, <<>>),
            Knows({"processes"}, {}, {}, "NULL", {}))
    BY <1>10, <1>1, <1>3, <1>4, UnlessAt DEF Settled, Weaker, Static

\* New("processes", {})
<1>12. Good(f, {}, From(ListProcesses, 2, <<>>),
            Knows({}, {}, {}, "NULL", {}))
    BY <1>11, <1>1, <1>4, NewAt DEF Unused, Spared, Weaker, Static

\* Return("NULL")
<1>13. Good(f, {}, From(Nothing, 1, From(ListProcesses, 2, <<>>)),
            Knows({}, {}, {}, "NULL", {}))
    BY NothingSteps, <1>3, <1>4, ReturnAt DEF Settled, Static

\* Maybe(Nothing)
<1>14. Good(f, {}, From(ListProcesses, 1, <<>>),
            Knows({}, {}, {}, "NULL", {}))
    BY <1>13, <1>12, <1>1, NothingSteps, <1>4, MaybeAt DEF Weaker
<1>15. Entered(f)
    <2>1. {} \cap (Calls[f].given \cup {Static}) = {} /\ Static \notin Calls[f].given
          /\ "NULL" \notin Calls[f].given
        BY <1>3 DEF Static
    <2>2. From(ListProcesses, 1, <<>>) = Calls[f].body
        BY <1>3, <1>1, <1>2, NothingAfter
    <2> QED
        BY <2>1, <2>2, <1>14, <1>3, Zenon DEF Entered
<1> QED
    BY <1>15 DEF f

LEMMA PostTouchEntered == Entered("revtouch")
<1> DEFINE f == "revtouch"
<1>1. /\ IsSeq(PostTouch)
      /\ Step(PostTouch, 1, Sure("parent", {}), 2)
      /\ Step(PostTouch, 2, Use({"parent"}), 3)
      /\ Step(PostTouch, 3, Sure("finger", {}), 4)
      /\ Step(PostTouch, 4, Put("finger", "parent"), 5)
      /\ Step(PostTouch, 5, Drop("finger"), 6)
      /\ Step(PostTouch, 6, Use({"parent"}), 7)
      /\ Step(PostTouch, 7, Drop("parent"), 8)
      /\ Step(PostTouch, 8, Return("NULL"), 9)
    <2>1. PostTouch \in Seq({Sure("parent", {}), Use({"parent"}), Sure("finger", {}),
              Put("finger", "parent"), Drop("finger"), Drop("parent"), Return("NULL")})
        BY DEF PostTouch
    <2>2. IsSeq(PostTouch)
        BY <2>1 DEF IsSeq
    <2> QED
        BY <2>2 DEF PostTouch, Step
<1>2. f # "fdopendir" /\ Calls[f].given = {} /\ Calls[f].body = PostTouch
    BY DEF Calls, Script
<1> HIDE DEF f
<1>3. IsSeq(<<>>)
    BY <1>1, NothingAfter, StepFrom

\* Return("NULL")
<1>4. Good(f, {}, From(PostTouch, 8, <<>>),
           Knows({}, {}, {}, "NULL", {}))
    BY <1>1, <1>2, <1>3, ReturnAt DEF Settled, Static

\* Drop("parent")
<1>5. Good(f, {}, From(PostTouch, 7, <<>>),
           Knows({"parent"}, {"parent"}, {}, "NULL", {}))
    BY <1>4, <1>1, <1>3, DropAt DEF Firm, Weaker, Static

\* Use({"parent"})
<1>6. Good(f, {}, From(PostTouch, 6, <<>>),
           Knows({"parent"}, {"parent"}, {}, "NULL", {}))
    BY <1>5, <1>1, <1>3, UseAt DEF Firm, Weaker, Static

\* Drop("finger")
<1>7. Good(f, {}, From(PostTouch, 5, <<>>),
           Knows({"finger", "parent"}, {"finger", "parent"}, {}, "NULL", {}))
    BY <1>6, <1>1, <1>3, DropAt DEF Firm, Weaker, Static

\* Put("finger", "parent")
<1>8. Good(f, {}, From(PostTouch, 4, <<>>),
           Knows({"finger", "parent"}, {"finger", "parent"}, {}, "NULL", {}))
    BY <1>7, <1>1, <1>3, PutAt DEF Firm, Weaker, Static

\* Sure("finger", {})
<1>9. Good(f, {}, From(PostTouch, 3, <<>>),
           Knows({"parent"}, {"parent"}, {}, "NULL", {}))
    BY <1>8, <1>1, <1>3, SureAt DEF Unused, Spared, Weaker, Static

\* Use({"parent"})
<1>10. Good(f, {}, From(PostTouch, 2, <<>>),
            Knows({"parent"}, {"parent"}, {}, "NULL", {}))
    BY <1>9, <1>1, <1>3, UseAt DEF Firm, Weaker, Static

\* Sure("parent", {})
<1>11. Good(f, {}, From(PostTouch, 1, <<>>),
            Knows({}, {}, {}, "NULL", {}))
    BY <1>10, <1>1, <1>3, SureAt DEF Unused, Spared, Weaker, Static
<1>12. Entered(f)
    <2>1. {} \cap (Calls[f].given \cup {Static}) = {} /\ Static \notin Calls[f].given
          /\ "NULL" \notin Calls[f].given
        BY <1>2 DEF Static
    <2>2. From(PostTouch, 1, <<>>) = Calls[f].body
        BY <1>2, <1>1, NothingAfter
    <2> QED
        BY <2>1, <2>2, <1>11, <1>2, Zenon DEF Entered
<1> QED
    BY <1>12 DEF f

-----------------------------------------------------------------------------
(* The results *)

\* Every function may be entered.
LEMMA AllEntered == \A f \in DOMAIN Calls : Entered(f)
BY CreateForCSSFamilyEntered, CreateForCharactersEntered, HasTableEntered,
   IsAppleColorEmojiEntered, CreateForUITypeEntered,
   CreateWithTextStyleAndAttributesEntered, CreateCopyWithSymbolicTraitsEntered,
   DescriptorFromFontDataEntered, CreateDescriptorsFromURLEntered,
   CopyAvailableFontFamilyNamesEntered, GetGlyphsForCharacterRangeEntered,
   DrawConicGradientEntered, CreateSRGBEntered, CopyCertificateChainEntered,
   FDOpenDirEntered, MakeTemporaryEntered, GetAnswerEntered, CopyPeerTrustEntered,
   ListProcessesEntered, PostTouchEntered DEF Calls

\* The assertions hold at each step of every call, whatever the caller passes and
\* whichever of the functions that are called fail.
LEMMA Invariant == Spec => []IInv
<1>1. IInv /\ [Next]_vars => IInv'
    BY AllEntered, NextInv
<1> QED
    BY <1>1, InitInv, PTL DEF Spec

\* A name refers to an object or to nothing, and no object is released more often
\* than it is owned: the count that CFRelease takes one from is positive.
THEOREM TypeCorrect == Spec => []TypeOK
<1>1. IInv => TypeOK
    BY DEF IInv
<1> QED
    BY <1>1, Invariant, PTL

\* None of the functions works on NULL or on an object that is gone, on any of its
\* paths, for any number of objects and any number of rounds of its loops.
THEOREM NothingDangles == Spec => []NeverDangling
<1>1. IInv => NeverDangling
    BY KeepsAlive
<1> QED
    BY <1>1, Invariant, PTL

\* Whichever way a function returns, the caller owns what it passed and what it got,
\* once each, the cache owns itself, and no reference is left that nobody has.
THEOREM EverythingBalances == Spec => []Balanced
<1>1. IInv => Balanced
    BY DEF IInv
<1> QED
    BY <1>1, Invariant, PTL
=============================================================================
