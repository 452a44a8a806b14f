--------------------------- MODULE CacheSweep_proofs ---------------------------
(***************************************************************************)
(* One sweep at a time, what a sweep leaves and what the total stands for, *)
(* for any names, threads, bounds and number of writes.  IInv says what a  *)
(* walk has listed and still has to; BInv adds up the bytes: those that a  *)
(* sweep holds, those that came after its opendir and those that a thread  *)
(* has yet to note.                                                        *)
(***************************************************************************)
EXTENDS CacheSweep, FiniteSetTheorems, TLAPS

Types ==
    /\ disk \in [Names -> Files \cup {None}]
    /\ gCacheSweeping \in BOOLEAN
    /\ pc \in [Sweepers -> {"idle", "renamed", "due"} \cup Sweeping]
    /\ unlisted \in [Sweepers -> SUBSET Names]
    /\ listed \in [Sweepers -> [Names -> Nat \cup {None}]]
    /\ kept \in [Sweepers -> Nat]
    /\ fresh \subseteq Names /\ missed \subseteq Names /\ refused \subseteq Names

\* What is listed has been counted; a file that the sweep answers for is listed, or the walk
\* has still to come to it.
Walk(t) ==
    pc[t] \in Sweeping =>
        /\ Cardinality(Listed(t)) <= kept[t]
        /\ \A n \in Answerable : disk[n] # None => n \in Listed(t) \cup unlisted[t]
        /\ pc[t] = "evicting" => unlisted[t] = {}

Walks == \A t \in Sweepers : Walk(t)

IInv == Types /\ OneSweeper /\ Walks

LEMMA ListedIsFinite ==
    ASSUME NEW t
    PROVE  IsFiniteSet(Listed(t)) /\ Cardinality(Listed(t)) \in Nat
BY ConstantsAssumption, FS_Subset, FS_CardinalityType DEF Listed

LEMMA SizeType == \A f \in Files : Size(f) \in Nat
BY ConstantsAssumption DEF Size

LEMMA SameAnswerable ==
    ASSUME UNCHANGED <<fresh, missed>>
    PROVE  Answerable' = Answerable
BY DEF Answerable

LEMMA InitInv ==
    ASSUME Init
    PROVE  IInv
<1>1. Types
    BY DEF Init, Types, NoListing, Sweepers
<1>2. \A t \in Sweepers : pc[t] \notin Sweeping
    BY DEF Init, Sweeping, Sweepers
<1>3. OneSweeper /\ Walks
    BY <1>2 DEF OneSweeper, Walks, Walk, Init
<1> QED
    BY <1>1, <1>3 DEF IInv

-----------------------------------------------------------------------------
(* Other threads: files come and go while a walk is under way. *)

\* A thread that is not sweeping, before or after.
Elsewhere(t, from, to) ==
    /\ pc[t] = from /\ from \notin Sweeping /\ to \notin Sweeping
    /\ pc' = [pc EXCEPT ![t] = to]

LEMMA OneSweeperStays ==
    ASSUME Types, OneSweeper, UNCHANGED gCacheSweeping,
           NEW t \in Sweepers, NEW from, NEW to, Elsewhere(t, from, to)
    PROVE  OneSweeper'
BY DEF Types, OneSweeper, Elsewhere

\* A walk goes on if its own state does, and what it answers for stays or goes.
LEMMA WalkStays ==
    ASSUME NEW t \in Sweepers, Walk(t),
           pc'[t] = pc[t] \/ pc'[t] \notin Sweeping,
           UNCHANGED <<unlisted, listed, kept>>,
           Answerable' \subseteq Answerable,
           \A n \in Answerable' : disk'[n] # None => disk[n] # None
    PROVE  Walk(t)'
BY DEF Walk, Listed

LEMMA CommitInv ==
    ASSUME IInv, NEW t \in Threads, NEW n \in Names, NEW f \in Files, Commit(t, n, f)
    PROVE  IInv'
<1> USE DEF IInv
<1>1. UNCHANGED <<gCacheSweeping, unlisted, listed, kept>> /\ t \in Sweepers
    BY DEF Commit, tally, sweep, history, Sweepers
<1>2. Types'
    BY <1>1 DEF Commit, Goto, Types
<1>3. Elsewhere(t, "idle", "renamed")
    BY DEF Commit, Goto, Elsewhere, Sweeping
<1>4. OneSweeper'
    BY <1>1, <1>3, OneSweeperStays
<1>5. Answerable' \subseteq Answerable /\ \A m \in Answerable' : disk'[m] = disk[m]
    BY DEF Commit, Types, Answerable
<1>6. \A u \in Sweepers : pc'[u] = pc[u] \/ pc'[u] \notin Sweeping
    BY <1>3 DEF Elsewhere, Types
<1>7. Walks'
    BY <1>1, <1>5, <1>6, WalkStays DEF Commit, Walks
<1> QED
    BY <1>2, <1>4, <1>7

LEMMA RemoveInv ==
    ASSUME IInv, NEW n \in Names, Remove(n)
    PROVE  IInv'
<1> USE DEF IInv
<1>1. UNCHANGED <<gCacheSweeping, pc, unlisted, listed, kept, fresh, missed, refused>>
    BY DEF Remove, tally, sweep, history
<1>2. Types' /\ OneSweeper'
    BY <1>1 DEF Remove, Types, OneSweeper
<1>3. \A m \in Names : disk'[m] # None => disk[m] # None
    BY DEF Remove, Types
<1>4. Walks'
    BY <1>1, <1>3, WalkStays DEF Walks, Answerable
<1> QED
    BY <1>2, <1>4

LEMMA NoteInv ==
    ASSUME IInv, NEW t \in Threads, Note(t)
    PROVE  IInv'
<1> USE DEF IInv
<1> DEFINE to == IF ~gCacheCounted \/ gCacheBytes' > Capacity THEN "due" ELSE "idle"
<1>1. UNCHANGED <<disk, gCacheSweeping, unlisted, listed, kept, fresh, missed, refused>> /\ t \in Sweepers
    BY DEF Note, sweep, history, Sweepers
<1>2. Elsewhere(t, "renamed", to)
    BY DEF Note, Goto, Elsewhere, Sweeping
<1>3. to \in {"idle", "due"}
    OBVIOUS
<1>4. Types'
    BY <1>1, <1>2, <1>3 DEF Elsewhere, Types
<1>5. OneSweeper'
    BY <1>1, <1>2, OneSweeperStays
<1>6. \A u \in Sweepers : pc'[u] = pc[u] \/ pc'[u] \notin Sweeping
    BY <1>2 DEF Elsewhere, Types
<1>7. Walks'
    BY <1>1, <1>6, WalkStays, SameAnswerable DEF Walks
<1> QED
    BY <1>4, <1>5, <1>7

LEMMA LeaveToOtherInv ==
    ASSUME IInv, NEW t \in Sweepers, LeaveToOther(t)
    PROVE  IInv'
<1> USE DEF IInv
<1>1. UNCHANGED <<disk, gCacheSweeping, unlisted, listed, kept, fresh, missed, refused>>
    BY DEF LeaveToOther, tally, sweep, history
<1>2. Elsewhere(t, "due", "idle")
    BY DEF LeaveToOther, Goto, Elsewhere, Sweeping
<1>3. Types'
    BY <1>1, <1>2 DEF Elsewhere, Types
<1>4. OneSweeper'
    BY <1>1, <1>2, OneSweeperStays
<1>5. \A u \in Sweepers : pc'[u] = pc[u] \/ pc'[u] \notin Sweeping
    BY <1>2 DEF Elsewhere, Types
<1>6. Walks'
    BY <1>1, <1>5, WalkStays, SameAnswerable DEF Walks
<1> QED
    BY <1>3, <1>4, <1>6

-----------------------------------------------------------------------------
(* The sweep. *)

\* What a thread does while it sweeps is the only walk there is.
LEMMA OnlyWalk ==
    ASSUME OneSweeper', NEW t \in Sweepers, pc'[t] \in Sweeping, Walk(t)'
    PROVE  Walks'
BY DEF OneSweeper, Walks, Walk

LEMMA StillOneSweeper ==
    ASSUME Types, OneSweeper, NEW t \in Sweepers, pc[t] \in Sweeping,
           NEW to \in Sweeping, pc' = [pc EXCEPT ![t] = to], UNCHANGED gCacheSweeping
    PROVE  OneSweeper'
BY DEF Types, OneSweeper

\* After opendir everything has still to be listed.
LEMMA OpenListingWalk ==
    ASSUME Types, NEW t \in Sweepers, OpenListing(t), pc'[t] = "listing"
    PROVE  Walk(t)'
<1>1. unlisted'[t] = Names /\ listed'[t] = NoListing /\ kept'[t] = 0
    BY DEF OpenListing, Locals, CountedAnew, Types
<1>2. Listed(t)' = {}
    BY <1>1 DEF Listed, NoListing
<1>3. Cardinality(Listed(t)') = 0
    BY <1>2, FS_EmptySet
<1> QED
    BY <1>1, <1>2, <1>3 DEF Walk, Answerable

LEMMA LocalsTypes ==
    ASSUME Types, NEW t \in Sweepers, Locals(t)
    PROVE  /\ listed' \in [Sweepers -> [Names -> Nat \cup {None}]]
           /\ kept' \in [Sweepers -> Nat]
           /\ fresh' \subseteq Names /\ refused' \subseteq Names
<1>1. NoListing \in [Names -> Nat \cup {None}]
    BY DEF NoListing
<1> QED
    BY <1>1 DEF Locals, CountedAnew, Types

LEMMA OpenListingTypes ==
    ASSUME Types, NEW t \in Sweepers, OpenListing(t)
    PROVE  /\ unlisted' \in [Sweepers -> SUBSET Names]
           /\ listed' \in [Sweepers -> [Names -> Nat \cup {None}]]
           /\ kept' \in [Sweepers -> Nat]
           /\ fresh' \subseteq Names /\ missed' \subseteq Names /\ refused' \subseteq Names
BY LocalsTypes DEF OpenListing, Types

LEMMA BeginSweepInv ==
    ASSUME IInv, NEW t \in Sweepers, BeginSweep(t)
    PROVE  IInv'
<1> USE DEF IInv
<1>1. /\ pc' = [pc EXCEPT ![t] = "listing"] /\ gCacheSweeping' = TRUE
      /\ OpenListing(t) /\ disk' = disk
    BY DEF BeginSweep, Goto
<1>2. \A u \in Sweepers : pc[u] \notin Sweeping
    BY DEF BeginSweep, AlreadySwept, OneSweeper
<1>3. Types'
    BY <1>1, OpenListingTypes DEF Types, Sweeping
<1>4. OneSweeper'
    BY <1>1, <1>2 DEF OneSweeper, Types, Sweeping
<1>5. pc'[t] = "listing"
    BY <1>1 DEF Types
<1>6. Walks'
    BY <1>1, <1>4, <1>5, OpenListingWalk, OnlyWalk DEF Sweeping
<1> QED
    BY <1>3, <1>4, <1>6

\* A name that is listed is counted once.
LEMMA ListFileInv ==
    ASSUME IInv, NEW t \in Sweepers, NEW n \in Names, ListFile(t, n)
    PROVE  IInv'
<1> USE DEF IInv
<1>1. UNCHANGED <<disk, gCacheSweeping, pc, fresh, missed, refused>> /\ pc[t] = "listing"
    BY DEF ListFile, tally, history
<1>2. Size(disk[n]) \in Nat
    BY SizeType DEF ListFile, Types
<1>3. /\ unlisted' = [unlisted EXCEPT ![t] = @ \ {n}]
      /\ listed' = [listed EXCEPT ![t][n] = Size(disk[n])]
      /\ kept' = [kept EXCEPT ![t] = @ + 1]
    BY DEF ListFile
<1>4. Types'
    BY <1>1, <1>2, <1>3 DEF Types
<1>5. OneSweeper'
    BY <1>1 DEF OneSweeper
<1>6. listed'[t] = [listed[t] EXCEPT ![n] = Size(disk[n])] /\ listed[t] \in [Names -> Nat \cup {None}]
    BY <1>3 DEF Types
<1>7. Listed(t)' = Listed(t) \cup {n}
    BY <1>2, <1>6, ConstantsAssumption DEF Listed
<1>8. Cardinality(Listed(t)') <= Cardinality(Listed(t)) + 1
    <2>1. IsFiniteSet(Listed(t)) /\ Cardinality(Listed(t)) \in Nat
        BY ListedIsFinite
    <2>2. Cardinality(Listed(t) \cup {n})
              = IF n \in Listed(t) THEN Cardinality(Listed(t)) ELSE Cardinality(Listed(t)) + 1
        BY <2>1, FS_AddElement, Zenon
    <2>3. Cardinality(Listed(t) \cup {n}) <= Cardinality(Listed(t)) + 1
        BY <2>1, <2>2
    <2> QED
        BY <1>7, <2>3
<1>9. kept'[t] = kept[t] + 1 /\ unlisted'[t] = unlisted[t] \ {n} /\ kept[t] \in Nat
    BY <1>3 DEF Types
<1>10. Cardinality(Listed(t)) <= kept[t] /\ Cardinality(Listed(t)') \in Nat
    <2>1. IsFiniteSet(Listed(t) \cup {n})
        BY ListedIsFinite, FS_AddElement
    <2>2. Cardinality(Listed(t)') \in Nat
        BY <1>7, <2>1, FS_CardinalityType
    <2> QED
        BY <1>1, <2>2 DEF Walks, Walk, Sweeping
<1>11. Cardinality(Listed(t)') <= kept'[t]
    BY <1>8, <1>9, <1>10, ListedIsFinite
<1>12. Walk(t)'
    BY <1>1, <1>7, <1>9, <1>11, SameAnswerable DEF Walks, Walk, Sweeping
<1> QED
    BY <1>1, <1>4, <1>5, <1>12, OnlyWalk DEF Sweeping

LEMMA PassOverInv ==
    ASSUME IInv, NEW t \in Sweepers, NEW n \in Names, PassOver(t, n)
    PROVE  IInv'
<1> USE DEF IInv
<1>1. UNCHANGED <<disk, gCacheSweeping, pc, listed, kept, fresh, missed, refused>> /\ pc[t] = "listing"
    BY DEF PassOver, tally, history
<1>2. unlisted' = [unlisted EXCEPT ![t] = @ \ {n}]
    BY DEF PassOver
<1>3. Types' /\ OneSweeper'
    BY <1>1, <1>2 DEF Types, OneSweeper
<1>4. unlisted'[t] = unlisted[t] \ {n}
    BY <1>2 DEF Types
<1>5. Walk(t)'
    BY <1>1, <1>4 DEF PassOver, Walks, Walk, Listed, Sweeping, Answerable
<1> QED
    BY <1>1, <1>3, <1>5, OnlyWalk DEF Sweeping

\* What a walk leaves out it does not answer for.
LEMMA OverlookInv ==
    ASSUME IInv, NEW t \in Sweepers, NEW names, names \subseteq Names, Overlook(t, names)
    PROVE  IInv'
<1> USE DEF IInv
<1>1. UNCHANGED <<disk, gCacheSweeping, pc, listed, kept, fresh, refused>> /\ pc[t] = "listing"
    BY DEF Overlook, tally
<1>2. unlisted' = [unlisted EXCEPT ![t] = @ \ names] /\ missed' = missed \cup (names \ fresh)
    BY DEF Overlook
<1>3. Types' /\ OneSweeper'
    BY <1>1, <1>2 DEF Types, OneSweeper
<1>4. unlisted'[t] = unlisted[t] \ names
    BY <1>2 DEF Types
<1>5. Answerable' = Answerable \ names
    BY <1>1, <1>2 DEF Answerable
<1>6. Listed(t)' = Listed(t)
    BY <1>1 DEF Listed
<1>7. Walk(t)'
    BY <1>1, <1>4, <1>5, <1>6 DEF Walks, Walk, Sweeping
<1> QED
    BY <1>1, <1>3, <1>7, OnlyWalk DEF Sweeping

LEMMA FailToStatInv ==
    ASSUME IInv, NEW t \in Sweepers, NEW n \in Names, FailToStat(t, n)
    PROVE  IInv'
BY OverlookInv DEF FailToStat

LEMMA GiveUpInv ==
    ASSUME IInv, NEW t \in Sweepers, GiveUp(t)
    PROVE  IInv'
<1>1. unlisted[t] \subseteq Names
    BY DEF IInv, Types
<1> QED
    BY <1>1, OverlookInv DEF GiveUp

LEMMA FailToEvictInv ==
    ASSUME IInv, NEW t \in Sweepers, NEW n \in Names, FailToEvict(t, n)
    PROVE  IInv'
<1>1. UNCHANGED <<disk, gCacheSweeping, pc, unlisted, listed, kept, fresh, missed>>
      /\ refused' = refused \cup {n} /\ pc[t] = "evicting"
    BY DEF FailToEvict, tally, sweep
<1>2. Types' /\ OneSweeper'
    BY <1>1 DEF IInv, Types, OneSweeper
<1>3. Walk(t)'
    BY <1>1, SameAnswerable DEF IInv, Walks, Walk, Listed, Sweeping
<1> QED
    BY <1>1, <1>2, <1>3, OnlyWalk DEF IInv, Sweeping

LEMMA BeginEvictingInv ==
    ASSUME IInv, NEW t \in Sweepers, BeginEvicting(t)
    PROVE  IInv'
<1> USE DEF IInv
<1>1. /\ UNCHANGED <<disk, gCacheSweeping, unlisted, listed, kept, fresh, missed, refused>>
      /\ pc[t] = "listing" /\ unlisted[t] = {}
      /\ pc' = [pc EXCEPT ![t] = "evicting"]
    BY DEF BeginEvicting, Goto, tally, sweep, history
<1>2. Types'
    BY <1>1 DEF Types, Sweeping
<1>3. OneSweeper'
    BY <1>1, StillOneSweeper DEF Sweeping
<1>4. pc'[t] = "evicting"
    BY <1>1 DEF Types
<1>5. Walk(t)'
    BY <1>1, <1>4, SameAnswerable DEF Walks, Walk, Listed, Sweeping
<1> QED
    BY <1>2, <1>3, <1>4, <1>5, OnlyWalk DEF Sweeping

\* A name is taken off the listing, whoever removed the file under it.
LEMMA EvictInv ==
    ASSUME IInv, NEW t \in Sweepers, NEW n \in Names, Evict(t, n)
    PROVE  IInv'
<1> USE DEF IInv
<1>1. /\ UNCHANGED <<gCacheSweeping, pc, unlisted, fresh, missed, refused>>
      /\ pc[t] = "evicting" /\ n \in Listed(t)
      /\ disk' = [disk EXCEPT ![n] = None]
      /\ listed' = [listed EXCEPT ![t][n] = None]
    BY DEF Evict, Left, tally, history
<1>2. Cardinality(Listed(t)) <= kept[t] /\ unlisted[t] = {} /\ kept[t] \in Nat
    BY <1>1 DEF Walks, Walk, Sweeping, Types
<1>3. listed'[t] = [listed[t] EXCEPT ![n] = None] /\ listed[t] \in [Names -> Nat \cup {None}]
    BY <1>1 DEF Types
<1>4. Listed(t)' = Listed(t) \ {n}
    BY <1>3 DEF Listed
<1>5. Cardinality(Listed(t)') = Cardinality(Listed(t)) - 1 /\ Cardinality(Listed(t)') \in Nat
    BY <1>1, <1>4, ListedIsFinite, FS_RemoveElement, FS_CardinalityType
<1>6. kept' = kept \/ kept' = [kept EXCEPT ![t] = @ - 1]
    BY DEF Evict
<1>7. kept'[t] \in {kept[t], kept[t] - 1} /\ kept'[t] >= kept[t] - 1
    BY <1>2, <1>6 DEF Types
<1>8. Cardinality(Listed(t)') <= kept'[t] /\ kept'[t] \in Nat
    BY <1>2, <1>5, <1>7, ListedIsFinite
<1>9. Types'
    <2>1. kept' \in [Sweepers -> Nat]
        BY <1>6, <1>8 DEF Types
    <2> QED
        BY <1>1, <2>1 DEF Types
<1>10. OneSweeper'
    BY <1>1 DEF OneSweeper
<1>11. \A m \in Names : disk'[m] # None => disk[m] # None /\ m # n
    BY <1>1 DEF Types
<1>12. Walk(t)'
    BY <1>1, <1>2, <1>4, <1>8, <1>11, SameAnswerable DEF Walks, Walk, Sweeping
<1> QED
    BY <1>1, <1>9, <1>10, <1>12, OnlyWalk DEF Sweeping

LEMMA EndSweepOnceInv ==
    ASSUME IInv, NEW t \in Sweepers, EndSweepOnce(t)
    PROVE  IInv'
<1> USE DEF IInv
<1>1. pc[t] \in Sweeping /\ disk' = disk
    BY DEF EndSweepOnce, Swept, Sweeping
<1>2. CASE Again(t)
    <2>1. pc' = [pc EXCEPT ![t] = "listing"] /\ OpenListing(t) /\ gCacheSweeping' = TRUE
        BY <1>2 DEF EndSweepOnce, Goto, StillSweeping
    <2>2. gCacheSweeping = TRUE
        BY <1>1 DEF OneSweeper
    <2>3. Types'
        BY <1>1, <2>1, OpenListingTypes DEF Types, Sweeping
    <2>4. OneSweeper'
        BY <1>1, <2>1, <2>2, StillOneSweeper DEF Sweeping
    <2>5. pc'[t] = "listing"
        BY <2>1 DEF Types
    <2> QED
        BY <2>1, <2>3, <2>4, <2>5, OpenListingWalk, OnlyWalk DEF Sweeping
<1>3. CASE ~Again(t)
    <2>1. /\ pc' = [pc EXCEPT ![t] = "idle"] /\ gCacheSweeping' = FALSE
          /\ Locals(t) /\ UNCHANGED <<unlisted, missed>>
        BY <1>3 DEF EndSweepOnce, Goto, StillSweeping, Again
    <2>2. Types'
        BY <1>1, <2>1, LocalsTypes DEF Types
    <2>3. \A u \in Sweepers : pc'[u] \notin Sweeping
        BY <1>1, <2>1 DEF OneSweeper, Types, Sweeping
    <2> QED
        BY <2>1, <2>2, <2>3 DEF OneSweeper, Walks, Walk
<1> QED
    BY <1>2, <1>3

-----------------------------------------------------------------------------

LEMMA NextInv ==
    ASSUME IInv, [Next]_vars
    PROVE  IInv'
<1>1. ASSUME NEW t \in Threads, Note(t) \/ \E n \in Names, f \in Files : Commit(t, n, f)
      PROVE  IInv'
    BY <1>1, NoteInv, CommitInv
<1>2. ASSUME NEW n \in Names, Remove(n)
      PROVE  IInv'
    BY <1>2, RemoveInv
<1>3. ASSUME NEW t \in Sweepers, SweepStep(t)
      PROVE  IInv'
    BY <1>3, BeginSweepInv, LeaveToOtherInv, GiveUpInv, BeginEvictingInv, EndSweepOnceInv,
       ListFileInv, PassOverInv, FailToStatInv, EvictInv, FailToEvictInv DEF SweepStep
<1>4. CASE UNCHANGED vars
    <2>1. UNCHANGED <<disk, gCacheSweeping, pc, unlisted, listed, kept, fresh, missed, refused>>
        BY <1>4 DEF vars, tally, sweep, history
    <2>2. Types' /\ OneSweeper'
        BY <2>1 DEF IInv, Types, OneSweeper
    <2>3. Walks'
        BY <2>1, WalkStays, SameAnswerable DEF IInv, Walks
    <2> QED
        BY <2>2, <2>3 DEF IInv
<1> QED
    BY <1>1, <1>2, <1>3, <1>4 DEF Next

LEMMA Invariance == Spec => []IInv
<1>1. Init => IInv
    BY InitInv
<1>2. IInv /\ [Next]_vars => IInv'
    BY NextInv
<1> QED
    BY <1>1, <1>2, PTL DEF Spec

\* gCacheSweeping lets one thread in at a time, and is set for as long as it sweeps.
THEOREM OneSweepAtATime == Spec => []OneSweeper
BY Invariance, PTL DEF IInv

\* When sweepOnce ends, no more entries than kCacheEntries are left of those that it answers
\* for, or none but those it could not unlink.
LEMMA EntriesLeft ==
    ASSUME IInv, NEW t \in Sweepers, Swept(t)
    PROVE  EntriesEnforced \/ OnlyRefused
<1> DEFINE rest == {n \in Answerable : disk[n] # None}
<1>1. pc[t] \in Sweeping /\ unlisted[t] = {}
    BY DEF IInv, Walks, Walk, Swept, Sweeping
<1>2. rest \subseteq Listed(t) /\ Cardinality(Listed(t)) <= kept[t] /\ kept[t] \in Nat
    BY <1>1 DEF IInv, Walks, Walk, Types
<1>3. Cardinality(rest) \in Nat /\ Cardinality(rest) <= Cardinality(Listed(t))
    BY <1>2, ListedIsFinite, FS_Subset, FS_CardinalityType
<1>4. kept[t] <= Entries \/ Left(t) = {}
    BY <1>2, ConstantsAssumption DEF Swept, TooMany
<1>5. CASE kept[t] <= Entries
    BY <1>2, <1>3, <1>5, ListedIsFinite, ConstantsAssumption DEF EntriesEnforced
<1>6. CASE Left(t) = {}
    BY <1>2, <1>6 DEF Left, OnlyRefused
<1> QED
    BY <1>4, <1>5, <1>6

-----------------------------------------------------------------------------
(* Bytes.                                                                  *)

\* The bytes in what a listing holds.
Found(t) == [n \in Names |-> IF listed[t][n] = None THEN 0 ELSE listed[t][n]]

Counts ==
    /\ gCacheBytes \in Nat
    /\ gCacheWrittenDuringSweep \in Nat
    /\ unnoted \in [Sweepers -> Nat]
    /\ held \in [Sweepers -> Nat]

\* A thread notes its commit before it does anything else.
NotedAtOnce == \A t \in Sweepers : pc[t] # "renamed" => unnoted[t] = 0

\* A sweep holds at least what its listing does, which has the size of every file that was
\* there at opendir, still is and has been listed.
Listing(t) ==
    pc[t] \in Sweeping =>
        /\ Total(Found(t), Names) <= held[t]
        /\ \A n \in Answerable :
              disk[n] # None /\ n \in Listed(t) => listed[t][n] = Size(disk[n])

Listings == \A t \in Sweepers : Listing(t)

\* What came after opendir has been noted, or is about to be.
FreshNoted ==
    gCacheSweeping =>
        Total(DataOnDisk, fresh) <= gCacheWrittenDuringSweep + Total(unnoted, Threads)

BInv == Counts /\ NotedAtOnce /\ Listings /\ FreshNoted /\ TallyCovers

\* Pairs are what the sum counts.
LEMMA UnitsPairs ==
    ASSUME NEW f, NEW S
    PROVE  \A u : u \in Units(f, S) <=> \E x \in S : \E i \in 1..f[x] : u = <<x, i>>
BY DEF Units

LEMMA TotalType ==
    ASSUME NEW f, NEW S, IsFiniteSet(S), \A x \in S : f[x] \in Nat
    PROVE  IsFiniteSet(Units(f, S)) /\ Total(f, S) \in Nat
<1> DEFINE column == [x \in S |-> {x} \X (1..f[x])]
           columns == {{x} \X (1..f[x]) : x \in S}
<1>1. column \in Surjection(S, columns)
    BY DEF Surjection
<1>2. IsFiniteSet(columns)
    BY <1>1, FS_Surjection
<1>3. ASSUME NEW x \in S
      PROVE  IsFiniteSet({x} \X (1..f[x]))
    <2>1. f[x] \in Int /\ 1 \in Int
        BY <1>3
    <2>2. IsFiniteSet(1..f[x]) /\ IsFiniteSet({x})
        BY <2>1, FS_Interval, FS_Singleton
    <2> QED
        BY <2>2, FS_Product
<1>4. \A T \in columns : IsFiniteSet(T)
    BY <1>3
<1>5. IsFiniteSet(UNION columns)
    <2> HIDE DEF columns
    <2> QED
        BY <1>2, <1>4, FS_UNION
<1>6. IsFiniteSet(Units(f, S))
    BY <1>5 DEF Units
<1> QED
    BY <1>6, FS_CardinalityType DEF Total

LEMMA TotalEmpty == \A f : Total(f, {}) = 0
<1> SUFFICES ASSUME NEW f
             PROVE  Total(f, {}) = 0
    OBVIOUS
<1>1. Units(f, {}) = {}
    BY UnitsPairs
<1> QED
    BY <1>1, FS_EmptySet DEF Total

\* No point less, no point fewer.
LEMMA TotalMonotone ==
    ASSUME NEW f, NEW g, NEW S, NEW T, IsFiniteSet(T), S \subseteq T,
           \A x \in T : g[x] \in Nat,
           \A x \in S : f[x] \in Nat /\ f[x] <= g[x]
    PROVE  Total(f, S) <= Total(g, T)
<1>1. Units(f, S) \subseteq Units(g, T)
    <2> SUFFICES ASSUME NEW u \in Units(f, S)
                 PROVE  u \in Units(g, T)
        OBVIOUS
    <2>1. PICK x \in S : \E i \in 1..f[x] : u = <<x, i>>
        BY UnitsPairs
    <2>2. PICK i \in 1..f[x] : u = <<x, i>>
        BY <2>1
    <2>3. x \in T /\ f[x] \in Nat /\ g[x] \in Nat /\ f[x] <= g[x]
        OBVIOUS
    <2>4. i \in 1..g[x]
        BY <2>2, <2>3
    <2> QED
        BY <2>2, <2>3, <2>4, UnitsPairs
<1>2. IsFiniteSet(Units(g, T))
    BY TotalType
<1> QED
    BY <1>1, <1>2, FS_Subset DEF Total

LEMMA TotalSame ==
    ASSUME NEW f, NEW g, NEW S, \A x \in S : f[x] = g[x]
    PROVE  Total(f, S) = Total(g, S)
<1>1. \A u : u \in Units(f, S) <=> u \in Units(g, S)
    BY UnitsPairs
<1>2. Units(f, S) = Units(g, S)
    BY <1>1
<1> QED
    BY <1>2 DEF Total

LEMMA TotalUnion ==
    ASSUME NEW f, NEW S, NEW T, IsFiniteSet(S), IsFiniteSet(T), \A x \in S \cup T : f[x] \in Nat
    PROVE  Total(f, S \cup T) <= Total(f, S) + Total(f, T)
<1>1. Units(f, S \cup T) = Units(f, S) \cup Units(f, T)
    <2>1. \A u : u \in Units(f, S \cup T) <=> u \in Units(f, S) \cup Units(f, T)
        BY UnitsPairs
    <2> QED
        BY <2>1
<1>2. /\ IsFiniteSet(Units(f, S)) /\ Total(f, S) \in Nat
      /\ IsFiniteSet(Units(f, T)) /\ Total(f, T) \in Nat
    BY TotalType
<1> DEFINE both == Units(f, S) \cap Units(f, T)
<1>3. Cardinality(both) \in Nat
    <2>1. IsFiniteSet(both)
        BY <1>2, FS_Subset
    <2> QED
        BY <2>1, FS_CardinalityType
<1>4. Cardinality(Units(f, S) \cup Units(f, T))
      = Cardinality(Units(f, S)) + Cardinality(Units(f, T)) - Cardinality(both)
    BY <1>2, FS_Union
<1>5. Total(f, S \cup T) = Total(f, S) + Total(f, T) - Cardinality(both)
    BY <1>1, <1>4 DEF Total
<1> HIDE DEF both
<1> QED
    BY <1>2, <1>3, <1>5

LEMMA FromOne ==
    ASSUME NEW n \in Nat
    PROVE  IsFiniteSet(1..n) /\ Cardinality(1..n) = n
<1>1. /\ IsFiniteSet(1..n)
      /\ Cardinality(1..n) = IF 1 > n THEN 0 ELSE n - 1 + 1
    BY FS_Interval
<1> QED
    BY <1>1

\* One point apart.
LEMMA TotalSplit ==
    ASSUME NEW f, NEW S, NEW x \in S, IsFiniteSet(S), \A y \in S : f[y] \in Nat
    PROVE  /\ Total(f, S) = Total(f, S \ {x}) + f[x]
           /\ Total(f, S) \in Nat /\ Total(f, S \ {x}) \in Nat
<1> DEFINE rest == Units(f, S \ {x})
           column == {x} \X (1..f[x])
<1>1. IsFiniteSet(S \ {x})
    BY FS_Subset
<1>2. IsFiniteSet(rest) /\ Cardinality(rest) \in Nat
    BY <1>1, TotalType DEF Total
<1>3. f[x] \in Nat
    OBVIOUS
<1>4. IsFiniteSet(column) /\ Cardinality(column) = f[x]
    <2>1. IsFiniteSet(1..f[x]) /\ Cardinality(1..f[x]) = f[x]
        BY <1>3, FromOne
    <2>2. IsFiniteSet({x}) /\ Cardinality({x}) = 1
        BY FS_Singleton
    <2> QED
        BY <1>3, <2>1, <2>2, FS_Product
<1>5. Units(f, S) = rest \cup column
    <2>1. \A u : u \in column <=> \E i \in 1..f[x] : u = <<x, i>>
        OBVIOUS
    <2>2. \A u : u \in rest <=> \E y \in S \ {x} : \E i \in 1..f[y] : u = <<y, i>>
        BY UnitsPairs
    <2>3. \A u : u \in Units(f, S) <=> u \in rest \/ u \in column
        <3> HIDE DEF rest, column
        <3> QED
            BY <2>1, <2>2, UnitsPairs
    <2> QED
        BY <2>3
<1>6. rest \cap column = {}
    <2>1. \A u \in column : u[1] = x
        OBVIOUS
    <2>2. \A u \in rest : u[1] # x
        BY UnitsPairs
    <2> QED
        BY <2>1, <2>2
<1>7. Cardinality(rest \cup column)
      = Cardinality(rest) + Cardinality(column) - Cardinality(rest \cap column)
    BY <1>2, <1>4, FS_Union
<1>8. Cardinality(rest \cap column) = 0
    BY <1>6, FS_EmptySet
<1>9. Total(f, S) \in Nat
    BY TotalType
<1> QED
    BY <1>2, <1>4, <1>5, <1>7, <1>8, <1>9 DEF Total

\* One point changed.
LEMMA TotalChange ==
    ASSUME NEW f, NEW g, NEW S, NEW x \in S, IsFiniteSet(S),
           \A y \in S : f[y] \in Nat /\ g[y] \in Nat,
           \A y \in S : y # x => g[y] = f[y]
    PROVE  /\ Total(g, S) + f[x] = Total(f, S) + g[x]
           /\ Total(f, S) \in Nat /\ Total(g, S) \in Nat
<1>1. /\ Total(f, S) = Total(f, S \ {x}) + f[x] /\ Total(f, S) \in Nat
      /\ Total(f, S \ {x}) \in Nat
    BY TotalSplit
<1>2. Total(g, S) = Total(g, S \ {x}) + g[x] /\ Total(g, S) \in Nat
    BY TotalSplit
<1>3. Total(g, S \ {x}) = Total(f, S \ {x})
    BY TotalSame
<1> DEFINE a == Total(f, S \ {x})
<1>4. f[x] \in Nat /\ g[x] \in Nat
    OBVIOUS
<1> HIDE DEF a
<1> QED
    BY <1>1, <1>2, <1>3, <1>4

-----------------------------------------------------------------------------
(* What the sums are of.                                                   *)

LEMMA SumTypes ==
    ASSUME IInv, BInv
    PROVE  /\ IsFiniteSet(Names) /\ IsFiniteSet(Threads) /\ IsFiniteSet(fresh)
           /\ \A n \in Names : /\ DataOnDisk[n] \in Nat /\ SizeOnDisk[n] \in Nat
                               /\ DataOnDisk[n] <= SizeOnDisk[n]
           /\ \A t \in Sweepers : \A n \in Names : Found(t)[n] \in Nat
           /\ \A t \in Threads : unnoted[t] \in Nat
           /\ Total(DataOnDisk, Names \ missed) \in Nat /\ Total(DataOnDisk, fresh) \in Nat
           /\ Total(unnoted, Threads) \in Nat
           /\ \A t \in Sweepers : Total(Found(t), Names) \in Nat /\ held[t] \in Nat
<1>1. IsFiniteSet(Names) /\ IsFiniteSet(Threads)
    BY ConstantsAssumption
<1>2. fresh \subseteq Names /\ IsFiniteSet(fresh)
    BY <1>1, FS_Subset DEF IInv, Types
<1>3. ASSUME NEW n \in Names
      PROVE  /\ DataOnDisk[n] \in Nat /\ SizeOnDisk[n] \in Nat
             /\ DataOnDisk[n] <= SizeOnDisk[n]
    <2>1. disk[n] = None \/ disk[n] \in Files
        BY <1>3 DEF IInv, Types
    <2>2. disk[n] \in Files =>
              Data(disk[n]) \in Nat /\ Metadata(disk[n]) \in Nat
        BY ConstantsAssumption
    <2> QED
        BY <2>1, <2>2 DEF DataOnDisk, SizeOnDisk, Size
<1>4. ASSUME NEW t \in Sweepers, NEW n \in Names
      PROVE  Found(t)[n] \in Nat
    BY <1>4 DEF Found, IInv, Types
<1>5. \A t \in Threads : unnoted[t] \in Nat
    BY DEF BInv, Counts, Sweepers
<1>6. /\ Total(DataOnDisk, Names \ missed) \in Nat /\ Total(DataOnDisk, fresh) \in Nat
      /\ Total(unnoted, Threads) \in Nat
    <2>1. IsFiniteSet(Names \ missed)
        BY <1>1, FS_Subset
    <2> QED
        BY <1>1, <1>2, <1>3, <1>5, <2>1, TotalType
<1>7. \A t \in Sweepers : Total(Found(t), Names) \in Nat
    BY <1>1, <1>4, TotalType
<1>8. \A t \in Sweepers : held[t] \in Nat
    BY DEF BInv, Counts
<1> QED
    BY <1>1, <1>2, <1>3, <1>4, <1>5, <1>6, <1>7, <1>8

LEMMA InitB ==
    ASSUME Init
    PROVE  BInv
<1>1. Counts
    BY DEF Init, Counts
<1>2. NotedAtOnce
    BY DEF Init, NotedAtOnce
<1>3. \A t \in Sweepers : pc[t] \notin Sweeping
    BY DEF Init, Sweeping, Sweepers
<1>4. Listings
    BY <1>3 DEF Listings, Listing
<1>5. FreshNoted /\ TallyCovers
    BY DEF Init, FreshNoted, TallyCovers
<1> QED
    BY <1>1, <1>2, <1>4, <1>5 DEF BInv

-----------------------------------------------------------------------------
(* Other threads.                                                          *)

\* A listing stays true if what was there at opendir and still is has not changed.
LEMMA ListingStays ==
    ASSUME NEW t \in Sweepers, Listing(t),
           pc'[t] = pc[t] \/ pc'[t] \notin Sweeping,
           UNCHANGED <<listed, held>>,
           Answerable' \subseteq Answerable,
           \A n \in Answerable' : disk'[n] # None => disk'[n] = disk[n]
    PROVE  Listing(t)'
<1> SUFFICES ASSUME pc'[t] \in Sweeping
             PROVE  /\ Total(Found(t)', Names) <= held'[t]
                    /\ \A n \in Answerable' : disk'[n] # None /\ n \in Listed(t)'
                                                 => listed'[t][n] = Size(disk'[n])
    BY DEF Listing
<1>1. pc[t] \in Sweeping
    OBVIOUS
<1>2. Found(t)' = Found(t) /\ Listed(t)' = Listed(t)
    BY DEF Found, Listed
<1> QED
    BY <1>1, <1>2 DEF Listing

\* A commit adds no more to the directory than it has to note.
LEMMA CommitB ==
    ASSUME IInv, BInv, NEW t \in Threads, NEW n \in Names, NEW f \in Files, Commit(t, n, f)
    PROVE  BInv'
<1>1. /\ UNCHANGED <<gCacheBytes, gCacheWrittenDuringSweep, gCacheCounted, gCacheSweeping,
                     listed, held>>
      /\ t \in Sweepers /\ pc[t] = "idle" /\ pc' = [pc EXCEPT ![t] = "renamed"]
      /\ disk' = [disk EXCEPT ![n] = f] /\ fresh' = fresh \cup {n} /\ missed' = missed \ {n}
      /\ unnoted' = [unnoted EXCEPT ![t] = Data(f)]
    BY DEF Commit, Goto, tally, sweep, history, Sweepers
<1>2. Data(f) \in Nat /\ f # None
    BY ConstantsAssumption
<1>3. /\ \A m \in Names : disk'[m] = IF m = n THEN f ELSE disk[m]
      /\ \A u \in Sweepers : unnoted'[u] = IF u = t THEN Data(f) ELSE unnoted[u]
      /\ \A u \in Sweepers : pc'[u] = IF u = t THEN "renamed" ELSE pc[u]
      /\ unnoted[t] = 0 /\ unnoted \in [Sweepers -> Nat]
    BY <1>1 DEF IInv, Types, BInv, Counts, NotedAtOnce
<1>4. Counts'
    BY <1>1, <1>2 DEF BInv, Counts
<1>5. NotedAtOnce'
    BY <1>3 DEF BInv, NotedAtOnce
<1>6. Listings'
    <2>1. \A u \in Sweepers : pc'[u] = pc[u] \/ pc'[u] \notin Sweeping
        BY <1>3 DEF Sweeping
    <2>2. \A m \in Answerable' : disk'[m] # None => disk'[m] = disk[m]
        BY <1>1, <1>3 DEF Answerable
    <2>3. Answerable' \subseteq Answerable
        BY <1>1 DEF Answerable
    <2> QED
        BY <1>1, <2>1, <2>2, <2>3, ListingStays DEF BInv, Listings
<1>7. /\ \A m \in Names : DataOnDisk[m] \in Nat /\ DataOnDisk'[m] \in Nat
      /\ \A m \in Names : m # n => DataOnDisk'[m] = DataOnDisk[m]
      /\ DataOnDisk'[n] = Data(f)
    <2>1. \A m \in Names : DataOnDisk'[m] = IF disk'[m] = None THEN 0 ELSE Data(disk'[m])
        BY DEF DataOnDisk
    <2>2. \A m \in Names : m # n => DataOnDisk'[m] = DataOnDisk[m]
        BY <1>3, <2>1 DEF DataOnDisk
    <2>3. DataOnDisk'[n] = Data(f)
        BY <1>2, <1>3, <2>1
    <2> QED
        BY <1>2, <2>2, <2>3, SumTypes
<1>8. Total(unnoted', Threads) = Total(unnoted, Threads) + Data(f) /\ Total(unnoted, Threads) \in Nat
    <2>1. /\ IsFiniteSet(Threads)
          /\ \A u \in Threads : unnoted[u] \in Nat /\ unnoted'[u] \in Nat
          /\ \A u \in Threads : u # t => unnoted'[u] = unnoted[u]
          /\ unnoted[t] = 0 /\ unnoted'[t] = Data(f)
        BY <1>1, <1>2, <1>3, ConstantsAssumption DEF Sweepers
    <2>2. Total(unnoted', Threads) + unnoted[t] = Total(unnoted, Threads) + unnoted'[t]
          /\ Total(unnoted, Threads) \in Nat /\ Total(unnoted', Threads) \in Nat
        BY <2>1, TotalChange
    <2> QED
        BY <2>1, <2>2
<1>9. ASSUME NEW S, S \subseteq Names, n \in S
      PROVE  Total(DataOnDisk', S) <= Total(DataOnDisk, S \ {n}) + Data(f)
             /\ Total(DataOnDisk, S \ {n}) \in Nat /\ Total(DataOnDisk', S) \in Nat
    <2>1. IsFiniteSet(S) /\ IsFiniteSet(S \ {n})
        BY <1>9, ConstantsAssumption, FS_Subset
    <2>2. \A m \in S : DataOnDisk'[m] \in Nat
        BY <1>7, <1>9
    <2>3. Total(DataOnDisk', S) = Total(DataOnDisk', S \ {n}) + DataOnDisk'[n]
          /\ Total(DataOnDisk', S) \in Nat
        BY <1>9, <2>1, <2>2, TotalSplit
    <2>4. Total(DataOnDisk', S \ {n}) = Total(DataOnDisk, S \ {n})
        <3>1. \A m \in S \ {n} : DataOnDisk'[m] = DataOnDisk[m]
            BY <1>7, <1>9
        <3> QED
            BY <3>1, TotalSame
    <2>5. Total(DataOnDisk, S \ {n}) \in Nat
        <3>1. \A m \in S \ {n} : DataOnDisk[m] \in Nat
            BY <1>7, <1>9
        <3> QED
            BY <2>1, <3>1, TotalType
    <2> QED
        BY <1>2, <1>7, <2>3, <2>4, <2>5
<1>10. ASSUME NEW S, NEW T, S \subseteq Names, T \subseteq Names, n \in S, S \ {n} \subseteq T
       PROVE  Total(DataOnDisk', S) <= Total(DataOnDisk, T) + Data(f)
              /\ Total(DataOnDisk, T) \in Nat /\ Total(DataOnDisk', S) \in Nat
    <2>1. Total(DataOnDisk', S) <= Total(DataOnDisk, S \ {n}) + Data(f)
          /\ Total(DataOnDisk, S \ {n}) \in Nat /\ Total(DataOnDisk', S) \in Nat
        BY <1>9, <1>10
    <2>2. IsFiniteSet(T) /\ \A m \in T : DataOnDisk[m] \in Nat
        BY <1>7, <1>10, ConstantsAssumption, FS_Subset
    <2>3. \A m \in S \ {n} : DataOnDisk[m] \in Nat /\ DataOnDisk[m] <= DataOnDisk[m]
        BY <1>7, <1>10
    <2>4. Total(DataOnDisk, S \ {n}) <= Total(DataOnDisk, T) /\ Total(DataOnDisk, T) \in Nat
        BY <1>10, <2>2, <2>3, TotalMonotone, TotalType
    <2> QED
        BY <1>2, <2>1, <2>4
<1>11. FreshNoted'
    <2>1. fresh \subseteq Names
        BY DEF IInv, Types
    <2>2. Total(DataOnDisk', fresh') <= Total(DataOnDisk, fresh) + Data(f)
          /\ Total(DataOnDisk, fresh) \in Nat /\ Total(DataOnDisk', fresh') \in Nat
        <3>1. fresh' \subseteq Names /\ n \in fresh' /\ fresh' \ {n} \subseteq fresh
            BY <1>1, <2>1
        <3> QED
            BY <2>1, <3>1, <1>10
    <2>3. gCacheWrittenDuringSweep \in Nat
        BY DEF BInv, Counts
    <2> QED
        BY <1>1, <1>2, <1>8, <2>2, <2>3 DEF BInv, FreshNoted
<1>12. TallyCovers'
    <2>1. Total(DataOnDisk', Names \ missed') <= Total(DataOnDisk, Names \ missed) + Data(f)
          /\ Total(DataOnDisk, Names \ missed) \in Nat /\ Total(DataOnDisk', Names \ missed') \in Nat
        <3>1. /\ Names \ missed \subseteq Names /\ Names \ missed' \subseteq Names
              /\ n \in Names \ missed' /\ (Names \ missed') \ {n} \subseteq Names \ missed
            BY <1>1
        <3> QED
            BY <3>1, <1>10
    <2>2. gCacheBytes \in Nat
        BY DEF BInv, Counts
    <2> QED
        BY <1>1, <1>2, <1>8, <2>1, <2>2 DEF BInv, TallyCovers
<1> QED
    BY <1>4, <1>5, <1>6, <1>11, <1>12 DEF BInv

\* Nothing is added to the directory.
LEMMA TotalsStay ==
    ASSUME IInv, BInv,
           UNCHANGED <<gCacheBytes, gCacheWrittenDuringSweep, gCacheCounted, gCacheSweeping,
                       unnoted, fresh>>,
           gCacheSweeping \/ UNCHANGED missed,
           \A n \in Names : disk'[n] = disk[n] \/ disk'[n] = None
    PROVE  FreshNoted' /\ TallyCovers'
<1>1. ASSUME NEW n \in Names
      PROVE  DataOnDisk'[n] \in Nat /\ DataOnDisk'[n] <= DataOnDisk[n] /\ DataOnDisk[n] \in Nat
    <2>1. DataOnDisk'[n] = IF disk'[n] = None THEN 0 ELSE Data(disk'[n])
        BY DEF DataOnDisk
    <2>2. DataOnDisk[n] = IF disk[n] = None THEN 0 ELSE Data(disk[n])
        BY DEF DataOnDisk
    <2>3. DataOnDisk[n] \in Nat
        BY SumTypes
    <2> QED
        BY <2>1, <2>2, <2>3
<1>2. ASSUME NEW S, S \subseteq Names
      PROVE  /\ Total(DataOnDisk', S) <= Total(DataOnDisk, S)
             /\ Total(DataOnDisk', S) \in Nat /\ Total(DataOnDisk, S) \in Nat
    <2>1. IsFiniteSet(S)
        BY <1>2, ConstantsAssumption, FS_Subset
    <2>2. \A n \in S : DataOnDisk'[n] \in Nat /\ DataOnDisk'[n] <= DataOnDisk[n] /\ DataOnDisk[n] \in Nat
        BY <1>1, <1>2
    <2> QED
        BY <2>1, <2>2, TotalMonotone, TotalType
<1>3. fresh \subseteq Names
    BY DEF IInv, Types
<1>4. /\ Total(DataOnDisk', fresh) <= Total(DataOnDisk, fresh)
      /\ Total(DataOnDisk', fresh) \in Nat /\ Total(DataOnDisk, fresh) \in Nat
    BY <1>2, <1>3
<1>5. /\ Total(DataOnDisk', Names \ missed) <= Total(DataOnDisk, Names \ missed)
      /\ Total(DataOnDisk', Names \ missed) \in Nat /\ Total(DataOnDisk, Names \ missed) \in Nat
    BY <1>2
<1>6. /\ gCacheBytes \in Nat /\ gCacheWrittenDuringSweep \in Nat
      /\ Total(unnoted, Threads) \in Nat
    BY SumTypes DEF BInv, Counts
<1>7. FreshNoted'
    BY <1>4, <1>6 DEF BInv, FreshNoted
<1>8. TallyCovers'
    BY <1>5, <1>6 DEF BInv, TallyCovers
<1> QED
    BY <1>7, <1>8

LEMMA RemoveB ==
    ASSUME IInv, BInv, NEW n \in Names, Remove(n)
    PROVE  BInv'
<1>1. /\ UNCHANGED <<gCacheBytes, gCacheWrittenDuringSweep, gCacheCounted, gCacheSweeping, pc,
                     unnoted, unlisted, listed, held, fresh, missed, refused>>
      /\ \A m \in Names : disk'[m] = disk[m] \/ disk'[m] = None
    BY DEF Remove, tally, sweep, history, IInv, Types
<1>2. Counts' /\ NotedAtOnce'
    BY <1>1 DEF BInv, Counts, NotedAtOnce
<1>3. Listings'
    BY <1>1, ListingStays, SameAnswerable DEF BInv, Listings, Answerable
<1>4. FreshNoted' /\ TallyCovers'
    BY <1>1, TotalsStay
<1> QED
    BY <1>2, <1>3, <1>4 DEF BInv

\* A commit that is noted is counted where it was missing.
LEMMA NoteB ==
    ASSUME IInv, BInv, NEW t \in Threads, Note(t)
    PROVE  BInv'
<1>1. /\ UNCHANGED <<disk, gCacheCounted, gCacheSweeping, listed, held, fresh, missed, refused>>
      /\ t \in Sweepers /\ pc[t] = "renamed"
      /\ unnoted' = [unnoted EXCEPT ![t] = 0]
    BY DEF Note, sweep, history, Sweepers
<1>2. /\ \A u \in Sweepers : unnoted'[u] = IF u = t THEN 0 ELSE unnoted[u]
      /\ unnoted \in [Sweepers -> Nat]
    BY <1>1 DEF BInv, Counts
<1>3. /\ pc'[t] \in {"due", "idle"}
      /\ \A u \in Sweepers : u # t => pc'[u] = pc[u]
    BY <1>1 DEF Note, Goto, IInv, Types
<1>4. /\ gCacheSweeping => /\ gCacheWrittenDuringSweep' = gCacheWrittenDuringSweep + unnoted[t]
                           /\ gCacheBytes' = gCacheBytes
      /\ ~gCacheSweeping => /\ gCacheBytes' = gCacheBytes + unnoted[t]
                            /\ gCacheWrittenDuringSweep' = gCacheWrittenDuringSweep
    BY DEF Note, NotedDuringSweep
<1>5. unnoted[t] \in Nat /\ gCacheBytes \in Nat /\ gCacheWrittenDuringSweep \in Nat
    BY <1>1, <1>2 DEF BInv, Counts
<1>6. Counts'
    <2>1. gCacheBytes' \in Nat /\ gCacheWrittenDuringSweep' \in Nat
        BY <1>4, <1>5
    <2>2. unnoted' \in [Sweepers -> Nat]
        BY <1>1, <1>2
    <2> QED
        BY <1>1, <2>1, <2>2 DEF BInv, Counts
<1>7. NotedAtOnce'
    BY <1>2, <1>3 DEF BInv, NotedAtOnce
<1>8. Listings'
    <2>1. \A u \in Sweepers : pc'[u] = pc[u] \/ pc'[u] \notin Sweeping
        BY <1>3 DEF Sweeping
    <2> QED
        BY <1>1, <2>1, ListingStays, SameAnswerable DEF BInv, Listings
<1>9. /\ Total(unnoted', Threads) + unnoted[t] = Total(unnoted, Threads)
      /\ Total(unnoted, Threads) \in Nat /\ Total(unnoted', Threads) \in Nat
    <2>1. /\ IsFiniteSet(Threads)
          /\ \A u \in Threads : unnoted[u] \in Nat /\ unnoted'[u] \in Nat
          /\ \A u \in Threads : u # t => unnoted'[u] = unnoted[u]
          /\ unnoted'[t] = 0
        BY <1>1, <1>2, ConstantsAssumption DEF Sweepers
    <2>2. Total(unnoted', Threads) + unnoted[t] = Total(unnoted, Threads) + unnoted'[t]
          /\ Total(unnoted, Threads) \in Nat /\ Total(unnoted', Threads) \in Nat
        BY <2>1, TotalChange
    <2> QED
        BY <1>5, <2>1, <2>2
<1>10. DataOnDisk' = DataOnDisk
    BY <1>1 DEF DataOnDisk
<1>11. Total(DataOnDisk, fresh) \in Nat /\ Total(DataOnDisk, Names \ missed) \in Nat
    BY SumTypes
<1>12. FreshNoted'
    BY <1>1, <1>4, <1>5, <1>9, <1>10, <1>11 DEF BInv, FreshNoted
<1>13. TallyCovers'
    BY <1>1, <1>4, <1>5, <1>9, <1>10, <1>11 DEF BInv, TallyCovers
<1> QED
    BY <1>6, <1>7, <1>8, <1>12, <1>13 DEF BInv

LEMMA LeaveToOtherB ==
    ASSUME IInv, BInv, NEW t \in Sweepers, LeaveToOther(t)
    PROVE  BInv'
<1>1. /\ UNCHANGED <<disk, gCacheBytes, gCacheWrittenDuringSweep, gCacheCounted, gCacheSweeping,
                     unnoted, listed, held, fresh, missed, refused>>
      /\ pc[t] = "due" /\ pc' = [pc EXCEPT ![t] = "idle"]
    BY DEF LeaveToOther, Goto, tally, sweep, history
<1>2. \A u \in Sweepers : pc'[u] = IF u = t THEN "idle" ELSE pc[u]
    BY <1>1 DEF IInv, Types
<1>3. Counts' /\ NotedAtOnce'
    BY <1>1, <1>2 DEF BInv, Counts, NotedAtOnce
<1>4. \A u \in Sweepers : pc'[u] = pc[u] \/ pc'[u] \notin Sweeping
    BY <1>2 DEF Sweeping
<1>5. Listings'
    BY <1>1, <1>4, ListingStays, SameAnswerable DEF BInv, Listings
<1>6. FreshNoted' /\ TallyCovers'
    BY <1>1, TotalsStay
<1> QED
    BY <1>3, <1>5, <1>6 DEF BInv

-----------------------------------------------------------------------------
(* The sweep.                                                              *)

LEMMA OnlyListing ==
    ASSUME OneSweeper', NEW t \in Sweepers, pc'[t] \in Sweeping, Listing(t)'
    PROVE  Listings'
BY DEF OneSweeper, Listings, Listing

\* After opendir nothing is listed and nothing is fresh.
LEMMA OpenListingB ==
    ASSUME IInv, BInv, NEW t \in Sweepers, OpenListing(t)
    PROVE  /\ Listing(t)' /\ Total(DataOnDisk', fresh') = 0
           /\ held' \in [Sweepers -> Nat]
<1>1. /\ listed'[t] = NoListing /\ held'[t] = 0 /\ fresh' = {}
      /\ held' \in [Sweepers -> Nat]
    BY DEF OpenListing, Locals, IInv, Types, BInv, Counts
<1>2. /\ \A n \in Names : Found(t)'[n] = 0
      /\ Listed(t)' = {}
    BY <1>1 DEF Found, Listed, NoListing
<1>3. Total(Found(t)', Names) = 0
    <2>1. Units(Found(t)', Names) = {}
        <3>1. \A n \in Names : 1..Found(t)'[n] = {}
            BY <1>2
        <3> QED
            BY <3>1, UnitsPairs
    <2> QED
        BY <2>1, FS_EmptySet DEF Total
<1>4. Listing(t)'
    BY <1>1, <1>2, <1>3 DEF Listing
<1>5. Total(DataOnDisk', fresh') = 0
    BY <1>1, TotalEmpty
<1> QED
    BY <1>1, <1>4, <1>5

LEMMA BeginSweepB ==
    ASSUME IInv, BInv, NEW t \in Sweepers, BeginSweep(t)
    PROVE  BInv'
<1>1. /\ UNCHANGED <<disk, gCacheBytes, gCacheWrittenDuringSweep, gCacheCounted, unnoted>>
      /\ pc[t] = "due" /\ pc' = [pc EXCEPT ![t] = "listing"] /\ gCacheSweeping' = TRUE
      /\ OpenListing(t)
    BY DEF BeginSweep, Goto
<1>2. \A u \in Sweepers : pc'[u] = IF u = t THEN "listing" ELSE pc[u]
    BY <1>1 DEF IInv, Types
<1>3. Counts' /\ NotedAtOnce'
    BY <1>1, <1>2, OpenListingB DEF BInv, Counts, NotedAtOnce
<1>4. Listings'
    <2>1. OneSweeper'
        BY BeginSweepInv DEF IInv
    <2> QED
        BY <1>1, <1>2, <2>1, OpenListingB, OnlyListing DEF Sweeping
<1>5. FreshNoted'
    <2>1. gCacheWrittenDuringSweep \in Nat /\ Total(unnoted, Threads) \in Nat
        BY SumTypes DEF BInv, Counts
    <2> QED
        BY <1>1, <2>1, OpenListingB DEF FreshNoted
<1>6. TallyCovers'
    BY <1>1 DEF TallyCovers
<1> QED
    BY <1>3, <1>4, <1>5, <1>6 DEF BInv

\* What is listed is added to what is held.
LEMMA ListFileB ==
    ASSUME IInv, BInv, NEW t \in Sweepers, NEW n \in Names, ListFile(t, n)
    PROVE  BInv'
<1> DEFINE size == Size(disk[n])
<1>1. /\ UNCHANGED <<disk, gCacheBytes, gCacheWrittenDuringSweep, gCacheCounted, gCacheSweeping,
                     pc, unnoted, fresh, missed, refused>>
      /\ pc[t] = "listing" /\ disk[n] # None
      /\ listed' = [listed EXCEPT ![t][n] = size]
      /\ held' = [held EXCEPT ![t] = @ + size]
    BY DEF ListFile, tally, history
<1>2. size \in Nat
    BY <1>1, SizeType DEF IInv, Types
<1>3. size = Size(disk[n])
    OBVIOUS
<1> HIDE DEF size
<1>4. /\ \A m \in Names : listed'[t][m] = IF m = n THEN size ELSE listed[t][m]
      /\ held'[t] = held[t] + size /\ held[t] \in Nat
    BY <1>1 DEF IInv, Types, BInv, Counts
<1>5. Counts' /\ NotedAtOnce'
    <2>1. held' \in [Sweepers -> Nat]
        BY <1>1, <1>2 DEF BInv, Counts
    <2> QED
        BY <1>1, <2>1 DEF BInv, Counts, NotedAtOnce
<1>6. Total(Found(t)', Names) <= held'[t]
    <2>1. /\ \A m \in Names : Found(t)[m] \in Nat /\ Found(t)'[m] \in Nat
          /\ \A m \in Names : m # n => Found(t)'[m] = Found(t)[m]
          /\ Found(t)'[n] = size
        <3>1. \A m \in Names : Found(t)'[m] = IF listed'[t][m] = None THEN 0 ELSE listed'[t][m]
            BY DEF Found
        <3>2. \A m \in Names : m # n => Found(t)'[m] = Found(t)[m]
            BY <1>4, <3>1 DEF Found
        <3>3. Found(t)'[n] = size
            BY <1>2, <1>4, <3>1, ConstantsAssumption
        <3> QED
            BY <1>2, <3>2, <3>3, SumTypes
    <2>2. /\ Total(Found(t)', Names) + Found(t)[n] = Total(Found(t), Names) + Found(t)'[n]
          /\ Total(Found(t), Names) \in Nat /\ Total(Found(t)', Names) \in Nat
        <3> DEFINE f == Found(t)
                   g == Found(t)'
        <3>1. /\ \A m \in Names : f[m] \in Nat /\ g[m] \in Nat
              /\ \A m \in Names : m # n => g[m] = f[m]
              /\ IsFiniteSet(Names)
            BY <2>1, ConstantsAssumption
        <3> HIDE DEF f, g
        <3>2. /\ Total(g, Names) + f[n] = Total(f, Names) + g[n]
              /\ Total(f, Names) \in Nat /\ Total(g, Names) \in Nat
            BY <3>1, TotalChange
        <3> QED
            BY <3>2 DEF f, g
    <2>3. Total(Found(t), Names) <= held[t]
        BY <1>1 DEF BInv, Listings, Listing, Sweeping
    <2>4. Found(t)[n] \in Nat
        BY <2>1
    <2> QED
        BY <1>2, <1>4, <2>1, <2>2, <2>3, <2>4
<1>7. Listing(t)'
    <2>1. \A m \in Answerable : disk[m] # None /\ m \in Listed(t)' => listed'[t][m] = Size(disk[m])
        <3> SUFFICES ASSUME NEW m \in Answerable, disk[m] # None, m \in Listed(t)'
                     PROVE  listed'[t][m] = Size(disk[m])
            OBVIOUS
        <3>1. CASE m = n
            BY <1>3, <1>4, <3>1
        <3>2. CASE m # n
            <4>1. m \in Listed(t) /\ listed'[t][m] = listed[t][m]
                BY <1>4, <3>2 DEF Listed, Answerable
            <4> QED
                BY <1>1, <4>1 DEF BInv, Listings, Listing, Sweeping
        <3> QED
            BY <3>1, <3>2
    <2> QED
        BY <1>1, <1>6, <2>1, SameAnswerable DEF Listing
<1>8. Listings'
    <2>1. OneSweeper'
        BY ListFileInv DEF IInv
    <2> QED
        BY <1>1, <1>7, <2>1, OnlyListing DEF Sweeping
<1>9. FreshNoted' /\ TallyCovers'
    BY <1>1, TotalsStay
<1> QED
    BY <1>5, <1>8, <1>9 DEF BInv

LEMMA PassOverB ==
    ASSUME IInv, BInv, NEW t \in Sweepers, NEW n \in Names, PassOver(t, n)
    PROVE  BInv'
<1>1. UNCHANGED <<disk, gCacheBytes, gCacheWrittenDuringSweep, gCacheCounted, gCacheSweeping,
                  pc, unnoted, listed, held, fresh, missed, refused>>
    BY DEF PassOver, tally, history
<1>2. Counts' /\ NotedAtOnce'
    BY <1>1 DEF BInv, Counts, NotedAtOnce
<1>3. Listings'
    BY <1>1, ListingStays, SameAnswerable DEF BInv, Listings, Answerable
<1>4. FreshNoted' /\ TallyCovers'
    BY <1>1, TotalsStay
<1> QED
    BY <1>2, <1>3, <1>4 DEF BInv

LEMMA OverlookB ==
    ASSUME IInv, BInv, NEW t \in Sweepers, NEW names, names \subseteq Names, Overlook(t, names)
    PROVE  BInv'
<1>1. /\ UNCHANGED <<disk, gCacheBytes, gCacheWrittenDuringSweep, gCacheCounted, gCacheSweeping,
                     pc, unnoted, listed, held, fresh>>
      /\ missed' = missed \cup (names \ fresh) /\ pc[t] = "listing"
    BY DEF Overlook, tally
<1>2. Counts' /\ NotedAtOnce'
    BY <1>1 DEF BInv, Counts, NotedAtOnce
<1>3. Answerable' \subseteq Answerable /\ Answerable' \subseteq Names
    BY <1>1 DEF Answerable
<1>4. Listings'
    BY <1>1, <1>3, ListingStays DEF BInv, Listings
<1>5. gCacheSweeping
    BY <1>1 DEF IInv, OneSweeper, Sweeping
<1>6. FreshNoted' /\ TallyCovers'
    BY <1>1, <1>5, TotalsStay
<1> QED
    BY <1>2, <1>4, <1>6 DEF BInv

LEMMA FailToStatB ==
    ASSUME IInv, BInv, NEW t \in Sweepers, NEW n \in Names, FailToStat(t, n)
    PROVE  BInv'
BY OverlookB DEF FailToStat

LEMMA GiveUpB ==
    ASSUME IInv, BInv, NEW t \in Sweepers, GiveUp(t)
    PROVE  BInv'
<1>1. unlisted[t] \subseteq Names
    BY DEF IInv, Types
<1> QED
    BY <1>1, OverlookB DEF GiveUp

\* A file that could not be unlinked is still listed and held.
LEMMA FailToEvictB ==
    ASSUME IInv, BInv, NEW t \in Sweepers, NEW n \in Names, FailToEvict(t, n)
    PROVE  BInv'
<1>1. UNCHANGED <<disk, gCacheBytes, gCacheWrittenDuringSweep, gCacheCounted, gCacheSweeping,
                  pc, unnoted, listed, held, fresh, missed>>
    BY DEF FailToEvict, tally, sweep
<1>2. Counts' /\ NotedAtOnce'
    BY <1>1 DEF BInv, Counts, NotedAtOnce
<1>3. Listings'
    BY <1>1, ListingStays, SameAnswerable DEF BInv, Listings, Answerable
<1>4. FreshNoted' /\ TallyCovers'
    BY <1>1, TotalsStay
<1> QED
    BY <1>2, <1>3, <1>4 DEF BInv

LEMMA BeginEvictingB ==
    ASSUME IInv, BInv, NEW t \in Sweepers, BeginEvicting(t)
    PROVE  BInv'
<1>1. /\ UNCHANGED <<disk, gCacheBytes, gCacheWrittenDuringSweep, gCacheCounted, gCacheSweeping,
                     unnoted, listed, held, fresh, missed, refused>>
      /\ pc[t] = "listing" /\ pc' = [pc EXCEPT ![t] = "evicting"]
    BY DEF BeginEvicting, Goto, tally, sweep, history
<1>2. \A u \in Sweepers : pc'[u] = IF u = t THEN "evicting" ELSE pc[u]
    BY <1>1 DEF IInv, Types
<1>3. Counts' /\ NotedAtOnce'
    BY <1>1, <1>2 DEF BInv, Counts, NotedAtOnce
<1>4. Listing(t)'
    BY <1>1, SameAnswerable DEF BInv, Listings, Listing, Found, Listed, Sweeping
<1>5. Listings'
    <2>1. OneSweeper'
        BY BeginEvictingInv DEF IInv
    <2> QED
        BY <1>2, <1>4, <2>1, OnlyListing DEF Sweeping
<1>6. FreshNoted' /\ TallyCovers'
    BY <1>1, TotalsStay
<1> QED
    BY <1>3, <1>5, <1>6 DEF BInv

\* What is unlinked is taken off what is held, and no more; what another thread removed
\* first is not.
LEMMA EvictB ==
    ASSUME IInv, BInv, NEW t \in Sweepers, NEW n \in Names, Evict(t, n)
    PROVE  BInv'
<1>1. /\ UNCHANGED <<gCacheBytes, gCacheWrittenDuringSweep, gCacheCounted, gCacheSweeping,
                     pc, unnoted, fresh, missed, refused>>
      /\ pc[t] = "evicting" /\ n \in Listed(t)
      /\ listed' = [listed EXCEPT ![t][n] = None]
      /\ disk' = [disk EXCEPT ![n] = None]
      /\ held' = held \/ held' = [held EXCEPT ![t] = @ - listed[t][n]]
    BY DEF Evict, Left, tally, history
<1>2. /\ \A m \in Names : listed'[t][m] = IF m = n THEN None ELSE listed[t][m]
      /\ \A m \in Names : disk'[m] = IF m = n THEN None ELSE disk[m]
      /\ listed[t][n] \in Nat
      /\ held[t] \in Nat
    BY <1>1 DEF IInv, Types, BInv, Counts, Listed
<1>3. /\ Total(Found(t)', Names) + listed[t][n] = Total(Found(t), Names)
      /\ Total(Found(t), Names) \in Nat /\ Total(Found(t)', Names) \in Nat
    <2> DEFINE f == Found(t)
               g == Found(t)'
    <2>1. \A m \in Names : g[m] = IF listed'[t][m] = None THEN 0 ELSE listed'[t][m]
        BY DEF Found
    <2>2. \A m \in Names : f[m] = IF listed[t][m] = None THEN 0 ELSE listed[t][m]
        BY DEF Found
    <2>3. \A m \in Names : f[m] \in Nat
        BY SumTypes
    <2>4. f[n] = listed[t][n]
        BY <1>2, <2>2, ConstantsAssumption
    <2>5. IsFiniteSet(Names)
        BY ConstantsAssumption
    <2> HIDE DEF f, g
    <2>6. g[n] = 0 /\ \A m \in Names : m # n => g[m] = f[m]
        BY <1>2, <2>1, <2>2
    <2>7. /\ Total(g, Names) + f[n] = Total(f, Names) + g[n]
          /\ Total(f, Names) \in Nat /\ Total(g, Names) \in Nat
        BY <2>3, <2>5, <2>6, TotalChange
    <2>8. Total(g, Names) + f[n] = Total(f, Names)
        BY <2>6, <2>7
    <2> QED
        BY <2>4, <2>7, <2>8 DEF f, g
<1>4. Total(Found(t), Names) <= held[t]
    BY <1>1 DEF BInv, Listings, Listing, Sweeping
<1>5. held'[t] \in {held[t], held[t] - listed[t][n]}
    BY <1>1 DEF BInv, Counts
<1>6. held'[t] \in Nat /\ Total(Found(t)', Names) <= held'[t]
    BY <1>2, <1>3, <1>4, <1>5
<1>7. Counts' /\ NotedAtOnce'
    <2>1. held' \in [Sweepers -> Nat]
        BY <1>1, <1>6 DEF BInv, Counts
    <2> QED
        BY <1>1, <2>1 DEF BInv, Counts, NotedAtOnce
<1>8. Listing(t)'
    <2>1. \A m \in Answerable : disk'[m] # None /\ m \in Listed(t)' => listed'[t][m] = Size(disk'[m])
        <3> SUFFICES ASSUME NEW m \in Answerable, disk'[m] # None, m \in Listed(t)'
                     PROVE  listed'[t][m] = Size(disk'[m])
            OBVIOUS
        <3>1. m # n /\ disk'[m] = disk[m] /\ listed'[t][m] = listed[t][m]
            BY <1>2 DEF Answerable
        <3>2. m \in Listed(t)
            BY <3>1 DEF Listed
        <3> QED
            BY <1>1, <3>1, <3>2 DEF BInv, Listings, Listing, Sweeping
    <2> QED
        BY <1>1, <1>6, <2>1, SameAnswerable DEF Listing
<1>9. Listings'
    <2>1. OneSweeper'
        BY EvictInv DEF IInv
    <2> QED
        BY <1>1, <1>8, <2>1, OnlyListing DEF Sweeping
<1>10. FreshNoted' /\ TallyCovers'
    BY <1>1, <1>2, TotalsStay
<1> QED
    BY <1>7, <1>9, <1>10 DEF BInv

\* When sweepOnce returns, what it holds covers all that was there at opendir and still is.
LEMMA SweptHolds ==
    ASSUME IInv, BInv, NEW t \in Sweepers, Swept(t)
    PROVE  /\ pc[t] \in Sweeping
           /\ Total(SizeOnDisk, Answerable) <= Total(Found(t), Names)
           /\ Total(Found(t), Names) <= held[t] /\ held[t] \in Nat
           /\ Total(SizeOnDisk, Answerable) \in Nat /\ Total(Found(t), Names) \in Nat
<1>1. pc[t] \in Sweeping /\ unlisted[t] = {}
    BY DEF IInv, Walks, Walk, Swept, Sweeping
<1>2. Total(Found(t), Names) <= held[t]
    BY <1>1 DEF BInv, Listings, Listing
<1>3. ASSUME NEW n \in Answerable
      PROVE  SizeOnDisk[n] \in Nat /\ SizeOnDisk[n] <= Found(t)[n]
    <2>0. n \in Names
        BY DEF Answerable
    <2>1. SizeOnDisk[n] \in Nat /\ Found(t)[n] \in Nat
        BY <2>0, SumTypes
    <2>2. CASE disk[n] = None
        <3>1. SizeOnDisk[n] = 0
            BY <2>0, <2>2 DEF SizeOnDisk
        <3> QED
            BY <2>1, <3>1
    <2>3. CASE disk[n] # None
        <3>1. n \in Listed(t)
            BY <1>1, <2>3 DEF IInv, Walks, Walk
        <3>2. listed[t][n] = Size(disk[n])
            BY <1>1, <2>3, <3>1 DEF BInv, Listings, Listing
        <3>3. SizeOnDisk[n] = Size(disk[n]) /\ Found(t)[n] = listed[t][n]
            BY <2>0, <2>3, <3>1 DEF SizeOnDisk, Found, Listed
        <3> QED
            BY <2>1, <3>2, <3>3
    <2> QED
        BY <2>2, <2>3
<1>4. IsFiniteSet(Names) /\ IsFiniteSet(Answerable) /\ \A n \in Names : Found(t)[n] \in Nat
    BY SumTypes, FS_Subset DEF Answerable
<1>5. Total(SizeOnDisk, Answerable) <= Total(Found(t), Names)
    <2> DEFINE S == Answerable
               f == SizeOnDisk
               g == Found(t)
    <2>1. /\ S \subseteq Names /\ \A n \in Names : g[n] \in Nat
          /\ \A n \in S : f[n] \in Nat /\ f[n] <= g[n]
        BY <1>3, <1>4 DEF Answerable
    <2> HIDE DEF S, f, g
    <2>2. Total(f, S) <= Total(g, Names)
        BY <1>4, <2>1, TotalMonotone
    <2> QED
        BY <2>2 DEF S, f, g
<1>6. Total(SizeOnDisk, Answerable) \in Nat
    BY <1>3, <1>4, TotalType
<1>7. Total(Found(t), Names) \in Nat /\ held[t] \in Nat
    BY SumTypes
<1> QED
    BY <1>1, <1>2, <1>5, <1>6, <1>7

\* So does the total, once what was written during the sweep is added to it.
LEMMA TotalCovers ==
    ASSUME IInv, BInv, NEW t \in Sweepers, Swept(t)
    PROVE  Total(DataOnDisk, Names \ missed)
           <= held[t] + gCacheWrittenDuringSweep + Total(unnoted, Threads)
<1>1. IsFiniteSet(Names) /\ fresh \subseteq Names /\ IsFiniteSet(Answerable) /\ IsFiniteSet(fresh)
    BY SumTypes, FS_Subset DEF IInv, Types, Answerable
<1>2. \A n \in Names : /\ DataOnDisk[n] \in Nat /\ SizeOnDisk[n] \in Nat
                       /\ DataOnDisk[n] <= SizeOnDisk[n]
    BY SumTypes
<1>3. Total(DataOnDisk, Names \ missed) <= Total(DataOnDisk, Answerable) + Total(DataOnDisk, fresh)
    <2>1. /\ Names \ missed \subseteq Answerable \cup fresh /\ Answerable \cup fresh \subseteq Names
          /\ IsFiniteSet(Answerable \cup fresh)
        BY <1>1, FS_Subset DEF Answerable
    <2>2. \A n \in Answerable \cup fresh : DataOnDisk[n] \in Nat /\ DataOnDisk[n] <= DataOnDisk[n]
        BY <1>2, <2>1
    <2>3. Total(DataOnDisk, Answerable \cup fresh)
          <= Total(DataOnDisk, Answerable) + Total(DataOnDisk, fresh)
        BY <1>1, <2>2, TotalUnion
    <2>4. Total(DataOnDisk, Names \ missed) <= Total(DataOnDisk, Answerable \cup fresh)
        BY <2>1, <2>2, TotalMonotone
    <2>5. /\ Total(DataOnDisk, Names \ missed) \in Nat /\ Total(DataOnDisk, fresh) \in Nat
          /\ Total(DataOnDisk, Answerable \cup fresh) \in Nat
          /\ Total(DataOnDisk, Answerable) \in Nat
        BY <1>1, <2>1, <2>2, SumTypes, TotalType
    <2> QED
        BY <2>3, <2>4, <2>5
<1>4. Total(DataOnDisk, Answerable) <= Total(SizeOnDisk, Answerable)
      /\ Total(DataOnDisk, Answerable) \in Nat
    <2> DEFINE S == Answerable
    <2>1. \A n \in S : /\ SizeOnDisk[n] \in Nat /\ DataOnDisk[n] \in Nat
                       /\ DataOnDisk[n] <= SizeOnDisk[n]
        BY <1>2 DEF Answerable
    <2>2. IsFiniteSet(S) /\ S \subseteq S
        BY <1>1
    <2> HIDE DEF S
    <2>3. Total(DataOnDisk, S) <= Total(SizeOnDisk, S) /\ Total(DataOnDisk, S) \in Nat
        BY <2>1, <2>2, TotalMonotone, TotalType
    <2> QED
        BY <2>3 DEF S
<1>5. /\ Total(SizeOnDisk, Answerable) <= Total(Found(t), Names)
      /\ Total(Found(t), Names) <= held[t] /\ held[t] \in Nat
      /\ Total(SizeOnDisk, Answerable) \in Nat /\ Total(Found(t), Names) \in Nat
      /\ pc[t] \in Sweeping
    BY SweptHolds
<1>6. gCacheSweeping = TRUE
    BY <1>5 DEF IInv, OneSweeper
<1>7. Total(DataOnDisk, fresh) <= gCacheWrittenDuringSweep + Total(unnoted, Threads)
    BY <1>6 DEF BInv, FreshNoted
<1>8. /\ gCacheWrittenDuringSweep \in Nat /\ Total(unnoted, Threads) \in Nat
      /\ Total(DataOnDisk, fresh) \in Nat /\ Total(DataOnDisk, Names \ missed) \in Nat
    BY SumTypes DEF BInv, Counts
<1> QED
    BY <1>3, <1>4, <1>5, <1>7, <1>8

LEMMA EndSweepOnceB ==
    ASSUME IInv, BInv, NEW t \in Sweepers, EndSweepOnce(t)
    PROVE  BInv'
<1>1. /\ UNCHANGED <<disk, unnoted>> /\ Swept(t)
      /\ gCacheBytes' = held[t] + gCacheWrittenDuringSweep
      /\ gCacheWrittenDuringSweep' = 0
      /\ gCacheSweeping' = StillSweeping(t)
    BY DEF EndSweepOnce
<1>2. held[t] \in Nat /\ gCacheWrittenDuringSweep \in Nat /\ pc[t] \in Sweeping
    BY <1>1, SweptHolds DEF BInv, Counts
<1>3. OneSweeper'
    BY EndSweepOnceInv DEF IInv
<1>4. CASE Again(t)
    <2>1. /\ pc' = [pc EXCEPT ![t] = "listing"] /\ OpenListing(t) /\ gCacheSweeping' = TRUE
        BY <1>4 DEF EndSweepOnce, Goto, StillSweeping
    <2>2. \A u \in Sweepers : pc'[u] = IF u = t THEN "listing" ELSE pc[u]
        BY <2>1 DEF IInv, Types
    <2>3. Counts' /\ NotedAtOnce'
        <3>1. unnoted[t] = 0
            BY <1>2 DEF BInv, NotedAtOnce, Sweeping
        <3>2. held' \in [Sweepers -> Nat]
            BY <2>1, OpenListingB
        <3> QED
            BY <1>1, <1>2, <2>2, <3>1, <3>2 DEF BInv, Counts, NotedAtOnce
    <2>4. Listings'
        BY <1>3, <2>1, <2>2, OpenListingB, OnlyListing DEF Sweeping
    <2>5. FreshNoted'
        <3>1. Total(unnoted', Threads) \in Nat
            BY <1>1, SumTypes
        <3> QED
            BY <1>1, <2>1, <3>1, OpenListingB DEF FreshNoted
    <2>6. TallyCovers'
        BY <2>1 DEF TallyCovers
    <2> QED
        BY <2>3, <2>4, <2>5, <2>6 DEF BInv
<1>5. CASE ~Again(t)
    <2>1. /\ pc' = [pc EXCEPT ![t] = "idle"] /\ gCacheSweeping' = FALSE
          /\ Locals(t) /\ UNCHANGED missed
        BY <1>5 DEF EndSweepOnce, Goto, StillSweeping, Again
    <2>2. \A u \in Sweepers : pc'[u] = IF u = t THEN "idle" ELSE pc[u]
        BY <2>1 DEF IInv, Types
    <2>3. Counts' /\ NotedAtOnce'
        <3>1. unnoted[t] = 0
            BY <1>2 DEF BInv, NotedAtOnce, Sweeping
        <3>2. held' \in [Sweepers -> Nat]
            BY <2>1 DEF Locals, BInv, Counts
        <3> QED
            BY <1>1, <1>2, <2>2, <3>1, <3>2 DEF BInv, Counts, NotedAtOnce
    <2>4. Listings'
        <3>1. \A u \in Sweepers : pc'[u] \notin Sweeping
            BY <1>3, <2>1 DEF OneSweeper
        <3> QED
            BY <3>1 DEF Listings, Listing
    <2>5. FreshNoted'
        BY <2>1 DEF FreshNoted
    <2>6. TallyCovers'
        <3>1. DataOnDisk' = DataOnDisk
            BY <1>1 DEF DataOnDisk
        <3>2. Total(DataOnDisk, Names \ missed)
              <= held[t] + gCacheWrittenDuringSweep + Total(unnoted, Threads)
            BY <1>1, TotalCovers
        <3> QED
            BY <1>1, <2>1, <3>1, <3>2 DEF TallyCovers
    <2> QED
        BY <2>3, <2>4, <2>5, <2>6 DEF BInv
<1> QED
    BY <1>4, <1>5

-----------------------------------------------------------------------------

LEMMA NextB ==
    ASSUME IInv, BInv, [Next]_vars
    PROVE  BInv'
<1>1. ASSUME NEW t \in Threads, Note(t) \/ \E n \in Names, f \in Files : Commit(t, n, f)
      PROVE  BInv'
    BY <1>1, NoteB, CommitB
<1>2. ASSUME NEW n \in Names, Remove(n)
      PROVE  BInv'
    BY <1>2, RemoveB
<1>3. ASSUME NEW t \in Sweepers, SweepStep(t)
      PROVE  BInv'
    BY <1>3, BeginSweepB, LeaveToOtherB, GiveUpB, BeginEvictingB, EndSweepOnceB,
       ListFileB, PassOverB, FailToStatB, EvictB, FailToEvictB DEF SweepStep
<1>4. CASE UNCHANGED vars
    <2>1. UNCHANGED <<disk, gCacheBytes, gCacheWrittenDuringSweep, gCacheCounted, gCacheSweeping,
                      pc, unnoted, listed, held, fresh, missed, refused>>
        BY <1>4 DEF vars, tally, sweep, history
    <2>2. Counts' /\ NotedAtOnce'
        BY <2>1 DEF BInv, Counts, NotedAtOnce
    <2>3. Listings'
        BY <2>1, ListingStays, SameAnswerable DEF BInv, Listings
    <2>4. FreshNoted' /\ TallyCovers'
        BY <2>1, TotalsStay
    <2> QED
        BY <2>2, <2>3, <2>4 DEF BInv
<1> QED
    BY <1>1, <1>2, <1>3, <1>4 DEF Next

LEMMA BytesInvariance == Spec => [](IInv /\ BInv)
<1>1. Init => IInv /\ BInv
    BY InitInv, InitB
<1>2. IInv /\ BInv /\ [Next]_vars => (IInv /\ BInv)'
    BY NextInv, NextB
<1> QED
    BY <1>1, <1>2, PTL DEF Spec

\* cacheNoteWrite and sweepOnce keep a total that is never less than the headers and bodies
\* of the files the last walk did not miss, but for what has been renamed and not yet noted:
\* a write noted during a sweep is added to what the walk found, which lacks what came after
\* opendir, and a file that could not be unlinked stays held.
THEOREM TallyNeverFallsBehind == Spec => []TallyCovers
BY BytesInvariance, PTL DEF BInv

\* When sweepOnce ends, what is left of the entries that it answers for is within
\* kCacheEntries and kCacheCapacity, whatever was removed and stored under it, unless it has
\* tried to unlink every one of them and could not.
THEOREM SweepsEnforceBounds == Spec => []SweepEnforcesBounds
<1>1. ASSUME IInv, BInv, NEW t \in Sweepers, Swept(t)
      PROVE  BytesEnforced \/ OnlyRefused
    <2>1. /\ Total(SizeOnDisk, Answerable) <= Total(Found(t), Names)
          /\ Total(Found(t), Names) <= held[t] /\ held[t] \in Nat
          /\ Total(SizeOnDisk, Answerable) \in Nat /\ Total(Found(t), Names) \in Nat
        BY <1>1, SweptHolds
    <2>2. Capacity \in Nat /\ LowWater \in Nat /\ LowWater <= Capacity
        BY ConstantsAssumption
    <2>3. held[t] <= Capacity \/ Left(t) = {}
        BY <1>1, <2>1, <2>2 DEF Swept, TooMany
    <2>4. held[t] <= Capacity => BytesEnforced
        BY <2>1, <2>2 DEF BytesEnforced
    <2>5. ASSUME Left(t) = {}
          PROVE  OnlyRefused
        <3>1. pc[t] \in Sweeping /\ unlisted[t] = {}
            BY <1>1 DEF IInv, Walks, Walk, Swept, Sweeping
        <3> QED
            BY <1>1, <2>5, <3>1 DEF IInv, Walks, Walk, Left, OnlyRefused
    <2> QED
        BY <2>3, <2>4, <2>5
<1>2. IInv /\ BInv => SweepEnforcesBounds
    BY <1>1, EntriesLeft DEF SweepEnforcesBounds
<1> QED
    BY <1>2, BytesInvariance, PTL

-----------------------------------------------------------------------------
(* What a walk can count. *)

\* A walk counts a name when it comes to it, and it comes to each once.
OnceThrough(t) == kept[t] + Cardinality(unlisted[t]) <= Cardinality(Names)

Rest ==
    /\ \A t \in Sweepers : OnceThrough(t)
    /\ gCacheCounted \in BOOLEAN
    /\ removed \in [Sweepers -> BOOLEAN]
    /\ writes \in 0..MaxWrites

LEMMA UnlistedIsFinite ==
    ASSUME Types, NEW t \in Sweepers
    PROVE  /\ IsFiniteSet(unlisted[t]) /\ Cardinality(unlisted[t]) \in Nat
           /\ Cardinality(Names) \in Nat
BY ConstantsAssumption, FS_Subset, FS_CardinalityType DEF Types

LEMMA InitRest ==
    ASSUME Init
    PROVE  Rest
<1>1. \A t \in Sweepers : kept[t] = 0 /\ unlisted[t] = {}
    BY DEF Init
<1>2. Cardinality({}) = 0 /\ Cardinality(Names) \in Nat
    BY FS_EmptySet, FS_CardinalityType, ConstantsAssumption
<1>3. ASSUME NEW t \in Sweepers
      PROVE  OnceThrough(t)
    <2>1. kept[t] = 0 /\ unlisted[t] = {}
        BY <1>1
    <2>2. kept[t] + Cardinality(unlisted[t]) = 0
        BY <1>2, <2>1
    <2> QED
        BY <1>2, <2>2 DEF OnceThrough
<1>4. gCacheCounted \in BOOLEAN
    BY Zenon DEF Init
<1>5. removed \in [Sweepers -> BOOLEAN]
    BY Zenon DEF Init
<1>6. writes \in 0..MaxWrites
    BY ConstantsAssumption DEF Init
<1> QED
    BY <1>3, <1>4, <1>5, <1>6 DEF Rest

\* A name more is counted and one fewer is to come.
LEMMA CountedOnce ==
    ASSUME Types, Types', NEW t \in Sweepers, OnceThrough(t), NEW n \in unlisted[t],
           unlisted'[t] = unlisted[t] \ {n}, kept'[t] \in {kept[t], kept[t] + 1}
    PROVE  OnceThrough(t)'
<1>1. Cardinality(unlisted'[t]) = Cardinality(unlisted[t]) - 1
    BY UnlistedIsFinite, FS_RemoveElement
<1>2. kept[t] \in Nat /\ Cardinality(unlisted[t]) \in Nat /\ Cardinality(Names) \in Nat
    BY UnlistedIsFinite DEF Types
<1> QED
    BY <1>1, <1>2 DEF OnceThrough

LEMMA OpenedAnew ==
    ASSUME NEW t \in Sweepers, Types, OpenListing(t)
    PROVE  OnceThrough(t)'
<1>1. kept'[t] = 0 /\ unlisted'[t] = Names
    BY DEF OpenListing, Locals, CountedAnew, Types
<1>2. Cardinality(Names) \in Nat
    BY FS_CardinalityType, ConstantsAssumption
<1> QED
    BY <1>1, <1>2 DEF OnceThrough

LEMMA RestStep ==
    ASSUME IInv, IInv', Rest, [Next]_vars
    PROVE  Rest'
<1>0. Types /\ Types'
    BY DEF IInv
<1>1. CASE UNCHANGED <<unlisted, kept, gCacheCounted, removed>> /\ writes' \in 0..MaxWrites
    BY <1>1 DEF Rest, OnceThrough
<1>2. ASSUME NEW t \in Sweepers, OnceThrough(t)', UNCHANGED writes,
             \A u \in Sweepers \ {t} : unlisted'[u] = unlisted[u] /\ kept'[u] = kept[u],
             gCacheCounted' \in BOOLEAN, removed' \in [Sweepers -> BOOLEAN]
      PROVE  Rest'
    BY <1>2 DEF Rest, OnceThrough
<1>3. ASSUME NEW t \in Sweepers, NEW n \in Names, ListFile(t, n)
      PROVE  Rest'
    <2>1. n \in unlisted[t] /\ unlisted'[t] = unlisted[t] \ {n} /\ kept'[t] = kept[t] + 1
        BY <1>0, <1>3 DEF ListFile, Types
    <2>2. OnceThrough(t)'
        BY <1>0, <2>1, CountedOnce DEF Rest
    <2> QED
        BY <1>0, <1>2, <1>3, <2>2 DEF ListFile, tally, history, Types, Rest
<1>4. ASSUME NEW t \in Sweepers, NEW n \in Names, PassOver(t, n)
      PROVE  Rest'
    <2>1. n \in unlisted[t] /\ unlisted'[t] = unlisted[t] \ {n} /\ kept'[t] = kept[t]
        BY <1>0, <1>4 DEF PassOver, Types
    <2>2. OnceThrough(t)'
        BY <1>0, <2>1, CountedOnce DEF Rest
    <2> QED
        BY <1>0, <1>2, <1>4, <2>2 DEF PassOver, tally, history, Types, Rest
<1>5. ASSUME NEW t \in Sweepers, NEW n \in Names, Evict(t, n)
      PROVE  Rest'
    <2>1. kept'[t] \in {kept[t], kept[t] - 1} /\ unlisted'[t] = unlisted[t]
          /\ kept[t] \in Nat
        BY <1>0, <1>5 DEF Evict, Types
    <2>2. OnceThrough(t)'
        BY <1>0, <2>1, UnlistedIsFinite DEF Rest, OnceThrough
    <2>3. removed' \in [Sweepers -> BOOLEAN] /\ UNCHANGED <<writes, gCacheCounted>>
        BY <1>5 DEF Evict, tally, history, Rest
    <2>4. \A u \in Sweepers \ {t} : unlisted'[u] = unlisted[u] /\ kept'[u] = kept[u]
        BY <1>0, <1>5 DEF Evict, Types
    <2> QED
        BY <1>2, <2>2, <2>3, <2>4 DEF Rest
<1>6. ASSUME NEW t \in Sweepers, OpenListing(t), UNCHANGED writes, gCacheCounted' \in BOOLEAN
      PROVE  Rest'
    <2>1. OnceThrough(t)'
        BY <1>0, <1>6, OpenedAnew
    <2>2. removed' \in [Sweepers -> BOOLEAN]
        BY <1>6 DEF OpenListing, Locals, Rest
    <2>3. \A u \in Sweepers \ {t} : unlisted'[u] = unlisted[u] /\ kept'[u] = kept[u]
        BY <1>0, <1>6 DEF OpenListing, Locals, CountedAnew, Types
    <2> QED
        BY <1>2, <1>6, <2>1, <2>2, <2>3
<1>7. ASSUME NEW t \in Sweepers, EndSweepOnce(t)
      PROVE  Rest'
    <2>1. CASE Again(t)
        BY <1>6, <1>7, <2>1 DEF EndSweepOnce
    <2>2. CASE ~Again(t)
        <3>1. /\ gCacheCounted' = TRUE /\ UNCHANGED <<unlisted, writes>>
              /\ kept' = [kept EXCEPT ![t] = 0] /\ removed' = [removed EXCEPT ![t] = FALSE]
            BY <1>7, <2>2 DEF EndSweepOnce, Locals, CountedAnew
        <3>2. kept'[t] = 0 /\ kept[t] \in Nat /\ \A u \in Sweepers \ {t} : kept'[u] = kept[u]
            BY <1>0, <3>1 DEF Types
        <3>3. OnceThrough(t)'
            BY <1>0, <3>1, <3>2, UnlistedIsFinite DEF Rest, OnceThrough
        <3>4. removed' \in [Sweepers -> BOOLEAN]
            BY <3>1 DEF Rest
        <3> QED
            BY <1>2, <3>1, <3>2, <3>3, <3>4
    <2> QED
        BY <2>1, <2>2
<1>8. ASSUME NEW t \in Sweepers, BeginSweep(t)
      PROVE  Rest'
    BY <1>6, <1>8 DEF BeginSweep, Rest
<1>9. ASSUME NEW t \in Sweepers, LeaveToOther(t) \/ BeginEvicting(t)
      PROVE  Rest'
    BY <1>1, <1>9 DEF LeaveToOther, BeginEvicting, tally, sweep, history, Rest
<1>10. ASSUME NEW t \in Threads, NEW n \in Names, NEW f \in Files, Commit(t, n, f)
      PROVE  Rest'
    <2>1. writes' \in 0..MaxWrites
        BY <1>10, ConstantsAssumption DEF Commit, Rest
    <2> QED
        BY <1>1, <1>10, <2>1 DEF Commit, tally, sweep, history
<1>11. ASSUME NEW t \in Threads, Note(t)
      PROVE  Rest'
    BY <1>1, <1>11 DEF Note, sweep, history, Rest
<1>12. ASSUME NEW n \in Names, Remove(n)
      PROVE  Rest'
    BY <1>1, <1>12 DEF Remove, tally, sweep, history, Rest
<1>13. CASE UNCHANGED vars
    BY <1>1, <1>13 DEF vars, tally, sweep, history, Rest
<1>14. ASSUME NEW t \in Sweepers, NEW names, Overlook(t, names)
      PROVE  Rest'
    <2>1. unlisted'[t] = unlisted[t] \ names /\ kept'[t] = kept[t]
        BY <1>0, <1>14 DEF Overlook, Types
    <2>2. Cardinality(unlisted'[t]) <= Cardinality(unlisted[t]) /\ Cardinality(unlisted'[t]) \in Nat
        BY <1>0, <2>1, UnlistedIsFinite, FS_Subset, FS_CardinalityType
    <2>3. OnceThrough(t)'
        BY <1>0, <2>1, <2>2, UnlistedIsFinite DEF Rest, OnceThrough, Types
    <2> QED
        BY <1>0, <1>2, <1>14, <2>3 DEF Overlook, tally, Types, Rest
<1>15. ASSUME NEW t \in Sweepers, GiveUp(t) \/ \E n \in Names : FailToStat(t, n)
      PROVE  Rest'
    BY <1>14, <1>15 DEF GiveUp, FailToStat
<1>16. ASSUME NEW t \in Sweepers, NEW n \in Names, FailToEvict(t, n)
      PROVE  Rest'
    BY <1>1, <1>16 DEF FailToEvict, tally, sweep, Rest
<1> QED
    BY <1>3, <1>4, <1>5, <1>7, <1>8, <1>9, <1>10, <1>11, <1>12, <1>13, <1>15, <1>16
       DEF Next, SweepStep

\* The types of the totals, the walks and the threads; in particular `kept' of sweepOnce
\* is never more than the directory has entries (sweepOnce, ModernTLSURLProtocol.m:1004).
THEOREM TypeCorrect == Spec => []TypeOK
<1>1. Init => IInv /\ BInv /\ Rest
    BY InitInv, InitB, InitRest
<1>2. IInv /\ BInv /\ Rest /\ [Next]_vars => (IInv /\ BInv /\ Rest)'
    BY NextInv, NextB, RestStep
<1>3. ASSUME IInv, BInv, Rest
      PROVE  TypeOK
    <2>1. ASSUME NEW t \in Sweepers
          PROVE  kept[t] \in 0..Cardinality(Names)
        BY <1>3, <2>1, UnlistedIsFinite DEF IInv, Rest, OnceThrough, Types
    <2>2. kept \in [Sweepers -> 0..Cardinality(Names)]
        BY <1>3, <2>1 DEF IInv, Types
    <2> QED
        BY <1>3, <2>2 DEF IInv, BInv, Rest, Types, Counts, TypeOK
<1> QED
    BY <1>1, <1>2, <1>3, PTL DEF Spec
=============================================================================
