------------------------------ MODULE CacheSweep ------------------------------
(***************************************************************************)
(* When the disk cache is swept (app/ModernTLSURLProtocol.m:               *)
(* cacheNoteWrite, sweepCache, sweepOnce and the sweep installCache        *)
(* schedules).                                                             *)
(*                                                                         *)
(* A running total stands in for the size of the directory.  The writer    *)
(* whose commit takes it over the capacity sweeps on its own thread: it    *)
(* lists the directory file by file, unlinks by name what the listing held *)
(* too much of, and replaces the total, while other threads commit and     *)
(* remove entries.  Sizes are in units that only the bounds are compared   *)
(* with; which file is the least recently used is left open.  Each call    *)
(* that the code lets fail may fail here: opendir, stat, realloc, unlink.  *)
(***************************************************************************)
EXTENDS Naturals, FiniteSets

CONSTANTS
    Names,      \* entry files, one for each key
    Threads,    \* the workers that store responses
    Boot,       \* the block that installCache dispatches
    None,       \* no file
    Files,      \* the files a response may become
    Data(_),    \* size of the header and body of a file
    Metadata(_),
    Capacity,   \* kCacheCapacity
    LowWater,   \* kCacheLowWater
    Entries,    \* kCacheEntries
    MaxWrites   \* bound: responses stored

ASSUME ConstantsAssumption ==
    /\ Boot \notin Threads
    /\ None \notin Files \cup Nat
    /\ IsFiniteSet(Names) /\ IsFiniteSet(Threads)
    /\ \A f \in Files : Data(f) \in Nat /\ Metadata(f) \in Nat
    /\ Capacity \in Nat /\ LowWater \in Nat /\ LowWater <= Capacity
    /\ Entries \in Nat
    /\ MaxWrites \in Nat

VARIABLES
    disk,                      \* the file under each name
    gCacheBytes,
    gCacheWrittenDuringSweep,
    gCacheCounted,
    gCacheSweeping,
    pc,                        \* where each thread is
    unnoted,                   \* bytes it committed and has not noted yet
    unlisted,                  \* names its listing has still to come to
    listed,                    \* what its listing found and it did not unlink
    held,                      \* `held' in sweepOnce
    kept,                      \* `kept' in sweepOnce
    removed,                   \* `removed' in sweepOnce
    fresh,                     \* names written since the last listing began
    missed,                    \* others that it should have listed and did not
    refused,                   \* names it listed and could not unlink
    writes                     \* responses stored so far

tally == <<gCacheBytes, gCacheWrittenDuringSweep, gCacheCounted, gCacheSweeping>>
sweep == <<unlisted, listed, held, kept, removed>>
history == <<fresh, missed, refused>>
vars == <<disk, tally, pc, unnoted, sweep, history, writes>>

Sweepers == Threads \cup {Boot}
Sweeping == {"listing", "evicting"}

Size(f) == Data(f) + Metadata(f)

\* The sum of f over S, as the number of units there are in it.
Units(f, S) == UNION {{x} \X (1..f[x]) : x \in S}
Total(f, S) == Cardinality(Units(f, S))

\* Bytes of header and body of each file in the directory, and of everything.
DataOnDisk == [n \in Names |-> IF disk[n] = None THEN 0 ELSE Data(disk[n])]
SizeOnDisk == [n \in Names |-> IF disk[n] = None THEN 0 ELSE Size(disk[n])]

TypeOK ==
    /\ disk \in [Names -> Files \cup {None}]
    /\ gCacheBytes \in Nat
    /\ gCacheWrittenDuringSweep \in Nat
    /\ gCacheCounted \in BOOLEAN
    /\ gCacheSweeping \in BOOLEAN
    /\ pc \in [Sweepers -> {"idle", "renamed", "due"} \cup Sweeping]
    /\ unnoted \in [Sweepers -> Nat]
    /\ unlisted \in [Sweepers -> SUBSET Names]
    /\ listed \in [Sweepers -> [Names -> Nat \cup {None}]]
    /\ held \in [Sweepers -> Nat]
    /\ kept \in [Sweepers -> 0..Cardinality(Names)]
    /\ removed \in [Sweepers -> BOOLEAN]
    /\ fresh \subseteq Names
    /\ missed \subseteq Names
    /\ refused \subseteq Names
    /\ writes \in 0..MaxWrites

NoListing == [n \in Names |-> None]

\* A launch: the directory holds whatever earlier ones left, however they
\* ended, nothing has been counted and installCache has scheduled a sweep.
Init ==
    /\ disk \in [Names -> Files \cup {None}]
    /\ gCacheBytes = 0
    /\ gCacheWrittenDuringSweep = 0
    /\ gCacheCounted = FALSE
    /\ gCacheSweeping = FALSE
    /\ pc = [t \in Sweepers |-> IF t = Boot THEN "due" ELSE "idle"]
    /\ unnoted = [t \in Sweepers |-> 0]
    /\ unlisted = [t \in Sweepers |-> {}]
    /\ listed = [t \in Sweepers |-> NoListing]
    /\ held = [t \in Sweepers |-> 0]
    /\ kept = [t \in Sweepers |-> 0]
    /\ removed = [t \in Sweepers |-> FALSE]
    /\ fresh = {}
    /\ missed = {}
    /\ refused = {}
    /\ writes = 0

Goto(t, state) == pc' = [pc EXCEPT ![t] = state]

-----------------------------------------------------------------------------
(* The directory.                                                          *)

\* The rename of -commit.
Commit(t, n, f) ==
    /\ pc[t] = "idle"
    /\ writes < MaxWrites
    /\ writes' = writes + 1
    /\ disk' = [disk EXCEPT ![n] = f]
    /\ fresh' = fresh \cup {n}
    /\ missed' = missed \ {n}
    /\ unnoted' = [unnoted EXCEPT ![t] = Data(f)]
    /\ Goto(t, "renamed")
    /\ UNCHANGED <<tally, sweep, refused>>

\* removeCacheEntry, which leaves the total alone.
Remove(n) ==
    /\ disk[n] # None
    /\ disk' = [disk EXCEPT ![n] = None]
    /\ UNCHANGED <<tally, pc, unnoted, sweep, history, writes>>

-----------------------------------------------------------------------------
(* cacheNoteWrite.                                                         *)

\* Mutant: what is written during a sweep is left to its listing.
NotNoted(bytes) == gCacheWrittenDuringSweep

NotedDuringSweep(bytes) == gCacheWrittenDuringSweep + bytes

Note(t) ==
    /\ pc[t] = "renamed"
    /\ IF gCacheSweeping
       THEN /\ gCacheWrittenDuringSweep' = NotedDuringSweep(unnoted[t])
            /\ UNCHANGED gCacheBytes
       ELSE /\ gCacheBytes' = gCacheBytes + unnoted[t]
            /\ UNCHANGED gCacheWrittenDuringSweep
    /\ unnoted' = [unnoted EXCEPT ![t] = 0]
    /\ Goto(t, IF ~gCacheCounted \/ gCacheBytes' > Capacity THEN "due" ELSE "idle")
    /\ UNCHANGED <<disk, gCacheCounted, gCacheSweeping, sweep, history, writes>>

-----------------------------------------------------------------------------
(* sweepCache and sweepOnce.                                               *)

CountedAnew(t) == [kept EXCEPT ![t] = 0]

\* The variables of sweepOnce.
Locals(t) ==
    /\ listed' = [listed EXCEPT ![t] = NoListing]
    /\ held' = [held EXCEPT ![t] = 0]
    /\ kept' = CountedAnew(t)
    /\ removed' = [removed EXCEPT ![t] = FALSE]
    /\ fresh' = {} /\ refused' = {}

\* sweepOnce starts: nothing is listed yet.
OpenListing(t) ==
    /\ unlisted' = [unlisted EXCEPT ![t] = Names]
    /\ missed' = {}
    /\ Locals(t)

\* Mutant: no test of gCacheSweeping.
NeverSwept == FALSE

AlreadySwept == gCacheSweeping

BeginSweep(t) ==
    /\ pc[t] = "due"
    /\ ~AlreadySwept
    /\ gCacheSweeping' = TRUE
    /\ OpenListing(t)
    /\ Goto(t, "listing")
    /\ UNCHANGED <<disk, gCacheBytes, gCacheWrittenDuringSweep, gCacheCounted,
                   unnoted, writes>>

LeaveToOther(t) ==
    /\ pc[t] = "due"
    /\ AlreadySwept
    /\ Goto(t, "idle")
    /\ UNCHANGED <<disk, tally, unnoted, sweep, history, writes>>

\* readdir and stat of one name.
ListFile(t, n) ==
    /\ pc[t] = "listing"
    /\ n \in unlisted[t]
    /\ disk[n] # None
    /\ unlisted' = [unlisted EXCEPT ![t] = @ \ {n}]
    /\ listed' = [listed EXCEPT ![t][n] = Size(disk[n])]
    /\ held' = [held EXCEPT ![t] = @ + Size(disk[n])]
    /\ kept' = [kept EXCEPT ![t] = @ + 1]
    /\ UNCHANGED <<disk, tally, pc, unnoted, removed, history, writes>>

\* The name is not in the directory, or was put there after opendir and
\* readdir does not come to it.
PassOver(t, n) ==
    /\ pc[t] = "listing"
    /\ n \in unlisted[t]
    /\ disk[n] = None \/ n \in fresh
    /\ unlisted' = [unlisted EXCEPT ![t] = @ \ {n}]
    /\ UNCHANGED <<disk, tally, pc, unnoted, listed, held, kept, removed, history,
                   writes>>

\* The walk goes on without those names, which are there or were at opendir.
Overlook(t, names) ==
    /\ pc[t] = "listing"
    /\ unlisted' = [unlisted EXCEPT ![t] = @ \ names]
    /\ missed' = missed \cup (names \ fresh)
    /\ UNCHANGED <<disk, tally, pc, unnoted, listed, held, kept, removed, fresh,
                   refused, writes>>

\* stat fails for a file that is there.
FailToStat(t, n) == n \in unlisted[t] /\ disk[n] # None /\ Overlook(t, {n})

\* opendir fails and nothing is listed, or realloc does and nothing more is.
GiveUp(t) == unlisted[t] # {} /\ Overlook(t, unlisted[t])

\* The total of the listing is over one of the two bounds, so files go...
BeginEvicting(t) ==
    /\ pc[t] = "listing"
    /\ unlisted[t] = {}
    /\ held[t] > Capacity \/ kept[t] > Entries
    /\ Goto(t, "evicting")
    /\ UNCHANGED <<disk, tally, unnoted, sweep, history, writes>>

\* Mutant: files go only while both are too high.
BothTooMany(t) == held[t] > LowWater /\ kept[t] > Entries

\* ...until both are met.
TooMany(t) == held[t] > LowWater \/ kept[t] > Entries

Listed(t) == {n \in Names : listed[t][n] # None}
Left(t) == Listed(t) \ refused

\* unlink; a file that somebody else has removed stays counted.
Evict(t, n) ==
    /\ pc[t] = "evicting"
    /\ TooMany(t)
    /\ n \in Left(t)
    /\ disk' = [disk EXCEPT ![n] = None]
    /\ listed' = [listed EXCEPT ![t][n] = None]
    /\ IF disk[n] = None
       THEN UNCHANGED <<held, kept, removed>>
       ELSE /\ held' = [held EXCEPT ![t] = @ - listed[t][n]]
            /\ kept' = [kept EXCEPT ![t] = @ - 1]
            /\ removed' = [removed EXCEPT ![t] = TRUE]
    /\ UNCHANGED <<tally, pc, unnoted, unlisted, history, writes>>

\* unlink fails: the file stays, and stays counted.
FailToEvict(t, n) ==
    /\ pc[t] = "evicting"
    /\ TooMany(t)
    /\ n \in Left(t)
    /\ disk[n] # None
    /\ refused' = refused \cup {n}
    /\ UNCHANGED <<disk, tally, pc, unnoted, sweep, fresh, missed, writes>>

\* sweepOnce has returned.
Swept(t) ==
    \/ pc[t] = "listing" /\ unlisted[t] = {} /\ held[t] <= Capacity /\ kept[t] <= Entries
    \/ pc[t] = "evicting" /\ (~TooMany(t) \/ Left(t) = {})

Again(t) == gCacheBytes' > Capacity /\ removed[t]

\* Mutant: the flag is cleared only by a sweep that removed nothing.
ClearedLate(t) == removed[t]

\* gCacheSweeping after a sweepOnce.
StillSweeping(t) == Again(t)

EndSweepOnce(t) ==
    /\ Swept(t)
    /\ gCacheBytes' = held[t] + gCacheWrittenDuringSweep
    /\ gCacheWrittenDuringSweep' = 0
    /\ gCacheCounted' = TRUE
    /\ gCacheSweeping' = StillSweeping(t)
    /\ IF Again(t)
       THEN OpenListing(t) /\ Goto(t, "listing")
       ELSE /\ Goto(t, "idle")
            /\ Locals(t)
            /\ UNCHANGED <<unlisted, missed>>
    /\ UNCHANGED <<disk, unnoted, writes>>

-----------------------------------------------------------------------------
SweepStep(t) ==
    \/ BeginSweep(t) \/ LeaveToOther(t) \/ GiveUp(t)
    \/ BeginEvicting(t) \/ EndSweepOnce(t)
    \/ \E n \in Names : \/ ListFile(t, n) \/ PassOver(t, n) \/ FailToStat(t, n)
                        \/ Evict(t, n) \/ FailToEvict(t, n)

Next ==
    \/ \E t \in Threads : Note(t) \/ \E n \in Names, f \in Files : Commit(t, n, f)
    \/ \E n \in Names : Remove(n)
    \/ \E t \in Sweepers : SweepStep(t)

Spec == Init /\ [][Next]_vars

\* A thread that has committed or sweeps goes on.
Fairness ==
    /\ \A t \in Threads : WF_vars(Note(t))
    /\ \A t \in Sweepers : WF_vars(SweepStep(t))

FairSpec == Spec /\ Fairness

-----------------------------------------------------------------------------
(* Properties.                                                             *)

\* gCacheSweeping is set exactly while a thread sweeps, and only one does.
OneSweeper ==
    /\ gCacheSweeping = (\E t \in Sweepers : pc[t] \in Sweeping)
    /\ \A t, u \in Sweepers : pc[t] \in Sweeping /\ pc[u] \in Sweeping => t = u

\* Once a walk has finished the total never falls behind the headers and
\* bodies of the files that the walk did not miss, whatever was committed,
\* replaced or removed while it was under way: only writes on their way to
\* cacheNoteWrite are missing from it.
TallyCovers ==
    gCacheCounted /\ ~gCacheSweeping =>
        Total(DataOnDisk, Names \ missed) <= gCacheBytes + Total(unnoted, Threads)

\* What a sweep answers for: files that were there when it began, and that its
\* walk did not miss.
Answerable == Names \ (fresh \cup missed)

\* A sweep enforces both bounds on the files it answers for, though some are
\* removed under it, or it has tried to unlink each and could not.
BytesEnforced == Total(SizeOnDisk, Answerable) <= Capacity
EntriesEnforced == Cardinality({n \in Answerable : disk[n] # None}) <= Entries
OnlyRefused == \A n \in Answerable : disk[n] # None => n \in refused

SweepEnforcesBounds ==
    \A t \in Sweepers : Swept(t) => (BytesEnforced /\ EntriesEnforced) \/ OnlyRefused

\* No sweep goes on for ever or leaves the flag set, which would end
\* sweeping in this process.
SweepEnds == gCacheSweeping ~> ~gCacheSweeping

\* Nothing that could sweep is under way.
Quiet == gCacheCounted /\ \A t \in Sweepers : pc[t] = "idle"

\* "Until a walk has finished, the byte total is not a number [...] treating that
\* as plenty of room is how a cache grows" (docs/network.md:179-181).  TLC refutes
\* it: a walk that opendir refused or that gave up is taken for a finished one.
TallyCoversAll ==
    gCacheCounted /\ ~gCacheSweeping =>
        Total(DataOnDisk, Names) <= gCacheBytes + Total(unnoted, Threads)

\* "Cache size | 20 MB, swept to a low-water mark" (docs/network.md:168).  TLC
\* refutes it: sweepCache is over when its walk removed nothing, whatever was
\* committed meanwhile.
SizeBounded == Quiet => Total(SizeOnDisk, Names) <= Capacity

\* "Entry count | bounded" (docs/network.md:170).  TLC refutes it: only bytes
\* make a sweep due.
EntryCountBounded == Quiet => Cardinality({n \in Names : disk[n] # None}) <= Entries
=============================================================================
