------------------------------ MODULE CacheStore ------------------------------
(***************************************************************************)
(* The entry files of the disk cache (app/ModernTLSURLProtocol.m:          *)
(* ModernTLSCacheWriter, readCacheEntry, removeCacheEntry,                 *)
(* rewriteCacheEntry and what sweepOnce unlinks).                          *)
(*                                                                         *)
(* The directory maps names to inodes.  A writer fills an inode under a    *)
(* name of its own and renames it; a reader keeps the inode it mapped,     *)
(* whatever happens to the name.  Each step is one system call, or a few   *)
(* that touch only what the worker has to itself.  The process may be      *)
(* killed between any two, and the power may fail, which loses what no     *)
(* fsync has ordered.  When the sweeper evicts, and how much, is the       *)
(* subject of CacheSweep: here any entry may go at any time.               *)
(***************************************************************************)
EXTENDS Naturals, Sequences, SequencesExt

CONSTANTS
    Keys,
    Workers,     \* requests that use the cache
    Inodes,
    Pids,        \* process numbers; one may be used again
    None,        \* no inode, key or name
    Length,      \* chunks in the body of each response of the origin
    EntryLimit,  \* kCacheEntryLimit, in chunks
    MaxSerial,   \* bound: files begun by one process
    MaxDeaths    \* bound: times the process dies

ASSUME ConstantsAssumption ==
    /\ None \notin Inodes
    /\ Length \in Seq(Nat)
    /\ EntryLimit \in Nat
    /\ MaxSerial \in Nat
    /\ MaxDeaths \in Nat

\* Responses, in the order the origin produced them.
Versions == DOMAIN Length

VARIABLES
    inode,     \* contents of the files
    entry,     \* the directory: the file named by the digest of each key
    partial,   \* the directory: "partial-<pid>-<serial>"
    pid,       \* getpid()
    serial,    \* gCacheSerial
    deaths,    \* process deaths so far
    produced,  \* responses the origins have sent so far
    pc,        \* what each worker does with the cache
    key,       \* its _cacheKey
    temp,      \* its writer's _temporary
    handle,    \* the inode of its writer's _handle
    source,    \* the response it stores
    written,   \* its writer's _written, in chunks
    held       \* the inode it has mapped (ModernTLSCacheEntry's file)

processVars == <<pid, serial, deaths, produced>>
vars == <<inode, entry, partial, pid, serial, deaths, produced,
          pc, key, temp, handle, source, written, held>>

Names == Pids \X (1..MaxSerial)
States == {"idle", "reading", "writing", "renaming", "renamed"}

\* `key' and `of' stand for the metadata; each chunk is tagged with the
\* response it is from; `synced' says whether an fsync covers it all.
Contents == [key: Keys \cup {None}, of: Versions \cup {0}, recorded: Nat,
             body: Seq(Versions), synced: BOOLEAN]

Blank == [key |-> None, of |-> 0, recorded |-> 0, body |-> <<>>, synced |-> FALSE]

TypeOK ==
    /\ inode \in [Inodes -> Contents]
    /\ \A i \in Inodes : Len(inode[i].body) <= EntryLimit
    /\ entry \in [Keys -> Inodes \cup {None}]
    /\ partial \in [Names -> Inodes \cup {None}]
    /\ pid \in Pids
    /\ serial \in 0..MaxSerial
    /\ deaths \in 0..MaxDeaths
    /\ produced \in Versions \cup {0}
    /\ pc \in [Workers -> States]
    /\ key \in [Workers -> Keys \cup {None}]
    /\ temp \in [Workers -> Names \cup {None}]
    /\ handle \in [Workers -> Inodes \cup {None}]
    /\ source \in [Workers -> Versions \cup {0}]
    /\ written \in [Workers -> Nat]
    /\ held \in [Workers -> Inodes \cup {None}]

Init ==
    /\ inode = [i \in Inodes |-> Blank]
    /\ entry = [k \in Keys |-> None]
    /\ partial = [n \in Names |-> None]
    /\ pid \in Pids
    /\ serial = 0
    /\ deaths = 0
    /\ produced = 0
    /\ pc = [w \in Workers |-> "idle"]
    /\ key = [w \in Workers |-> None]
    /\ temp = [w \in Workers |-> None]
    /\ handle = [w \in Workers |-> None]
    /\ source = [w \in Workers |-> 0]
    /\ written = [w \in Workers |-> 0]
    /\ held = [w \in Workers |-> None]

Goto(w, state) == pc' = [pc EXCEPT ![w] = state]

\* The file system keeps an inode while a name, a descriptor or a mapping
\* refers to it.
Referenced ==
    {entry[k] : k \in Keys} \cup {partial[n] : n \in Names}
    \cup {handle[w] : w \in Workers} \cup {held[w] : w \in Workers}

\* The contents become `new', and what nothing refers to any more is freed.
SetInodes(new) ==
    inode' = [i \in Inodes |-> IF i \in Referenced' THEN new[i] ELSE Blank]

-----------------------------------------------------------------------------
(* ModernTLSCacheWriter.                                                   *)

\* Mutant: the serial is not taken anew for every file.
SerialReused == IF serial = 0 THEN 1 ELSE serial

NextSerial == serial + 1

\* open(O_CREAT | O_TRUNC): the file a dead process with this number left
\* under this name is used again.
Opened(n) == IF partial[n] = None THEN Inodes \ Referenced ELSE {partial[n]}

\* -initForKey:metadata: takes a serial, opens the file and writes the head,
\* with zero for the length of the body.
OpenWriter(w, k, v) ==
    /\ serial < MaxSerial
    /\ serial' = NextSerial
    /\ \E i \in Opened(<<pid, NextSerial>>) :
          /\ partial' = [partial EXCEPT ![<<pid, NextSerial>>] = i]
          /\ handle' = [handle EXCEPT ![w] = i]
          /\ SetInodes([inode EXCEPT ![i] =
                [Blank EXCEPT !.key = k, !.of = v]])
    /\ temp' = [temp EXCEPT ![w] = <<pid, NextSerial>>]
    /\ source' = [source EXCEPT ![w] = v]
    /\ written' = [written EXCEPT ![w] = 0]
    /\ Goto(w, "writing")

\* A storable response arrives.
StartStoring(w, k) ==
    /\ pc[w] = "idle"
    /\ produced + 1 \in Versions
    /\ produced' = produced + 1
    /\ key' = [key EXCEPT ![w] = k]
    /\ UNCHANGED <<entry, pid, deaths, held>>
    /\ OpenWriter(w, k, produced + 1)

\* A 304 arrives for the entry the worker holds: rewriteCacheEntry copies its
\* body under the merged headers.
StartRewriting(w) ==
    /\ pc[w] = "reading"
    /\ UNCHANGED <<entry, pid, deaths, produced, key, held>>
    /\ OpenWriter(w, key[w], inode[held[w]].of)

\* What the worker is to write: a response, or the body of the old entry.
Body(w) ==
    IF held[w] = None
    THEN [n \in 1..Length[source[w]] |-> source[w]]
    ELSE SubSeq(inode[held[w]].body, 1, inode[held[w]].recorded)

Fits(w) == written[w] + 1 <= EntryLimit

\* -appendBody:
AppendBody(w) ==
    /\ pc[w] = "writing"
    /\ written[w] < Len(Body(w))
    /\ Fits(w)
    /\ written' = [written EXCEPT ![w] = @ + 1]
    /\ UNCHANGED <<entry, partial, processVars, pc, key, temp, handle, source, held>>
    /\ SetInodes([inode EXCEPT
          ![handle[w]].body = Append(@, Body(w)[written[w] + 1]),
          ![handle[w]].synced = FALSE])

\* The worker lets go of the writer and of the entry.
Forget(w) ==
    /\ handle' = [handle EXCEPT ![w] = None]
    /\ held' = [held EXCEPT ![w] = None]
    /\ temp' = [temp EXCEPT ![w] = None]
    /\ key' = [key EXCEPT ![w] = None]
    /\ source' = [source EXCEPT ![w] = 0]
    /\ written' = [written EXCEPT ![w] = 0]
    /\ Goto(w, "idle")

\* -abandon: the body is too long, a write failed, the transfer ended early
\* or was cancelled, or an image is being transcoded.
Abandon(w) ==
    /\ pc[w] = "writing"
    /\ partial' = [partial EXCEPT ![temp[w]] = None]
    /\ Forget(w)
    /\ UNCHANGED <<entry, processVars>>
    /\ SetInodes(inode)

\* The outcomes of fsync, whose result -commit does not look at.
Synced(contents) == {[contents EXCEPT !.synced = ok] : ok \in BOOLEAN}

\* -commit records the length, fsyncs and closes...  Whoever calls it has seen to it
\* that the body is whole (UrlExchange).
Seal(w) ==
    /\ pc[w] = "writing"
    /\ written[w] = Len(Body(w))
    /\ handle' = [handle EXCEPT ![w] = None]
    /\ Goto(w, "renaming")
    /\ UNCHANGED <<entry, partial, processVars, key, temp, source, written, held>>
    /\ \E file \in Synced([inode[handle[w]] EXCEPT !.recorded = written[w]]) :
          SetInodes([inode EXCEPT ![handle[w]] = file])

\* ...and renames, which fails when the name is gone.
Rename(w) ==
    /\ pc[w] = "renaming"
    /\ entry' = IF partial[temp[w]] = None THEN entry
                ELSE [entry EXCEPT ![key[w]] = partial[temp[w]]]
    /\ partial' = [partial EXCEPT ![temp[w]] = None]
    /\ Goto(w, "renamed")
    /\ UNCHANGED <<processVars, key, temp, handle, source, written, held>>
    /\ SetInodes(inode)

-----------------------------------------------------------------------------
(* Readers and removers.                                                   *)

\* readCacheEntry: the magic, the recorded lengths against the size of the
\* file, and the key.
Accepted(i, k) ==
    /\ inode[i].recorded = Len(inode[i].body)
    /\ inode[i].key = k

Read(w, k) ==
    /\ pc[w] = "idle"
    /\ entry[k] # None
    /\ Accepted(entry[k], k)
    /\ held' = [held EXCEPT ![w] = entry[k]]
    /\ key' = [key EXCEPT ![w] = k]
    /\ Goto(w, "reading")
    /\ UNCHANGED <<inode, entry, partial, processVars, temp, handle, source, written>>

\* The response is delivered, or the entry was rewritten.
Finish(w) ==
    /\ pc[w] \in {"reading", "renamed"}
    /\ Forget(w)
    /\ UNCHANGED <<entry, partial, processVars>>
    /\ SetInodes(inode)

\* removeCacheEntry by any request, or an eviction by the sweeper.
Unlink(k) ==
    /\ entry[k] # None
    /\ entry' = [entry EXCEPT ![k] = None]
    /\ UNCHANGED <<partial, processVars, pc, key, temp, handle, source, written, held>>
    /\ SetInodes(inode)

\* Mutant: the sweeper does not spare the files of its own process.
EveryPartial == {n \in Names : partial[n] # None}

Foreign == {n \in Names : partial[n] # None /\ n[1] # pid}

\* sweepOnce unlinks what other processes left behind.
SweepPartials ==
    /\ Foreign # {}
    /\ partial' = [n \in Names |-> IF n \in Foreign THEN None ELSE partial[n]]
    /\ UNCHANGED <<entry, processVars, pc, key, temp, handle, source, written, held>>
    /\ SetInodes(inode)

-----------------------------------------------------------------------------
(* Deaths.                                                                 *)

\* What a power failure leaves when it keeps kept[i] chunks of each file i that
\* no fsync covers.
Unsynced == {i \in Inodes : ~inode[i].synced /\ inode[i].body # <<>>}

AfterPowerFailure(kept) ==
    [i \in Inodes |->
        IF i \in Unsynced /\ kept[i] < Len(inode[i].body)
        THEN [inode[i] EXCEPT !.body = SubSeq(@, 1, kept[i])]
        ELSE inode[i]]

\* The fsync of every entry did its work.
AllSynced == \A k \in Keys : entry[k] # None => inode[entry[k]].synced

\* The process is killed, or the power fails; it is started again.  Assumed: the power
\* does not fail where an fsync failed before.  What would be under the name then is up
\* to the file system; readCacheEntry looks at the lengths only.
Die ==
    /\ deaths < MaxDeaths
    /\ deaths' = deaths + 1
    /\ pid' \in Pids
    /\ serial' = 0
    /\ pc' = [w \in Workers |-> "idle"]
    /\ key' = [w \in Workers |-> None]
    /\ temp' = [w \in Workers |-> None]
    /\ handle' = [w \in Workers |-> None]
    /\ source' = [w \in Workers |-> 0]
    /\ written' = [w \in Workers |-> 0]
    /\ held' = [w \in Workers |-> None]
    /\ UNCHANGED <<entry, partial, produced>>
    /\ \/ SetInodes(inode)
       \/ /\ AllSynced
          /\ \E kept \in [Unsynced -> 0..EntryLimit] :
                SetInodes(AfterPowerFailure(kept))

Next ==
    \/ \E w \in Workers :
          \/ \E k \in Keys : StartStoring(w, k) \/ Read(w, k)
          \/ StartRewriting(w) \/ AppendBody(w) \/ Abandon(w) \/ Seal(w)
          \/ Rename(w) \/ Finish(w)
    \/ \E k \in Keys : Unlink(k)
    \/ SweepPartials
    \/ Die

Spec == Init /\ [][Next]_vars

-----------------------------------------------------------------------------
(* Properties.                                                             *)

\* The whole of one response, under the lengths that readCacheEntry checks.
Whole(file) ==
    /\ file.of \in Versions
    /\ file.recorded = Len(file.body)
    /\ file.body = [n \in 1..Length[file.of] |-> file.of]

\* What is under the name of a key is the whole of one response for that
\* key, after any crash: truncation is not merely caught, it cannot happen.
PublishedWhole ==
    \A k \in Keys :
        entry[k] # None => Whole(inode[entry[k]]) /\ inode[entry[k]].key = k

\* A writer has its file and the name of it to itself until the rename: no
\* other writer, no reader, no sweeper.
WritersApart ==
    \A w \in Workers :
        /\ pc[w] \in {"writing", "renaming"} =>
              /\ partial[temp[w]] # None
              /\ \A u \in Workers \ {w} :
                    /\ pc[u] \in {"writing", "renaming"} => temp[u] # temp[w]
                    /\ held[u] # partial[temp[w]]
              /\ \A k \in Keys : entry[k] # partial[temp[w]]
        /\ pc[w] = "writing" => handle[w] = partial[temp[w]]

\* One variant per key, and "this keeps the most recent" (docs/network.md:126):
\* what a 304 confirmed does not take the place of a response that was stored
\* after it.  TLC refutes it: -commit renames over whatever is there.
KeepsMostRecent ==
    [][\A w \in Workers :
          /\ pc[w] = "renaming" /\ pc'[w] = "renamed"
          /\ held[w] # None /\ entry[key[w]] # None
          => inode[entry[key[w]]].of <= source[w]]_vars

\* "a reader arriving at any moment sees the whole of one version or the
\* whole of another" (docs/network.md:157): the files implement the map of
\* AtomicCache.
Torn == Len(Length) + 1

Version(i) ==
    IF i = None THEN 0 ELSE IF Whole(inode[i]) THEN inode[i].of ELSE Torn

store == [k \in Keys |-> Version(entry[k])]
got == [w \in Workers |-> Version(held[w])]

Abstract == INSTANCE AtomicCache WITH Nothing <- 0

ImplementsAtomicCache == Abstract!Spec
=============================================================================
