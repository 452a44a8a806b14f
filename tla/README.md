# TLA+ specifications of Revenant WebKit

Revenant WebKit brings a current WebKit to iOS 6. Most of the repository builds and
patches WebKit; what it adds as a program of its own is a network stack that stands in
for the system's (`src/app/ModernTLSURLProtocol.m`, an `NSURLProtocol` over OpenSSL with
a connection pool, a DNS cache, a disk cache and a queue of background requests), a TLS
library that replaces Secure Transport inside Safari (`src/platform/safari/tls-openssl.c`),
a loader and a daemon that act on the phone's processes, stand-ins for system functions that
iOS 6 lacks, a WebAssembly bridge, and the hosts and settings panels around them. The network
stack and the TLS library have most of the concurrency and the failures, so most of this
project is about them.

Lines below are of `src/app/ModernTLSURLProtocol.m` ("m:") or of
`src/platform/safari/tls-openssl.c` ("tls:") unless another file is named.

## Inventory

| Component | State | Operations | Modelled in |
|---|---|---|---|
| URL protocol load (m:1786-2693) | `_cancelled`, the reply's framing, decoder and writer, the cache entry being validated, calls posted to the client's thread | `startLoading`, `performRequest`, `exchangeOn`, `readBodyFrom`, `deliver...`, `stopLoading` | `UrlLoad`, `UrlExchange` |
| Connection pool (m:311-593, 2646-2693) | `gIdleConnections`, each connection's buffer and `_idleSince`; `gPoolMutex` | take, probe, expire, return, trim, retry | `ConnectionPool` |
| Background revalidation (m:1369-1590, 1703-1781) | `gShellPending`, `gShellInFlight`, `gShellDraining`, `gShellForegroundAt`; `gShellMutex` | queue, drain, wait for quiet, precache, note foreground activity | `ShellRevalidation` |
| Disk cache: entry files (m:822-987, 1321-1342) | a directory of entry and partial files, `gCacheSerial`, open descriptors and mappings | open, append, commit, abandon, read, remove, rewrite after a 304 | `AtomicCache`, `CacheStore` |
| Disk cache: sweeping (m:990-1142) | `gCacheBytes`, `gCacheWrittenDuringSweep`, `gCacheCounted`, `gCacheSweeping`; `gCacheMutex` | `cacheNoteWrite`, `sweepCache`, `sweepOnce`, the sweep `installCache` schedules | `CacheSweep` |
| Disk cache: policy (m:624-820, 1144-1367, 2230-2320) | none of its own; reads entries and replies | verdict, freshness, Vary, storability, invalidation | `HttpCache` |
| DNS cache and connecting (m:74-290) | `gDNSCache[16]`, candidate sockets; `gDNSMutex` | copy, store, race of addresses | `DnsCache` |
| TLS sessions of the stack (m:292-309, 342-396) | `gSessions` under `gPoolMutex` | remember, offer | as a user of `gPoolMutex` in `ConnectionPool` |
| Secure Transport over OpenSSL (tls:) | a list of contexts, 32 session slots, what each context's connection has read; two locks | `SSLHandshake`, `SSLRead`, `SSLWrite`, `SSLClose`, setters, getters | `SecureTransport`, `SessionTable`, `TlsShim` |
| Loader (`platform/safari/rev-safari-tweak.c`) | three environment variables of a process | decide, set them, `execv` once | `Processes` |
| Safari compatibility library (`platform/safari/safari-compat.mm`) | replaced methods, preferences read once | install at load | its constructor in `Processes` |
| Preferences (`platform/prefs`) | one property list | read, write | the switch of an app in `Processes` |
| iOS 6 stubs (`compat`) | values made on first use: a table, a thread-local key, a list of families, a colour space, a function pointer | symbol replacements | `LazyValues`, `OwnedReferences` |
| Tools (`tools`) | the daemon's `lastPid`; process lists | raise a memory limit, list, post touches | `Processes`, `OwnedReferences` |
| WebAssembly bridge (`platform/safari/RevWasm.m`) | modules, instances, wasm3 memory and its JavaScript mirror | compile, instantiate, call, import callbacks | not modelled |
| Web view host (`app/rev-webview-host.m`, `app/WebKitUIKitDelegate.m`) | keyboard, selection and layout flags over UIKit callbacks | view and gesture callbacks | not modelled |
| Recipes, scripts, tests, documents | - | - | not modelled |

How the parts interact. WebKit's loader creates one `ModernTLSURLProtocol` per request and
calls `startLoading` and `stopLoading` on the client's thread; a worker runs
`performRequest`. It looks at the disk cache (`answerFromCache`), takes a connection from
the pool or makes one (DNS cache, then TLS with a remembered session), runs `exchangeOn`,
posts what the client is to hear to the client's thread, writes the body to a cache writer
beside that, and returns the connection. A commit tells the running total, whose writer may
then sweep the directory. A response that the app-shell policy served stale is queued for
a background revalidation, which is a load like any other, with no client. Four mutexes
guard the shared parts (pool, DNS, cache total, shell queue); the directory is shared
without a lock, through the semantics of `rename` and `unlink`.

Inside Safari the loader has put the engine, `safari-compat` and `tls-openssl` into the process.
CFNetwork, which knows nothing of this, calls the Secure Transport functions; the TLS library
finds the structure of a context in a list, drives OpenSSL over CFNetwork's own read and write
functions, and keeps one table of sessions for all contexts. The daemon outside reads the pid of
the browser and raises its memory limit.

What is hard, and what makes each part correct:

- *Load.* The worker and the client's thread race over `_cancelled`; a connection fails in
  the middle of a body; a request is repeated. Correct: the client hears one
  legal sequence of calls and nothing after a stop, the sequence ends, what is stored is
  what was delivered and whole, and a connection is kept only where a response ended.
- *Pool.* A connection is taken under the lock and probed outside it, the probe itself may
  take the lock, servers close and send while nobody reads. Correct: one owner, no leak,
  no deadlock; and since a probed connection may go stale or dirty before the request is written,
  a retry, at most one for each reason.
- *Revalidation.* The drain block decides to stop while a request is being queued. Correct:
  no lost wakeup, one block, no key twice, every queued request runs, none beside the
  foreground.
- *Entry files.* Readers, writers, the sweeper and crashes share a directory. Correct: a
  reader sees the whole of one version, a writer has its file to itself.
- *Sweeping.* The total is replaced by a listing that was overtaken while it was taken, or that a
  failing call cut short. Correct: one sweeper, the total never falls behind what the listing
  did not miss, every sweep enforces the bounds on that as far as files can be unlinked, and ends.
- *Policy.* What is fresh is worked out from dates of two clocks, ages told by proxies and the
  time a reply was under way, and a 304 renews it piecemeal. Correct: nothing stale passes for
  fresh, no request gets a representation made for another, no 304 renews another body.
- *DNS.* Two requests resolve one host at a time, entries are evicted and expire, sockets race.
  Correct: a name is in the table once, exactly one socket survives, one failure ends no race.
- *TLS library.* Pointers are used after the lock that guarded the list is released, while other
  contexts close; hosts crowd the session table; a handshake is repeated after a partial failure;
  OpenSSL holds bytes that the socket no longer shows. Correct: no freed structure is used, a
  session goes to its own host, no reference is lost, the caller sees a Secure Transport
  connection and gets every byte.
- *First use.* Several threads ask at once for a value that is not made yet. Correct: they share
  one whole value, and nothing made in vain is left.
- *Ownership.* A chain of Create functions fails in the middle. Correct: what is owned is released
  once, what is borrowed is not, nothing is used after it is gone.
- *Processes.* The loader's constructor runs in the process it executes; pids and preferences
  change. Correct: one `execv`, no hooks without the engine and no engine unasked, the limit of the browser that runs is raised.
- *WebAssembly.* Two copies of one memory, re-entrant calls.

`PROJECT.json` lists every hazard at its line with the properties that cover it.

## Modules

### ShellRevalidation

One step per critical section of `gShellMutex`, and one per stretch of `shellDrain` between
two. `ServeStale` and `Precache` are the two producers, `StartBlock` ... `FinishRun` the
drain block (`stage` says where it is), `ForegroundActivity` what `shellNoteForegroundActivity`
is called for. Time is four ages that `TimePasses`
advances, each capped where the code no longer
tells values apart; `quiet` is the age of the foreground's last activity, `noted` what
`gShellForegroundAt` knows of it, `sampled` the copy that `shellWaitForQuiet` decides on.
The request itself is one step that refreshes the entry or fails.

### ConnectionPool

`performRequest` from `takeIdleConnection` to `returnIdleConnection`, for any number of
workers. `gPoolMutex` is held at the program counters in `LockedAt`, so each critical
section is entered and left in different steps and everything that needs no lock happens
in between. `wire` is what a server has put on an idle connection: nothing, a session
ticket, bytes, bytes already in a buffer, or the end. `IsUsable` is `-isUsable`; its one-byte
read of a ticket calls `rememberSession`, which takes `gPoolMutex` (`ProbeMayRun`). Between the
probe and the request (`BeginExchange`) the server may still send or close (`PeerActs`): a request may
go out on a connection that is no longer usable, which `Unanswered` and its retry are for. What
`exchangeOn` does after that is one step with its four outcomes. A `Conns` value that is closed stands
for a connection not made yet.

### AtomicCache and CacheStore

`AtomicCache` is what readers are promised: a map from keys to whole responses. `CacheStore`
is the directory: names to inodes, `Referenced` the inodes the file system must keep, one
step per system call that another worker or process could notice. `Die` kills the process or
the power at any point; a power failure keeps any prefix of what no `fsync` covers. Process
numbers are used again, so the `partial-<pid>-<serial>` names of a dead process meet those of
a live one (`Opened`). `ImplementsAtomicCache` is the refinement: an entry maps to the
response its file wholly holds, or to `Torn`, which no abstract step produces.

`Seal` is `-commit` up to its `fsync`, whose result the code does not look at (m:968): it may fail.
Assumed: the power does not fail where a published entry's `fsync` failed before (`AllSynced`); after
that the file system may leave any bytes under the name. That a writer seals only the whole of its
body is its caller's doing, which `UrlExchange` models.

Abstractions: a change of the directory survives a power failure at once (iOS's HFS+ journals
metadata); `utimes` is left out; which entry the sweeper evicts is left open (`Unlink`).

### CacheSweep

The total and the sweeps: `Commit` is the rename, `Note` is `cacheNoteWrite`, a sweep lists
name by name (`ListFile`, `PassOver`) and unlinks file by file (`Evict`), with commits and
removals between any two steps. A name created after `opendir` may or may not be listed
(`fresh`). Every call of the walk may fail: `opendir` or `realloc`, and what is left of the listing is given
up (`GiveUp`, m:1010, m:1043), `stat`, and a file is left out (`FailToStat`), `unlink`, and it stays
(`FailToEvict`, m:1062). The code goes on after each, and takes the walk for a finished one; `missed`
and `refused` keep what that left out for the properties. Sizes are small numbers of which only the comparisons matter; data and metadata are
kept apart because `cacheNoteWrite` counts header and body while `sweepOnce` counts the file.
The order by modification time is left open, so what holds, holds for every choice of victims.

### HttpCache

What may be answered from the disk. `Verdict`, `Age` and `FreshnessLifetime` are
`verdictForEntry`, `entryAge` and `entryFreshnessLifetime` over heads in which a date is a number
on the origin's clock (`skew` off ours) and `Cache-Control` a record; `Merged` is
`mergeStoredHeaders`. A load is `Answer` (`answerFromCache`), `Send` (where `_requestTime` is
taken), one of the three receipts of `exchangeOn` (a 304 that confirms, a 304 that does not match,
any other reply) and `Commit`. `origin` is the log of what the origin had and when; `Replies` are
all replies HTTP allows a worker to get: made by the origin since the request, or before and sent
on by a proxy with an `Age`. An entry bears what it never tells the code: which representation
it is (`of`), when that was made or last confirmed (`made`) and the lifetime it was then given;
the properties compare the code's arithmetic with these. An entry that varies on a field the
request does not send holds a NSNull, which a property list cannot, so it is not stored
(`Encodable`). The shell policy's stale answers are `ShellRevalidation`'s. Left out: how dates
and directives are parsed, requests that keep out of the cache, `public` and `private`.
`invalidateCacheForRequest` is one of the removals that `Evict` stands for. An origin that sends
`Expires` is taken to send `Date` (RFC 9110, 6.6.1); without it the lifetime is as wrong as the
clocks differ. `NewStates` is what an origin may go over to: a new representation, or another `Vary`.
Of `Vary` only the refuted `RightVariant` speaks; the two properties of the run hold although it changes.

### DnsCache

`connectToHost` for any number of workers. Each of the two critical sections of `gDNSMutex` is a
step (`DnsCacheCopy`, `DnsCacheStore`), with the time the worker read before it (`read`), so that
lookups, evictions and the clock interleave. The race goes socket by socket: `OpenSocket` with
`connect`'s three outcomes, `Answer` for the network, `Scan` for what follows one `poll`. A socket
is named by the place of its address in the list, of which only the length matters, so the sockets that
wait are a set of numbers and "in order" is `<=`; `open` is what has a descriptor, `blocks` what blocks
again. The table keeps as many addresses as have place and fit, or none (`DnsCacheStore`).
`late` is the deadline or a signal that ends `poll`.

### SecureTransport, SessionTable and TlsShim

`SecureTransport` is what CFNetwork relies on: the states a context reports, and a stream that is
handed over in order, whole, and only under a handshake. `SessionTable` is `g_sessions`: where a
host may be stored and where it is looked for. `TlsShim` is the library. Calls on one context are
CFNetwork's to order; calls on different contexts interleave, and a call has a step of its own
wherever it gives up a lock that the next step takes: `CallHandshake` and `CallClose` find the
structure, `StartSession`, `HandshakeDone` ... work with the pointer (`at`), `Remember`, `Store` and
`Drop` are the parts of `rememberSession`. `obj` is the memory of the structures, linked ones in
`sessions`; `live` counts the references to each `SSL_SESSION`. `stream` is what the peer sent, how
much of it OpenSSL has decrypted (`opened`) and how much the caller was given; `buffered` is what
the caller learnt from `SSLGetBufferedReadSize`. `Faults` says which failures an instance has,
`Busy` which contexts have a peer. A failed start leaves an SSL without a BIO (`"bare"`).

`ImplementsSecureTransport` maps the state that `SSLGetSessionState` would report, and the bytes,
to `SecureTransport`. Of `SSLWrite` only the request for a session at the next first byte is kept,
because the bytes it takes are OpenSSL's at once.

### LazyValues

Seven values that C sources make on first use, each behaviour about one (`site`): a table under
`pthread_once`, the `SSL_CTX` under one lock, the list of families in two critical sections with the
work between, the thread-local key by compare and swap, and three values made with no
synchronisation. A value is an object that exists in part before it is whole. Each call that makes one may
fail; `dlopen` and `dlsym` of MobileGestalt as well, and then `resolved` keeps it so for good
(`LoadGestalt`, compat/ios6_missing.c:128-132). A thread that asks between `resolved` and the
function's address answers 0, which no document rules out. The clock's
factor of compat/ios6_compat.c:11-16 is left out: every thread works out the same number.

### OwnedReferences

Functions that create, borrow, insert and release references. Each is a script in the terms of
Core Foundation's ownership rules - make, borrow, put into a container, use, release, return - and
the actions run a script on every path: a Create may fail, an argument may be `NULL`, a loop may
end at any round. What a reference is to (an object, a descriptor, `malloc`ed memory) makes no
difference to who must give it up. An array's element is used through the array that holds it. Allocations whose result the code does not test cannot fail, and there is
always an object left to make (`Free`, `Arguments`): in the checked instance that never stops a function.

### Processes

Apps from launch to death under pids that are used again. `Skip`, `SecondPass`, `SetEnvironment`
and `Execute` are the loader's constructor, before and after its `execv`; `StartPageInit` is
that of the compatibility library, in the process the loader has made. `WatcherStep` is `watch` of
`raise-memory-limit.c`, one step for each question it asks of the system, with launchd's restarts.
An entry of the preference is a boolean, a number (a property list may hold one, and another program
may write it: `WriteEntry`) or not there. The loader takes only booleans for entries
(`LoaderEnabled`, rev-safari-tweak.c:24); the library asks whatever is there for its `boolValue`
(`CompatEnabled`, safari-compat.mm:424).

### UrlLoad and UrlExchange

`UrlLoad` is the contract of an `NSURLProtocolClient`: a response, then data, then one finish
or error; or one redirect; nothing after a stop. `UrlExchange` is one load: the worker
(`Worker`), the client's thread that handles posted calls in order and may stop the load
between any two, any server, and the cache entry of the request. The state is the worker's
`pc`, the calls `posted` and `handled`, the `reply` being read with what is `unread` of it,
and the `writer`. A reply is its kind (page, image, redirect, redirect with no usable target,
304) and its framing (length, chunked, chunked with a size line that is no number, none, until close).
Of such a line `strtoull` makes 0, the end of the body (`ReadGarbled`, m:2057). A body is a sequence of parts named
by the attempt and their number, which is what lets "byte for byte" be stated. Head parsing,
gzip and image transcoding are their outcomes. A load without a client (the background
revalidations) is not in this module.

## Runs

Every run passes and explores its instance completely.

| Run | Instance | What it shows |
|---|---|---|
| `shell_revalidation` | 3 keys, a queue of 2, deadline above the quiet period | the queue overflows, a key is queued while it runs, enqueue races the end of a block; with fairness every queued request runs |
| `connection_pool` | 2 requests, 3 connections, a bucket of 1 | probe, take, expire, trim and retries interleave, servers send and close between probe and request; a returned connection displaces another; no request is sent more often than its two retries explain; both requests end |
| `cache_store` | 2 keys, 2 workers, 3 inodes, 2 process numbers, 1 death, 3 files | two writers of one key, a rewrite beside a store, partial files met again after a crash, an entry too long for the cache, an `fsync` that fails |
| `cache_sweep` | 2 names, 2 writers and the boot sweep, 2 commits | overlapping commits and sweeps from any directory, with `opendir`, `stat`, `realloc` and `unlink` failing anywhere; every sweep ends |
| `http_cache` | 1 load at a time, 3 kinds of origin (`max-age` without dates; `Expires`, `Date` and `Vary`; only `Last-Modified`), clocks apart by 1 either way, lifetimes of 2 over 3 ticks, 1 change of the origin, to a new representation or of its `Vary` | replies are under way while the clock ticks and the representation changes; old ones come from a proxy; 304s confirm or not |
| `url_exchange` | bodies of up to 2 parts, a drain limit of 1 | all replies, framings (garbled chunks too), failures and cancellations of one load |
| `dns_cache` | 2 workers, 3 names, 2 slots, 2 addresses of which the table keeps 1, entries that expire after 1 of 1 ticks | eviction, renewal and two lookups of one name meet; sockets connect, fail and stay open in any order |
| `tls_sessions` | 2 contexts, 2 hosts with the same 2 slots, 5 sessions | one context closes, or stores in a slot, while the other is anywhere in a call; each host finds a slot |
| `tls_stream` | 1 context, 2 hosts that crowd 1 slot, 2 records of 2 bytes, reads of up to 3 | every failure of start and handshake, both ends of a stream, tickets between records; the reader gets all of it; the session of a host that finds no slot is released |
| `lazy_values` | 3 threads, 4 objects, each of the 7 values | every interleaving of three first uses, of failures, and of a use after one |
| `owned_references` | 20 functions, any arguments `NULL`, containers of up to 3 elements, calls in any order | every path through every function |
| `processes` | 3 apps, 2 pids, 1 change of the preference (a switch, or the number 0), 1 restart of the watcher | pids used again between two looks, a switch during a launch, a failed `execv`, an entry that the two readers understand differently |

Why the bounds are enough. The interesting cases need two actors and one resource in short supply, and each
instance has that: a queue shorter than the keys, a bucket shorter than the requests, one file name met by
two processes. `MaxSerial` and `MaxDeaths` of `CacheStore`, `MaxWrites` of `CacheSweep` and `MaxBody` of
`UrlExchange` bound counters that only say how often things happen. In `tls_sessions` the hosts have one
hash, so that each is in the other's way, and only one context has a peer: what is shared are the list, the
table and the references, and for those two contexts are all there is to interleave. The functions of
`OwnedReferences` share only the cached families. `HttpCache` has one worker because each of its properties
is about one entry by itself, and `Evict` lets the entry under validation disappear. `ages` are capped, not
bounded. The theorems below hold without any bound.

Symmetry is used where the properties are invariants, or a refinement without fairness, of sets whose
members are interchangeable: keys, workers and inodes in `cache_store`, workers and names in
`dns_cache`, threads and objects in `lazy_values`, structures and hosts in `tls_sessions`.

Deadlock is checked where the system never stops (`ShellRevalidation` and `ConnectionPool`, where
ages tick on, and the modules in which new calls, lookups or launches always may come: `DnsCache`,
`TlsShim`, `LazyValues`, `OwnedReferences`, `Processes`). In the others a load or a bounded number
of commits comes to an end.

The type invariants of all modules (`TypeOK`) and `PublishedWhole` hold in the same
instances. They are in no run: most are proved (below), and what `PublishedWhole` says follows from
`ImplementsAtomicCache` too, since `Torn` is the value of no abstract step.

## Fairness

- `ShellRevalidation`: weak fairness of the drain block (libdispatch runs a queued block, a
  background request has timeouts) and of `TimePasses`.
- `ConnectionPool`: weak fairness of each request's next step. Every blocking call has a
  timeout (m:30-32) and a critical section of `gPoolMutex` waits for nothing.
- `CacheSweep`: weak fairness of each thread that has committed or sweeps. A walk of a finite
  listing ends; commits are not fair, and are bounded, so `SweepEnds` says that a sweep that is
  no longer outrun ends, not that one is never outrun.
- `UrlExchange`: weak fairness of the worker (read deadlines, m:1998-2034) and of the client's
  run loop. Nothing is assumed of the server: that it answers, ends or keeps a body coming is
  a choice of each step, and `MaxBody` stands for the deadline of an exchange (m:426-430).
- `TlsShim`: weak fairness of a call that is under way, whose transport does not block, and strong
  fairness of CFNetwork's asking and reading while there is something to read: that it does is what
  it has a read loop for. Nothing is assumed of the peer.
- `Processes`: weak fairness of an app that starts and of the watcher, which loops; strong fairness
  of `RaiseFor`: the kernel does not refuse a live process's limit for ever (the code tries each
  second for this reason).

## Proofs

`ConnectionPool_proofs` proves, for any number of requests, connections and hosts and any
limits, `TypeOK`, `OneOwner`, `OpenAreOwned` and `RetriesBounded`. The invariant `IInv` adds
`Ownership` (who holds a connection at which program counter, and that buckets and holders are
disjoint) and `RetryPhase` (how often a request may have been sent when it is at a given place with
given flags), which bounds the attempts. Lemmas about buckets say what removing a prefix, appending and popping do to the
connections in a bucket and to their being distinct.

`HttpCache_proofs` proves, for any workers, requests, profiles, clock differences and changes of the origin
(those of `Vary` too), `FreshMeansFresh` and `ConfirmedAsMade`. Neither is inductive: a held or half-written
entry is committed later, so `EntryInv` says the same of every entry in `Held`, and says more: some state of
the origin made its head, field by field, as far as freshness and validation use it, and its `Age` with the
time under way covers how old it is (`Corrected(e) >= received - made`). `MergedAs` shows that a merge
leaves the new reply's head, because a representation keeps its rules and its date; `LifetimeAsAssigned`
that the lifetime found is the one given, the clocks' difference cancelling out; `AgeCovers` that the age is
never too small. `RightVariant` is not among them: TLC refutes it (below).

`TlsShim_proofs` proves, for any contexts, structures, hosts, hash and table, `TypeOK`, `PointersLive`,
`KeptIsOffered`, `SessionsCounted`, `ResumedIsOfHost`, and that `TlsShim` implements `SecureTransport`.
The invariant of the first adds to what the property says which program counters
hold a pointer and that a context has one structure at most (`Own`): then `SSLClose` of one context can
only free its own, and its own call is not under way. That of `KeptIsOffered` is about the table alone: a
host is in one of its own slots, and every slot it might have had before that one is taken by another
host for ever, because no slot is emptied; so the slot where it would be stored next is the one where
it is looked for. `RInv` is about references: the holders of a session are a finite set (`FiniteHolders`),
a call that is about to store one still holds it (`HeldToStore`), and a session's count is the number
of its holders, so that it cannot be freed and its address used again under anybody.
`ClaimsHold` then ties what a structure resumes to the host it was stored for. The refinement rests on
`EInv`: a call shakes hands on a structure that is not yet connected and a read is told no end before
its own (`Engaged`), and of each stream no more is told than was decrypted and no more decrypted than
was sent, in whole records (`Flows`).

`CacheStore_proofs` proves, for any keys, workers, inodes, process numbers and file lengths, `TypeOK`,
`WritersApart`, `PublishedWhole` and that `CacheStore` implements `AtomicCache`. The invariant says who
refers to an inode: names and readers that must not share one do not (`Apart`), a writer's name bears
this process's number and a serial of its own (`Named`), every published file holds the
whole of a response to its key (`AllStored`), and a writer's file holds what it has appended so far, all
of it once it is to be renamed (`AllInFile`). Each lemma about a step then says which contents it changes
and that nothing published is among them; a reader keeps its inode, so an unlink or a rename changes the
map and not what the reader has. The refinement follows step by step: `Rename`, `Unlink`, `Read`,
the end of a reader and a death are steps of the map, and all others stutter.

`CacheSweep_proofs` proves, for any threads, names, sizes and limits, `OneSweeper`, `TallyCovers` and
`SweepEnforcesBounds`, whichever calls fail. What is still there of what a sweep has listed (`Listed`) is no
more than it has counted (`kept`), and a name from before the sweep is listed, still to be listed or missed
(`Walk`): removals by others only make that more true, and a file that `unlink` refuses stays counted.
Bytes follow the same argument. A sum over a set of files is written
as the number of their units (`Total`), so that adding and removing a file are facts about
cardinalities (`TotalSplit`, `TotalChange`) and no induction is needed. `TallyCovers` is about the files that the walk did not
miss and commits that overlap a sweep: a file is still as the sweep listed it, or it is newer and its bytes are noted or
about to be (`Listings`, `FreshNoted`, `NotedAtOnce`), so the bytes on the disk are never
more than what the sweep has counted, what was noted meanwhile and what is yet to be noted.

`Shared_proofs` proves, for any threads and objects, `TypeOK`, `OneValue`, `NothingLost` and
`SettlesWhole`. The invariant has a part for each value (`TableInv`, `SharedInv` ...), since each is
made by other steps and fails by other ones: under a lock there is one maker and everybody else waits; with compare and swap each
maker owns what it made until one of them succeeds; with nothing at all, the static is only ever set to
something whole.

`Shared_proofs` extends three more small components whose state many share, which is why `DnsCache`,
`Processes` and `ShellRevalidation` give their specifications names of their own (`DnsSpec`, `PhoneSpec`,
`ShellSpec`). For any workers, names, number of addresses and clock, `DnsCache` satisfies `DnsTypeOK`,
`OneEntryPerName`, `OthersAreClosed` and `FailsForAReason`. The table by itself suffices for the first: a
name that is there once has one slot of its own, and `SlotFor` is that slot (`OwnSlot`). For the sockets,
`Racing` says where each one is: what is open waits or is the one returned, never both, a socket yet to be
opened does not wait, and who closes the rest has a winner, nothing that waits, or no time. And for any
apps, pids and changes of the preference, `Processes` satisfies `ReadersAgree`: `Launching` says what is in
a process at each place of its launch, as long as its app was not switched; where the
loader finds an app enabled and the library does not, the entry is the number 0 of Safari
(`ReadersDiffer`). `PhoneTypeOK` holds, and so does the safety in
`LimitIsRaised`: the pid that the watcher passes over is alive with its limit raised, or died and was not
yet looked for (`Remembered`), and such a pid is not given out again.

Of `ShellRevalidation` it proves, for any keys, limit and periods, `ShellTypeOK` (with the bound of the
queue), `InFlightExact`, `OneDrain` and `NoLostWakeup`. The inductive invariant is their conjunction with
`HoldsRequest`: that the block holds a request exactly from taking to finishing it is what makes "running"
and "in flight" move together. `NoLostWakeup` is not inductive by itself; with `OneDrain` it is, because the
flag that the enqueuing thread tests and the blocks that exist are then the same fact.

`OwnedReferences_proofs` proves, for any objects, any length of the loops, any argument `NULL` and any
failing call, `TypeOK`, `NeverDangling` and `Balanced`. Its first part is about any script. An assertion
(`Knows`) says of a place in it which names own a reference there, which are set, which are `NULL`, and
which are borrowed from what; `Sound` says what the step at that place asks of the assertion, and what then
has to hold wherever it may lead. A place is `Good` when it belongs to a set of places and assertions that
lead only to each other (`Closed`), which is how a loop is gone round any number of times without an
induction: its head is one of the places its body may lead to. `Fits` ties an assertion to a state: the
names in `own`, and the cache, refer to different objects, which they own once and nobody else does, and
what is borrowed is held by what is owned; one lemma for each kind of step shows that `Fits` survives it.
The second part gives the assertion at each place of each of the twenty functions, from the last line to the
first. The invariant is then that the rest of the script is `Good` with an assertion that fits, and what
`Sound` asks of a return is what `Balanced` says.

`UrlExchange_proofs` proves, for bodies of any length and any drain limit, `TypeOK`, `ReturnedAtEnd`,
`LengthsCatchTruncation`, `StoredIsDelivered`, `ReplayIsTheEntry`, that a request is sent at most three
times, and that `UrlExchange` implements `UrlLoad`. The invariant of the first counts: while a
reply is read, `unread` is what its framing announced less what was `taken`, and a writer that still
exists was given exactly the parts taken (`During`); where the framing tells the end, "whole" then means
that all of it was taken. A connection that is kept has nothing unread (`After`). `Sendings` adds to the
attempts the retries that the request may still cause, which only ever become fewer. For what the
client hears, `PInv` says what has been posted at each program counter: it was told
what was posted first, and all that has been handled unless it stopped the load (`Heard`); a response or
a redirect comes first, and nothing after an end (`Ordered`); before the response nothing is posted
(`Quiet`) and after a finish nothing is done (`OverWhenFinished`). The parts of a body that were taken
are the data that was posted (`Underway`), hence a stored body is a delivered one. Under the
mapping a step that posts or delivers is a step of `UrlLoad`, and every other one stutters.

The proofs assume only the constants' assumptions that each module names.

Every safety invariant and every refinement that a run checks is stated by a theorem. Only model-checked
is the liveness (`EveryRevalidationRuns`, `EveryRequestFinishes`, `SweepEnds`, `EveryLoadEnds`,
`EveryByteArrives`, `LaunchEnds`, `LimitIsRaised`), which needs fairness and `ENABLED`.

## Where the code and its documents disagree

These statements of the documents are defined beside the properties; TLC refutes each of them when it
is put into the configuration named, with the constants named.

- `QuietBeforeRun` (`MCShellRevalidation`, `QuietPeriod = 2`, `QuietDeadline = 4`, `ShellSpec`):
  docs/network.md:247 has the queue drain once the foreground has been quiet for two seconds. With the
  policy off, activity is not noted (m:1411) while precached requests still drain. With it on there is
  a second, short window: `shellWaitForQuiet` decides on a copy of the time after unlocking (m:1503).
- `KeepsMostRecent` (`MCCacheStore`, one key, one pid, `MaxSerial = 4`, `MaxDeaths = 0`, no symmetry):
  docs/network.md:126 says the cache keeps the most recent response; `-commit` renames over whatever
  is there (m:972), so a 304's rewrite can put an older one back.
- `SizeBounded` (`MCCacheSweep`, three names, `Capacity = 6`, `LowWater = 5`, `Entries = 2`): commits
  during a sweep that removes nothing leave the directory over its capacity and no sweep due (m:1095),
  against docs/network.md:168.
- `EntryCountBounded` (the same instance): docs/network.md:170 has a bounded entry count; only bytes
  make a sweep due (m:1119).
- `TallyCoversAll` (`MCCacheSweep`): docs/network.md:179-181 warns that a total from a walk that has not
  finished is no number. A walk that `opendir` refuses (m:1010) or that gives up when `realloc` fails
  (m:1043) is taken for a finished one, so the total may be far too small.
- `RightVariant` (`MCHttpCache`): docs/network.md:126 treats a mismatch of `Vary` as a miss. A 304 that
  adds `Vary` changes the stored head (m:2470) but not the recorded values (m:2510), so nothing
  mismatches.
- `CommittedWhole` (`MCUrlExchange`): docs/network.md:113 rules out a partial representation that reads
  back as whole; for a body that ends with the connection a reset or timeout is taken for the end
  (m:2086), and in a chunked one a malformed size line is (m:2057).
- `SharedIsWhole` (`MCLazyValues`): docs/network.md:41 has one SSL_CTX, built under a lock. `startSession`
  reads `shared` again after the unlock (tls:241): a call whose `SSL_CTX_new` failed may then take the
  context that another call is still setting up, and use it half-made.

Statements that are met only approximately and have no definition: a full revalidation queue drops the
request of a response that was served stale (m:1578, docs/network.md:212); a bucket is not strictly
"oldest first" (m:45), because `_idleSince` is set before the lock is taken (m:575), and `-isUsable`
rejects what expiry then misses; a number 0 as the entry of Safari brings in the engine without its hooks
(no document speaks of numbers); sessions are remembered "per host"
(docs/network.md:51) only while one of the host's four slots is free (tls:183).

## Plan

1. Compositions: `UrlExchange`'s choices of a verdict become calls of `HttpCache`; `ConnectionPool` with
   `UrlExchange`'s exchange in place of its one step.
2. `WasmBridge`: the memory mirror under re-entrant calls.

## Not modelled, and why

WebKit itself, OpenSSL, wasm3 and UIKit are outside the repository. Recipes, scripts, the measuring
tools and packaging run once and keep no state. The hosts and the panels are callbacks of one thread
over state that UIKit owns. The WebAssembly bridge runs on JavaScript's thread alone; what is hard in
it is arithmetic on addresses, not order.

Of `tls-openssl.c`: the interposing table, the log and the setters that ignore their argument. Of
`compat`: functions that keep nothing (clocks, random bytes, geometry), the names and constants that
are only data, and `openat` and its kin, which resolve a path and then use it: another thread may move
the directory between the two, and iOS 6 has no call that would rule it out. Of the compatibility
library: the methods it replaces. In `OwnedReferences`, functions whose every reference is borrowed.
Wall-clock steps backwards are left out: idle times, expiry and ages are differences of a clock
that only moves on.

## Running

    tlc -config MCShellRevalidation.cfg MCShellRevalidation
    tlapm Shared_proofs.tla

`PROJECT.json` names the module of each configuration under `runs`. The longest takes about three
and a half minutes with two workers.
