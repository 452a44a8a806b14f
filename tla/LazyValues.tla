------------------------------ MODULE LazyValues ------------------------------
(***************************************************************************)
(* The process-wide values that the C sources make when they are first     *)
(* asked for, by several threads.  Each behaviour is about one of them,    *)
(* `site':                                                                 *)
(*   crc32Table      pthread_once (compat/ios6_compat.c)                   *)
(*   shared          one lock around all of it (tls-openssl.c)             *)
(*   cachedFamilies  two critical sections, the work between them          *)
(*                   (compat/ios6_coretext.c)                              *)
(*   m_keyPlusOne    compare and swap (compat/stubs/ios6_dispatch_compat.h)*)
(*   method, deviceRGB, copyAnswer   nothing (tls-openssl.c,               *)
(*                   ios6_coregraphics.c, ios6_missing.c)                  *)
(* A value is an object that exists in part before it is whole; `cell' is  *)
(* the static that holds it.                                               *)
(***************************************************************************)
EXTENDS Naturals

CONSTANTS
    Threads,
    Values,  \* objects, keys and pointers
    None

ASSUME LazyAssumption == None \notin Threads \cup Values

VARIABLES
    site,
    pc,     \* where each thread's call is
    cell,   \* the static
    flag,   \* MGCopyAnswer's `resolved'
    lock,   \* who builds under the lock, or in pthread_once
    state,  \* of each value: "none", "part" or "whole"
    mine,   \* the value that each thread's call has in hand
    seen    \* what the last call of each thread used: a value's state, or "none"

vars == <<site, pc, cell, flag, lock, state, mine, seen>>

Guarded == {"crc32Table", "shared"}
Synchronised == Guarded \cup {"cachedFamilies", "m_keyPlusOne"}
Sites == Synchronised \cup {"method", "deviceRGB", "copyAnswer"}

TypeOK ==
    /\ site \in Sites
    /\ pc \in [Threads -> {"idle", "check", "make", "build", "store", "drop", "unlock", "use"}]
    /\ cell \in Values \cup {None}
    /\ flag \in BOOLEAN
    /\ lock \in Threads \cup {None}
    /\ state \in [Values -> {"none", "part", "whole"}]
    /\ mine \in [Threads -> Values \cup {None}]
    /\ seen \in [Threads -> {"none", "part", "whole"}]

Init ==
    /\ site \in Sites
    /\ pc = [t \in Threads |-> "idle"]
    /\ cell = None
    /\ flag = FALSE
    /\ lock = None
    /\ state = [v \in Values |-> "none"]
    /\ mine = [t \in Threads |-> None]
    /\ seen = [t \in Threads |-> "none"]

At(t, place, s) == pc[t] = place /\ site = s
Go(t, place) == pc' = [pc EXCEPT ![t] = place]
Take(t, v) == mine' = [mine EXCEPT ![t] = v]
Make(v, how) == state[v] = "none" /\ state' = [state EXCEPT ![v] = how]
Complete(v) == state' = [state EXCEPT ![v] = "whole"]

\* A caller owns the array of family names it got, and releases it.
Call(t) ==
    /\ pc[t] = "idle"
    /\ Go(t, "check") /\ Take(t, None)
    /\ state' = IF site = "cachedFamilies" /\ mine[t] # None
                  THEN [state EXCEPT ![mine[t]] = "none"]
                  ELSE state
    /\ UNCHANGED <<site, cell, flag, lock, seen>>

\* The rest of the code works with what it found.
Use(t) ==
    /\ pc[t] = "use"
    /\ seen' = [seen EXCEPT ![t] = IF mine[t] = None THEN "none" ELSE state[mine[t]]]
    /\ Go(t, "idle")
    /\ UNCHANGED <<site, cell, flag, lock, state, mine>>

-----------------------------------------------------------------------------
(* crc32_z: pthread_once lets one thread build the table, and others wait *)

BeginTable(t) ==
    /\ At(t, "check", "crc32Table") /\ cell = None /\ lock = None
    /\ \E v \in Values : Make(v, "part") /\ cell' = v
    /\ lock' = t
    /\ Go(t, "build")
    /\ UNCHANGED <<site, flag, mine, seen>>

BuildTable(t) ==
    /\ At(t, "build", "crc32Table")
    /\ Complete(cell)
    /\ lock' = None
    /\ Go(t, "check")
    /\ UNCHANGED <<site, cell, flag, mine, seen>>

UseTable(t) ==
    /\ At(t, "check", "crc32Table") /\ cell # None /\ lock = None
    /\ Take(t, cell) /\ Go(t, "use")
    /\ UNCHANGED <<site, cell, flag, lock, state, seen>>

-----------------------------------------------------------------------------
(* startSession: contextLock is held from the test to the last setting *)

LockShared(t) ==
    /\ At(t, "check", "shared") /\ lock = None
    /\ lock' = t
    /\ Go(t, IF cell = None THEN "make" ELSE "unlock")
    /\ UNCHANGED <<site, cell, flag, state, mine, seen>>

NewShared(t) ==
    /\ At(t, "make", "shared")
    /\ \/ Go(t, "unlock") /\ UNCHANGED <<cell, state>>
       \/ /\ \E v \in Values : Make(v, "part") /\ cell' = v
          /\ Go(t, "build")
    /\ UNCHANGED <<site, flag, lock, mine, seen>>

SetShared(t) ==
    /\ At(t, "build", "shared")
    /\ Complete(cell)
    /\ Go(t, "unlock")
    /\ UNCHANGED <<site, cell, flag, lock, mine, seen>>

UnlockShared(t) ==
    /\ At(t, "unlock", "shared")
    /\ lock' = None
    /\ Go(t, "store")
    /\ UNCHANGED <<site, cell, flag, state, mine, seen>>

\* sslContext is set from `shared' after the unlock.
UseShared(t) ==
    /\ At(t, "store", "shared")
    /\ Take(t, cell) /\ Go(t, "use")
    /\ UNCHANGED <<site, cell, flag, lock, state, seen>>

-----------------------------------------------------------------------------
(* CTFontManagerCopyAvailableFontFamilyNames *)

LookForFamilies(t) ==
    /\ At(t, "check", "cachedFamilies")
    /\ IF cell = None
         THEN Go(t, "make") /\ UNCHANGED <<state, mine>>
         ELSE \E v \in Values : Make(v, "whole") /\ Take(t, v) /\ Go(t, "use")
    /\ UNCHANGED <<site, cell, flag, lock, seen>>

\* Without a collection or its descriptors the answer is empty, and not kept.
CollectFamilies(t) ==
    /\ At(t, "make", "cachedFamilies")
    /\ \E v \in Values : Make(v, "whole") /\ Take(t, v)
    /\ Go(t, "store") \/ Go(t, "use")
    /\ UNCHANGED <<site, cell, flag, lock, seen>>

\* Mutant: the cache is set again by every thread that looked before it was set.
StoreAlways(t) ==
    /\ At(t, "store", "cachedFamilies")
    /\ \E v \in Values : Make(v, "whole") /\ cell' = v
    /\ Go(t, "use")
    /\ UNCHANGED <<site, flag, lock, mine, seen>>

StoreFamilies(t) ==
    /\ At(t, "store", "cachedFamilies")
    /\ IF cell = None
         THEN \E v \in Values : Make(v, "whole") /\ cell' = v
         ELSE UNCHANGED <<cell, state>>
    /\ Go(t, "use")
    /\ UNCHANGED <<site, flag, lock, mine, seen>>

-----------------------------------------------------------------------------
(* IOS6ThreadLocal::key *)

LoadKey(t) ==
    /\ At(t, "check", "m_keyPlusOne")
    /\ IF cell = None
         THEN Go(t, "make") /\ UNCHANGED mine
         ELSE Go(t, "use") /\ Take(t, cell)
    /\ UNCHANGED <<site, cell, flag, lock, state, seen>>

CreateKey(t) ==
    /\ At(t, "make", "m_keyPlusOne")
    /\ \E v \in Values : Make(v, "whole") /\ Take(t, v)
    /\ Go(t, "store")
    /\ UNCHANGED <<site, cell, flag, lock, seen>>

\* Mutant: the key is stored without comparing.
SwapBlindly(t) ==
    /\ At(t, "store", "m_keyPlusOne")
    /\ cell' = mine[t] /\ Go(t, "use")
    /\ UNCHANGED <<site, flag, lock, state, mine, seen>>

SwapKey(t) ==
    /\ At(t, "store", "m_keyPlusOne")
    /\ IF cell = None
         THEN cell' = mine[t] /\ Go(t, "use")
         ELSE Go(t, "drop") /\ UNCHANGED cell
    /\ UNCHANGED <<site, flag, lock, state, mine, seen>>

DeleteKey(t) ==
    /\ At(t, "drop", "m_keyPlusOne")
    /\ state' = [state EXCEPT ![mine[t]] = "none"]
    /\ Take(t, cell) /\ Go(t, "use")
    /\ UNCHANGED <<site, cell, flag, lock, seen>>

-----------------------------------------------------------------------------
(* Nothing keeps two threads apart *)

LookForMethod(t) ==
    /\ At(t, "check", "method")
    /\ Go(t, IF cell = None THEN "make" ELSE "store")
    /\ UNCHANGED <<site, cell, flag, lock, state, mine, seen>>

NewMethod(t) ==
    /\ At(t, "make", "method")
    /\ \E v \in Values : Make(v, "part") /\ cell' = v
    /\ Go(t, "build")
    /\ UNCHANGED <<site, flag, lock, mine, seen>>

\* The setters are given the static, whichever method it holds by now.
SetMethod(t) ==
    /\ At(t, "build", "method")
    /\ Complete(cell)
    /\ Go(t, "store")
    /\ UNCHANGED <<site, cell, flag, lock, mine, seen>>

ReturnMethod(t) ==
    /\ At(t, "store", "method")
    /\ Take(t, cell) /\ Go(t, "use")
    /\ UNCHANGED <<site, cell, flag, lock, state, seen>>

LookForSpace(t) ==
    /\ At(t, "check", "deviceRGB")
    /\ IF cell = None
         THEN Go(t, "make") /\ UNCHANGED mine
         ELSE Go(t, "use") /\ Take(t, cell)
    /\ UNCHANGED <<site, cell, flag, lock, state, seen>>

CreateSpace(t) ==
    /\ At(t, "make", "deviceRGB")
    /\ \E v \in Values : Make(v, "whole") /\ cell' = v /\ Take(t, v)
    /\ Go(t, "use")
    /\ UNCHANGED <<site, flag, lock, seen>>

\* MGCopyAnswer says it has resolved the symbol before it has.
LookForAnswer(t) ==
    /\ At(t, "check", "copyAnswer")
    /\ Go(t, IF flag THEN "store" ELSE "make")
    /\ UNCHANGED <<site, cell, flag, lock, state, mine, seen>>

\* Mutant: a thread that finds the symbol missing leaves it at that.
ResolveOnce(t) ==
    /\ At(t, "make", "copyAnswer")
    /\ flag' = TRUE
    /\ \/ \E v \in Values : state' = [state EXCEPT ![v] = "whole"] /\ cell' = v
       \/ cell' = None /\ UNCHANGED state
    /\ Go(t, "store")
    /\ UNCHANGED <<site, lock, mine, seen>>

\* dlsym finds it in what is loaded already; or stores NULL for now.
Resolve(t) ==
    /\ At(t, "make", "copyAnswer")
    /\ flag' = TRUE
    /\ \/ /\ \E v \in Values : Complete(v) /\ cell' = v
          /\ Go(t, "store")
       \/ cell' = None /\ Go(t, "build") /\ UNCHANGED state
    /\ UNCHANGED <<site, lock, mine, seen>>

\* dlopen or dlsym may find nothing, and `resolved' stays set: what another thread
\* has stored stays too.  Where one thread has found MobileGestalt it is loaded, and
\* a later dlopen gives it to the next.
LoadGestalt(t) ==
    /\ At(t, "build", "copyAnswer")
    /\ \/ \E v \in Values : Complete(v) /\ cell' = v
       \/ /\ cell # None \/ \A v \in Values : state[v] = "none"
          /\ UNCHANGED <<cell, state>>
    /\ Go(t, "store")
    /\ UNCHANGED <<site, flag, lock, mine, seen>>

UseAnswer(t) ==
    /\ At(t, "store", "copyAnswer")
    /\ Take(t, cell) /\ Go(t, "use")
    /\ UNCHANGED <<site, cell, flag, lock, state, seen>>

-----------------------------------------------------------------------------

Step(t) ==
    \/ Call(t) \/ Use(t)
    \/ BeginTable(t) \/ BuildTable(t) \/ UseTable(t)
    \/ LockShared(t) \/ NewShared(t) \/ SetShared(t) \/ UnlockShared(t) \/ UseShared(t)
    \/ LookForFamilies(t) \/ CollectFamilies(t) \/ StoreFamilies(t)
    \/ LoadKey(t) \/ CreateKey(t) \/ SwapKey(t) \/ DeleteKey(t)
    \/ LookForMethod(t) \/ NewMethod(t) \/ SetMethod(t) \/ ReturnMethod(t)
    \/ LookForSpace(t) \/ CreateSpace(t)
    \/ LookForAnswer(t) \/ Resolve(t) \/ LoadGestalt(t) \/ UseAnswer(t)

Next == \E t \in Threads : Step(t)

Spec == Init /\ [][Next]_vars

-----------------------------------------------------------------------------
(* Properties *)

\* Where the code synchronises (pthread_once, a lock, a compare and swap), all calls
\* work with the same table, SSL_CTX or key, and never with one still being made: a
\* context each would mean a session cache each, a key each would lose what other code
\* stored under it.
OneValue ==
    site \in Synchronised =>
        /\ site # "cachedFamilies" =>
               \A t, u \in Threads :
                   pc[t] \in {"idle", "use"} /\ pc[u] \in {"idle", "use"}
                       /\ mine[t] # None /\ mine[u] # None
                   => mine[t] = mine[u]
        /\ site # "shared" => \A t \in Threads : seen[t] # "part"

\* "One SSL_CTX for the process, built under a lock" (docs/network.md:41), so nobody
\* meets a half-made one.  TLC refutes it: startSession reads `shared' again after the
\* unlock, when a call whose SSL_CTX_new failed meets the one a later call is making.
SharedIsWhole == site = "shared" => \A t \in Threads : seen[t] # "part"

\* And whatever threads made in vain is released: what exists is in the static or in
\* a call's hands.
NothingLost ==
    site \in Synchronised =>
        \A v \in Values : state[v] # "none" => v = cell \/ \E t \in Threads : mine[t] = v

\* Where it does not, the calls that meet in the first use may get less, but if any
\* of them made a value, then when they are over there is a whole one for every later
\* call, and no call undoes it.  If all failed there is none: `shared' is tried again
\* by the next call, while MGCopyAnswer answers 0 for good.
SettlesWhole ==
    (\A t \in Threads : pc[t] = "idle") /\ (\E v \in Values : state[v] # "none")
        => site = "cachedFamilies" \/ (cell # None /\ state[cell] = "whole")
=============================================================================
