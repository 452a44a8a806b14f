---------------------------- MODULE Shared_proofs -----------------------------
(***************************************************************************)
(* What the first use of a value promises, for any number of threads: the  *)
(* invariant has a part for each way in which the code keeps threads       *)
(* apart, or does not.  After it, three more that many share: the          *)
(* preference that the loaders read (Processes), the table of names        *)
(* (DnsCache) and the queue of revalidations (ShellRevalidation).          *)
(***************************************************************************)
EXTENDS LazyValues, Processes, DnsCache, ShellRevalidation, TLAPS

\* Only one value is ever made, and it is the static's.
OnlyCell ==
    /\ \A v \in Values : state[v] # "none" => v = cell
    /\ \A t \in Threads : mine[t] # None => mine[t] = cell

\* pthread_once: who builds the table is inside it.
TableInv ==
    /\ OnlyCell
    /\ \A t \in Threads : pc[t] \in {"idle", "check", "build", "use"}
    /\ lock # None => pc[lock] = "build" /\ cell # None
    /\ \A t \in Threads : pc[t] = "build" => lock = t
    /\ lock = None /\ cell # None => state[cell] = "whole"
    /\ \A t \in Threads : mine[t] # None => state[cell] = "whole"
    /\ \A t \in Threads : seen[t] # "part"

\* The lock: who makes or sets the context holds it.
SharedInv ==
    /\ OnlyCell
    /\ \A t \in Threads : pc[t] \in {"idle", "check", "make", "build", "unlock", "store", "use"}
    /\ \A t \in Threads : (lock = t) <=> pc[t] \in {"make", "build", "unlock"}
    /\ \A t \in Threads : pc[t] = "make" => cell = None
    /\ \A t \in Threads : pc[t] = "build" => cell # None
    /\ cell # None /\ state[cell] # "whole" => \E t \in Threads : pc[t] = "build"

\* What threads make in vain is in their hands until they release it.
FamiliesInv ==
    /\ \A t \in Threads : pc[t] \in {"idle", "check", "make", "store", "use"}
    /\ \A t \in Threads : pc[t] \in {"check", "make"} => mine[t] = None
    /\ \A v \in Values : state[v] # "part"
    /\ \A t \in Threads : seen[t] # "part"
    /\ \A v \in Values : state[v] # "none" => v = cell \/ \E t \in Threads : mine[t] = v

\* A key that was made and not stored is its thread's alone.
KeyInv ==
    /\ \A t \in Threads : pc[t] \in {"idle", "check", "make", "store", "drop", "use"}
    /\ \A t \in Threads : pc[t] \in {"check", "make"} => mine[t] = None
    /\ \A t \in Threads : pc[t] \in {"idle", "use"} /\ mine[t] # None => mine[t] = cell
    /\ \A t \in Threads : pc[t] \in {"store", "drop"} =>
           mine[t] # None /\ mine[t] # cell /\ state[mine[t]] = "whole"
    /\ \A t, u \in Threads :
           pc[t] \in {"store", "drop"} /\ pc[u] \in {"store", "drop"} /\ mine[t] = mine[u]
           => t = u
    /\ \A t \in Threads : pc[t] = "drop" => cell # None
    /\ cell # None => state[cell] = "whole"
    /\ \A v \in Values : state[v] # "part"
    /\ \A t \in Threads : seen[t] # "part"
    /\ \A v \in Values : state[v] # "none" => v = cell \/ \E t \in Threads : mine[t] = v

\* Who has made the method that the static holds has still to set one.
MethodInv ==
    /\ \A v \in Values : state[v] # "none" => cell # None
    /\ \A t \in Threads : pc[t] = "build" => cell # None
    /\ cell # None /\ state[cell] # "whole" => \E t \in Threads : pc[t] = "build"

SpaceInv ==
    /\ \A v \in Values : state[v] # "none" => cell # None
    /\ cell # None => state[cell] = "whole"

\* If MobileGestalt was ever found and is not stored, who stored NULL over it has
\* still to load it.
AnswerInv ==
    /\ cell = None /\ (\E v \in Values : state[v] # "none")
          => \E t \in Threads : pc[t] = "build"
    /\ cell # None => state[cell] = "whole"

IInv ==
    /\ TypeOK
    /\ site = "crc32Table" => TableInv
    /\ site = "shared" => SharedInv
    /\ site = "cachedFamilies" => FamiliesInv
    /\ site = "m_keyPlusOne" => KeyInv
    /\ site = "method" => MethodInv
    /\ site = "deviceRGB" => SpaceInv
    /\ site = "copyAnswer" => AnswerInv

LEMMA InitInv ==
    ASSUME Init
    PROVE  IInv
<1>1. TypeOK
    BY DEF Init, TypeOK
<1> QED
    BY <1>1, LazyAssumption DEF Init, IInv, TableInv, SharedInv, FamiliesInv, KeyInv,
                                MethodInv, SpaceInv, AnswerInv, OnlyCell

LEMMA TypeStep ==
    ASSUME TypeOK, [Next]_vars
    PROVE  TypeOK'
<1> USE LazyAssumption DEF TypeOK, At, Go, Take, Make, Complete
<1>1. ASSUME NEW t \in Threads, Call(t) \/ Use(t)
      PROVE  TypeOK'
    BY <1>1 DEF Call, Use
<1>2. ASSUME NEW t \in Threads, BeginTable(t) \/ BuildTable(t) \/ UseTable(t)
      PROVE  TypeOK'
    BY <1>2 DEF BeginTable, BuildTable, UseTable
<1>3. ASSUME NEW t \in Threads,
             LockShared(t) \/ NewShared(t) \/ SetShared(t) \/ UnlockShared(t) \/ UseShared(t)
      PROVE  TypeOK'
    BY <1>3 DEF LockShared, NewShared, SetShared, UnlockShared, UseShared
<1>4. ASSUME NEW t \in Threads, LookForFamilies(t) \/ CollectFamilies(t) \/ StoreFamilies(t)
      PROVE  TypeOK'
    BY <1>4 DEF LookForFamilies, CollectFamilies, StoreFamilies
<1>5. ASSUME NEW t \in Threads, LoadKey(t) \/ CreateKey(t) \/ SwapKey(t) \/ DeleteKey(t)
      PROVE  TypeOK'
    BY <1>5 DEF LoadKey, CreateKey, SwapKey, DeleteKey
<1>6. ASSUME NEW t \in Threads,
             LookForMethod(t) \/ NewMethod(t) \/ SetMethod(t) \/ ReturnMethod(t)
      PROVE  TypeOK'
    BY <1>6 DEF LookForMethod, NewMethod, SetMethod, ReturnMethod
<1>7. ASSUME NEW t \in Threads, LookForSpace(t) \/ CreateSpace(t)
      PROVE  TypeOK'
    BY <1>7 DEF LookForSpace, CreateSpace
<1>8. ASSUME NEW t \in Threads,
             LookForAnswer(t) \/ Resolve(t) \/ LoadGestalt(t) \/ UseAnswer(t)
      PROVE  TypeOK'
    BY <1>8 DEF LookForAnswer, Resolve, LoadGestalt, UseAnswer
<1>9. CASE UNCHANGED vars
    BY <1>9 DEF vars
<1> QED
    BY <1>1, <1>2, <1>3, <1>4, <1>5, <1>6, <1>7, <1>8, <1>9 DEF Next, Step

LEMMA SiteStays ==
    ASSUME [Next]_vars
    PROVE  site' = site
BY DEF Next, Step, vars, Call, Use, BeginTable, BuildTable, UseTable, LockShared, NewShared,
       SetShared, UnlockShared, UseShared, LookForFamilies, CollectFamilies, StoreFamilies,
       LoadKey, CreateKey, SwapKey, DeleteKey, LookForMethod, NewMethod, SetMethod,
       ReturnMethod, LookForSpace, CreateSpace, LookForAnswer, Resolve, LoadGestalt, UseAnswer

-----------------------------------------------------------------------------
(* One lemma for each site. *)

\* The steps of a site are its own and those of every call.
LEMMA StepsOfSite ==
    ASSUME [Next]_vars
    PROVE  \/ UNCHANGED vars
           \/ \E t \in Threads :
                 \/ Call(t) \/ Use(t)
                 \/ site = "crc32Table" /\ (BeginTable(t) \/ BuildTable(t) \/ UseTable(t))
                 \/ site = "shared" /\ (LockShared(t) \/ NewShared(t) \/ SetShared(t)
                                         \/ UnlockShared(t) \/ UseShared(t))
                 \/ site = "cachedFamilies"
                       /\ (LookForFamilies(t) \/ CollectFamilies(t) \/ StoreFamilies(t))
                 \/ site = "m_keyPlusOne"
                       /\ (LoadKey(t) \/ CreateKey(t) \/ SwapKey(t) \/ DeleteKey(t))
                 \/ site = "method" /\ (LookForMethod(t) \/ NewMethod(t) \/ SetMethod(t)
                                         \/ ReturnMethod(t))
                 \/ site = "deviceRGB" /\ (LookForSpace(t) \/ CreateSpace(t))
                 \/ site = "copyAnswer" /\ (LookForAnswer(t) \/ Resolve(t)
                                             \/ LoadGestalt(t) \/ UseAnswer(t))
BY DEF Next, Step, At, BeginTable, BuildTable, UseTable, LockShared, NewShared,
       SetShared, UnlockShared, UseShared, LookForFamilies, CollectFamilies, StoreFamilies,
       LoadKey, CreateKey, SwapKey, DeleteKey, LookForMethod, NewMethod, SetMethod,
       ReturnMethod, LookForSpace, CreateSpace, LookForAnswer, Resolve, LoadGestalt, UseAnswer

LEMMA TableStep ==
    ASSUME TypeOK, TableInv, site = "crc32Table", [Next]_vars
    PROVE  TableInv'
<1> USE LazyAssumption DEF TypeOK, TableInv, OnlyCell, At, Go, Take, Make, Complete
<1>1. ASSUME NEW t \in Threads, Call(t)
      PROVE  TableInv'
    BY <1>1 DEF Call
<1>2. ASSUME NEW t \in Threads, Use(t)
      PROVE  TableInv'
    BY <1>2 DEF Use
<1>3. ASSUME NEW t \in Threads, BeginTable(t)
      PROVE  TableInv'
    BY <1>3 DEF BeginTable
<1>4. ASSUME NEW t \in Threads, BuildTable(t)
      PROVE  TableInv'
    BY <1>4 DEF BuildTable
<1>5. ASSUME NEW t \in Threads, UseTable(t)
      PROVE  TableInv'
    BY <1>5 DEF UseTable
<1>6. CASE UNCHANGED vars
    BY <1>6 DEF vars
<1> QED
    BY <1>1, <1>2, <1>3, <1>4, <1>5, <1>6, StepsOfSite

LEMMA SharedStep ==
    ASSUME TypeOK, SharedInv, site = "shared", [Next]_vars
    PROVE  SharedInv'
<1> USE LazyAssumption DEF TypeOK, SharedInv, OnlyCell, At, Go, Take, Make, Complete
<1>1. ASSUME NEW t \in Threads, Call(t) \/ Use(t)
      PROVE  SharedInv'
    BY <1>1 DEF Call, Use
<1>2. ASSUME NEW t \in Threads, LockShared(t)
      PROVE  SharedInv'
    BY <1>2 DEF LockShared
<1>3. ASSUME NEW t \in Threads, NewShared(t)
      PROVE  SharedInv'
    BY <1>3 DEF NewShared
<1>4. ASSUME NEW t \in Threads, SetShared(t)
      PROVE  SharedInv'
    BY <1>4 DEF SetShared
<1>5. ASSUME NEW t \in Threads, UnlockShared(t)
      PROVE  SharedInv'
    BY <1>5 DEF UnlockShared
<1>6. ASSUME NEW t \in Threads, UseShared(t)
      PROVE  SharedInv'
    BY <1>6 DEF UseShared
<1>7. CASE UNCHANGED vars
    BY <1>7 DEF vars
<1> QED
    BY <1>1, <1>2, <1>3, <1>4, <1>5, <1>6, <1>7, StepsOfSite

LEMMA FamiliesStep ==
    ASSUME TypeOK, FamiliesInv, site = "cachedFamilies", [Next]_vars
    PROVE  FamiliesInv'
<1> USE LazyAssumption DEF TypeOK, FamiliesInv, At, Go, Take, Make
<1>1. ASSUME NEW t \in Threads, Call(t)
      PROVE  FamiliesInv'
    BY <1>1 DEF Call
<1>2. ASSUME NEW t \in Threads, Use(t)
      PROVE  FamiliesInv'
    BY <1>2 DEF Use
<1>3. ASSUME NEW t \in Threads, LookForFamilies(t)
      PROVE  FamiliesInv'
    BY <1>3 DEF LookForFamilies
<1>4. ASSUME NEW t \in Threads, CollectFamilies(t)
      PROVE  FamiliesInv'
    BY <1>4 DEF CollectFamilies
<1>5. ASSUME NEW t \in Threads, StoreFamilies(t)
      PROVE  FamiliesInv'
    BY <1>5 DEF StoreFamilies
<1>6. CASE UNCHANGED vars
    BY <1>6 DEF vars
<1> QED
    BY <1>1, <1>2, <1>3, <1>4, <1>5, <1>6, StepsOfSite

LEMMA KeyStep ==
    ASSUME TypeOK, KeyInv, site = "m_keyPlusOne", [Next]_vars
    PROVE  KeyInv'
<1> USE LazyAssumption DEF TypeOK, KeyInv, At, Go, Take, Make
<1>1. ASSUME NEW t \in Threads, Call(t)
      PROVE  KeyInv'
    BY <1>1 DEF Call
<1>2. ASSUME NEW t \in Threads, Use(t)
      PROVE  KeyInv'
    BY <1>2 DEF Use
<1>3. ASSUME NEW t \in Threads, LoadKey(t)
      PROVE  KeyInv'
    BY <1>3 DEF LoadKey
<1>4. ASSUME NEW t \in Threads, CreateKey(t)
      PROVE  KeyInv'
    BY <1>4 DEF CreateKey
<1>5. ASSUME NEW t \in Threads, SwapKey(t)
      PROVE  KeyInv'
    BY <1>5 DEF SwapKey
<1>6. ASSUME NEW t \in Threads, DeleteKey(t)
      PROVE  KeyInv'
    BY <1>6 DEF DeleteKey
<1>7. CASE UNCHANGED vars
    BY <1>7 DEF vars
<1> QED
    BY <1>1, <1>2, <1>3, <1>4, <1>5, <1>6, <1>7, StepsOfSite

LEMMA MethodStep ==
    ASSUME TypeOK, MethodInv, site = "method", [Next]_vars
    PROVE  MethodInv'
<1> USE LazyAssumption DEF TypeOK, MethodInv, At, Go, Take, Make, Complete
<1>1. ASSUME NEW t \in Threads, Call(t) \/ Use(t)
      PROVE  MethodInv'
    BY <1>1 DEF Call, Use
<1>2. ASSUME NEW t \in Threads, LookForMethod(t)
      PROVE  MethodInv'
    BY <1>2 DEF LookForMethod
<1>3. ASSUME NEW t \in Threads, NewMethod(t)
      PROVE  MethodInv'
    BY <1>3 DEF NewMethod
<1>4. ASSUME NEW t \in Threads, SetMethod(t)
      PROVE  MethodInv'
    BY <1>4 DEF SetMethod
<1>5. ASSUME NEW t \in Threads, ReturnMethod(t)
      PROVE  MethodInv'
    BY <1>5 DEF ReturnMethod
<1>6. CASE UNCHANGED vars
    BY <1>6 DEF vars
<1> QED
    BY <1>1, <1>2, <1>3, <1>4, <1>5, <1>6, StepsOfSite

LEMMA SpaceStep ==
    ASSUME TypeOK, SpaceInv, site = "deviceRGB", [Next]_vars
    PROVE  SpaceInv'
<1> USE LazyAssumption DEF TypeOK, SpaceInv, At, Go, Take, Make
<1>1. ASSUME NEW t \in Threads, Call(t) \/ Use(t)
      PROVE  SpaceInv'
    BY <1>1 DEF Call, Use
<1>2. ASSUME NEW t \in Threads, LookForSpace(t) \/ CreateSpace(t)
      PROVE  SpaceInv'
    BY <1>2 DEF LookForSpace, CreateSpace
<1>3. CASE UNCHANGED vars
    BY <1>3 DEF vars
<1> QED
    BY <1>1, <1>2, <1>3, StepsOfSite

LEMMA AnswerStep ==
    ASSUME TypeOK, AnswerInv, site = "copyAnswer", [Next]_vars
    PROVE  AnswerInv'
<1> USE LazyAssumption DEF TypeOK, AnswerInv, At, Go, Take, Complete
<1>1. ASSUME NEW t \in Threads, Call(t) \/ Use(t)
      PROVE  AnswerInv'
    BY <1>1 DEF Call, Use
<1>2. ASSUME NEW t \in Threads, LookForAnswer(t)
      PROVE  AnswerInv'
    BY <1>2 DEF LookForAnswer
<1>3. ASSUME NEW t \in Threads, Resolve(t)
      PROVE  AnswerInv'
    BY <1>3 DEF Resolve
<1>4. ASSUME NEW t \in Threads, LoadGestalt(t)
      PROVE  AnswerInv'
    BY <1>4 DEF LoadGestalt
<1>5. ASSUME NEW t \in Threads, UseAnswer(t)
      PROVE  AnswerInv'
    BY <1>5 DEF UseAnswer
<1>6. CASE UNCHANGED vars
    BY <1>6 DEF vars
<1> QED
    BY <1>1, <1>2, <1>3, <1>4, <1>5, <1>6, StepsOfSite

-----------------------------------------------------------------------------

LEMMA Invariance == Spec => []IInv
<1>1. Init => IInv
    BY InitInv
<1>2. IInv /\ [Next]_vars => IInv'
    BY TypeStep, SiteStays, TableStep, SharedStep, FamiliesStep, KeyStep, MethodStep,
       SpaceStep, AnswerStep DEF IInv
<1> QED
    BY <1>1, <1>2, PTL DEF Spec

\* The types of the values, the calls and the lock.
THEOREM TypeCorrect == Spec => []TypeOK
BY Invariance, PTL DEF IInv

\* Where the code synchronises, one value serves all threads, each its own copy of the
\* families, and none but the SSL_CTX is used half-made.
THEOREM OneValueForAll == Spec => []OneValue
<1>1. ASSUME IInv
      PROVE  OneValue
    <2>1. CASE site = "crc32Table"
        BY <1>1, <2>1 DEF IInv, OneValue, TableInv, OnlyCell
    <2>2. CASE site = "shared"
        BY <1>1, <2>2 DEF IInv, OneValue, SharedInv, OnlyCell
    <2>3. CASE site = "cachedFamilies"
        BY <1>1, <2>3 DEF IInv, OneValue, FamiliesInv
    <2>4. CASE site = "m_keyPlusOne"
        BY <1>1, <2>4 DEF IInv, OneValue, KeyInv
    <2> QED
        BY <2>1, <2>2, <2>3, <2>4 DEF OneValue, Synchronised, Guarded
<1> QED
    BY <1>1, Invariance, PTL

\* What a thread makes and another made first is given back.
THEOREM NothingIsLost == Spec => []NothingLost
<1>1. ASSUME IInv
      PROVE  NothingLost
    <2>1. CASE site = "crc32Table"
        BY <1>1, <2>1 DEF IInv, NothingLost, TableInv, OnlyCell
    <2>2. CASE site = "shared"
        BY <1>1, <2>2 DEF IInv, NothingLost, SharedInv, OnlyCell
    <2>3. CASE site \in {"cachedFamilies", "m_keyPlusOne"}
        BY <1>1, <2>3 DEF IInv, NothingLost, FamiliesInv, KeyInv
    <2> QED
        BY <2>1, <2>2, <2>3 DEF NothingLost, Synchronised, Guarded
<1> QED
    BY <1>1, Invariance, PTL

\* However the first calls meet, with or without a lock, they leave a whole value if
\* any of them made one, also where dlopen fails in some; only the list of families is not kept when it could not be collected.
THEOREM FirstUseSettles == Spec => []SettlesWhole
<1>1. ASSUME IInv, \A t \in Threads : pc[t] = "idle",
             \E v \in Values : state[v] # "none",
             site # "cachedFamilies"
      PROVE  cell # None /\ state[cell] = "whole"
    <2>1. CASE site = "crc32Table"
        <3>1. cell # None
            BY <1>1, <2>1, LazyAssumption DEF IInv, TableInv, OnlyCell
        <3> QED BY <3>1, <1>1, <2>1 DEF IInv, TypeOK, TableInv
    <2>2. CASE site = "shared"
        <3>1. cell # None
            BY <1>1, <2>2, LazyAssumption DEF IInv, SharedInv, OnlyCell
        <3> QED BY <3>1, <1>1, <2>2 DEF IInv, SharedInv
    <2>3. CASE site = "m_keyPlusOne"
        <3>1. cell # None
            BY <1>1, <2>3, LazyAssumption DEF IInv, KeyInv
        <3> QED BY <3>1, <1>1, <2>3 DEF IInv, KeyInv
    <2>4. CASE site = "method"
        BY <1>1, <2>4 DEF IInv, MethodInv
    <2>5. CASE site = "deviceRGB"
        BY <1>1, <2>5 DEF IInv, SpaceInv
    <2>6. CASE site = "copyAnswer"
        BY <1>1, <2>6 DEF IInv, AnswerInv
    <2> QED
        BY <1>1, <2>1, <2>2, <2>3, <2>4, <2>5, <2>6
           DEF IInv, TypeOK, Sites, Synchronised, Guarded
<1>2. IInv => SettlesWhole
    BY <1>1 DEF SettlesWhole
<1> QED
    BY <1>2, Invariance, PTL

-----------------------------------------------------------------------------
(* The preference of an app, which two libraries read while it starts.     *)

\* What is in a process at each place, unless the preference was changed.
Launching(p) ==
    LET me == process[p] IN
    /\ me.at \in {"loader", "exec", "compat", "run"}
    /\ {me.active, me.engine, me.hooks, me.changed} \subseteq BOOLEAN
    /\ me.engine => me.active
    /\ me.at = "exec" => me.active /\ ~me.engine
    /\ me.at = "compat" => me.engine
    /\ me.at # "run" => ~me.hooks
    /\ me.active => me.app # SpringBoard
    /\ me.active /\ ~me.changed => LoaderEnabled(me.app)
    /\ me.at = "run" /\ ~me.changed => me.hooks = (me.engine /\ CompatEnabled(me.app))

LaunchInv ==
    /\ injected \in [Apps -> Entries]
    /\ process \in [Pids -> Process \cup {Nobody}]
    /\ \A p \in Pids : Alive(p) => Launching(p)

\* Where the loader finds an app enabled and the library does not: rev-safari-tweak.c,
\* safari-compat.mm.
LEMMA ReadersDiffer ==
    ASSUME injected \in [Apps -> Entries], NEW a \in Apps, LoaderEnabled(a), ~CompatEnabled(a)
    PROVE  a = Safari /\ injected[a] = "zero"
BY ProcessesAssumption DEF CompatEnabled, LoaderEnabled, Entries

LEMMA LaunchInit == PhoneInit => LaunchInv
BY DEF PhoneInit, LaunchInv, Alive, Entries

\* What happens to one process leaves the others as they are.
LEMMA OneProcess ==
    ASSUME LaunchInv, NEW p \in Pids, NEW new,
           process' = [process EXCEPT ![p] = new], injected' = injected,
           new \in Process \cup {Nobody}, new # Nobody => Launching(p)'
    PROVE  LaunchInv'
<1>1. process' \in [Pids -> Process \cup {Nobody}]
    BY DEF LaunchInv
<1>2. ASSUME NEW q \in Pids, Alive(q)', q # p
      PROVE  Launching(q)'
    <2>1. process'[q] = process[q]
        BY <1>2 DEF LaunchInv
    <2>2. Launching(q)
        BY <1>2, <2>1 DEF LaunchInv, Alive
    <2> QED
        BY <2>1, <2>2 DEF Launching, LoaderEnabled, CompatEnabled
<1>3. Alive(p)' => new # Nobody
    BY DEF Alive, LaunchInv
<1> QED
    BY <1>1, <1>2, <1>3 DEF LaunchInv, Process

LEMMA Unlaunched ==
    ASSUME LaunchInv, UNCHANGED <<injected, process>>
    PROVE  LaunchInv'
BY DEF LaunchInv, Launching, Alive, Process, LoaderEnabled, CompatEnabled

LEMMA StartStep ==
    ASSUME LaunchInv, NEW p \in Pids, Start(p)
    PROVE  LaunchInv'
<1> DEFINE me == process[p]
<1>0. me \in Process /\ Launching(p) /\ injected' = injected
    BY DEF LaunchInv, Start, Skip, SecondPass, SetEnvironment, Execute,
       StartPageInit, IsAt, Alive, Becomes
<1>2. PICK new : process' = [process EXCEPT ![p] = new]
                 /\ \/ Skip(p) /\ new = [me EXCEPT !.at = "run"]
                    \/ SecondPass(p)
                       /\ new = [me EXCEPT !.at = IF me.engine THEN "compat" ELSE "run"]
                    \/ SetEnvironment(p) /\ new = [me EXCEPT !.active = TRUE, !.at = "exec"]
                    \/ Execute(p) /\ me.at = "exec"
                       /\ \/ new = [me EXCEPT !.at = "loader", !.engine = TRUE]
                          \/ new = [me EXCEPT !.at = "run"]
                    \/ StartPageInit(p)
                       /\ new = [me EXCEPT !.at = "run", !.hooks = CompatEnabled(me.app)]
    BY DEF Start, Skip, SecondPass, SetEnvironment, Execute,
       StartPageInit, Becomes, IsAt
<1>3. new \in Process /\ process'[p] = new
    <2>1. CompatEnabled(me.app) \in BOOLEAN
        BY DEF CompatEnabled
    <2>2. new \in Process
        BY <1>0, <1>2, <2>1 DEF Process
    <2> QED
        BY <1>2, <2>2 DEF LaunchInv
<1>4. Launching(p)'
    <2> DEFINE enabled(a) == LoaderEnabled(a)
    <2>0. /\ process'[p] = new /\ \A a : enabled(a)' <=> enabled(a)
          /\ \A a : CompatEnabled(a)' = CompatEnabled(a)
          /\ me.app \in Apps /\ {me.active, me.engine, me.hooks, me.changed} \subseteq BOOLEAN
        BY <1>0, <1>3 DEF Process, LoaderEnabled, CompatEnabled
    <2>1. CASE Skip(p) /\ new = [me EXCEPT !.at = "run"]
        <3>1. /\ new.at = "run" /\ new.active = me.active /\ new.engine = me.engine
              /\ new.hooks = me.hooks /\ new.changed = me.changed /\ new.app = me.app
            BY <1>0, <2>1 DEF Process
        <3> QED
            BY <1>0, <2>0, <2>1, <3>1 DEF Launching, Skip, IsAt
    <2>2. CASE SecondPass(p)
               /\ new = [me EXCEPT !.at = IF me.engine THEN "compat" ELSE "run"]
        <3>1. /\ new.at = (IF me.engine THEN "compat" ELSE "run") /\ new.active = me.active
              /\ new.engine = me.engine /\ new.hooks = me.hooks /\ new.changed = me.changed
              /\ new.app = me.app
            BY <1>0, <2>2 DEF Process
        <3> QED
            BY <1>0, <2>0, <2>2, <3>1 DEF Launching, SecondPass, IsAt
    <2>3. CASE SetEnvironment(p) /\ new = [me EXCEPT !.active = TRUE, !.at = "exec"]
        <3>1. /\ new.at = "exec" /\ new.active = TRUE /\ new.engine = me.engine
              /\ new.hooks = me.hooks /\ new.changed = me.changed /\ new.app = me.app
            BY <1>0, <2>3 DEF Process
        <3> QED
            BY <1>0, <2>0, <2>3, <3>1 DEF Launching, SetEnvironment, IsAt
    <2>4. CASE me.at = "exec" /\ new = [me EXCEPT !.at = "loader", !.engine = TRUE]
        <3>1. /\ new.at = "loader" /\ new.active = me.active /\ new.engine = TRUE
              /\ new.hooks = me.hooks /\ new.changed = me.changed /\ new.app = me.app
            BY <1>0, <2>4 DEF Process
        <3> QED
            BY <1>0, <2>0, <2>4, <3>1 DEF Launching
    <2>5. CASE me.at = "exec" /\ new = [me EXCEPT !.at = "run"]
        <3>1. /\ new.at = "run" /\ new.active = me.active /\ new.engine = me.engine
              /\ new.hooks = me.hooks /\ new.changed = me.changed /\ new.app = me.app
            BY <1>0, <2>5 DEF Process
        <3> QED
            BY <1>0, <2>0, <2>5, <3>1 DEF Launching
    <2>6. CASE StartPageInit(p)
               /\ new = [me EXCEPT !.at = "run", !.hooks = CompatEnabled(me.app)]
        <3>1. /\ new.at = "run" /\ new.active = me.active /\ new.engine = me.engine
              /\ new.hooks = CompatEnabled(me.app) /\ new.changed = me.changed
              /\ new.app = me.app
            BY <1>0, <2>6 DEF Process
        <3>2. CompatEnabled(me.app) \in BOOLEAN
            BY DEF CompatEnabled
        <3> HIDE DEF enabled
        <3> QED
            BY <1>0, <2>0, <2>6, <3>1, <3>2 DEF Launching, StartPageInit, IsAt, enabled
    <2> QED
        BY <1>2, <2>1, <2>2, <2>3, <2>4, <2>5, <2>6
<1> QED
    BY <1>0, <1>2, <1>3, <1>4, OneProcess

LEMMA LaunchStep ==
    ASSUME LaunchInv, [PhoneNext]_phoneVars
    PROVE  LaunchInv'
<1>1. CASE \E p \in Pids : Start(p)
    BY <1>1, StartStep
<1>2. CASE \E p \in Pids : Die(p)
    <2> SUFFICES ASSUME NEW p \in Pids, Die(p)
                 PROVE  LaunchInv'
        BY <1>2
    <2>1. process' = [process EXCEPT ![p] = Nobody] /\ injected' = injected
        BY DEF Die
    <2> QED
        BY <2>1, OneProcess
<1>3. CASE \E p \in Pids, a \in Apps : Launch(p, a)
    <2> SUFFICES ASSUME NEW p \in Pids, NEW a \in Apps, Launch(p, a)
                 PROVE  LaunchInv'
        BY <1>3
    <2> DEFINE new == [app |-> a, at |-> "loader", active |-> FALSE, engine |-> FALSE,
                       hooks |-> FALSE, changed |-> FALSE, raised |-> FALSE]
    <2>1. process' = [process EXCEPT ![p] = new] /\ injected' = injected
        BY DEF Launch
    <2>2. new \in Process /\ process'[p] = new
        BY <2>1 DEF Process, LaunchInv
    <2>3. Launching(p)'
        BY <2>2 DEF Launching
    <2> QED
        BY <2>1, <2>2, <2>3, OneProcess
<1>4. CASE \E a \in Apps : SetInjection(a) \/ WriteEntry(a)
    <2> SUFFICES ASSUME NEW a \in Apps, NEW value \in Entries, PutEntry(a, value)
                 PROVE  LaunchInv'
        BY <1>4 DEF SetInjection, WriteEntry, Entries
    <2>1. /\ injected' = [injected EXCEPT ![a] = value]
          /\ process' = [p \in Pids |->
                 IF Alive(p) /\ process[p].app = a
                   THEN [process[p] EXCEPT !.changed = TRUE] ELSE process[p]]
        BY DEF PutEntry
    <2>2. injected' \in [Apps -> Entries]
        BY <2>1 DEF LaunchInv
    <2>3. ASSUME NEW p \in Pids
          PROVE  /\ process'[p] \in Process \cup {Nobody}
                 /\ Alive(p)' => Launching(p)'
        <3>1. CASE Alive(p) /\ process[p].app = a
            <4>1. process[p] \in Process /\ Launching(p)
                BY <3>1 DEF LaunchInv, Alive
            <4>2. process'[p] = [process[p] EXCEPT !.changed = TRUE]
                BY <2>1, <3>1
            <4> QED
                BY <4>1, <4>2 DEF Process, Launching
        <3>2. CASE ~(Alive(p) /\ process[p].app = a)
            <4>1. process'[p] = process[p] /\ process[p] \in Process \cup {Nobody}
                BY <2>1, <3>2 DEF LaunchInv
            <4>2. CASE process[p] = Nobody
                BY <4>1, <4>2 DEF Alive
            <4>3. CASE process[p] # Nobody
                <5>1. Launching(p) /\ process[p].app \in Apps /\ process[p].app # a
                    BY <3>2, <4>1, <4>3 DEF LaunchInv, Alive, Process
                <5>2. injected'[process[p].app] = injected[process[p].app]
                    BY <2>1, <5>1 DEF LaunchInv
                <5> QED
                    BY <4>1, <5>1, <5>2 DEF Launching, LoaderEnabled, CompatEnabled
            <4> QED
                BY <4>2, <4>3
        <3> QED
            BY <3>1, <3>2
    <2> QED
        BY <2>1, <2>2, <2>3 DEF LaunchInv, Process
<1>5. CASE RaiseFor
    <2>1. PICK p : /\ process' = [process EXCEPT ![p].raised = TRUE] /\ injected' = injected
                   /\ Alive(p)
        BY <1>5 DEF RaiseFor, Watch
    <2>2. CASE p \in Pids
        <3>1. process[p] \in Process /\ Launching(p)
            BY <2>1, <2>2 DEF LaunchInv, Alive
        <3>2. PICK new : new = [process[p] EXCEPT !.raised = TRUE]
            OBVIOUS
        <3>3. /\ new \in Process /\ process'[p] = new
              /\ process' = [process EXCEPT ![p] = new]
            BY <2>1, <2>2, <3>1, <3>2 DEF LaunchInv, Process
        <3>4. Launching(p)'
            <4>1. LET me == process[p] IN
                  /\ new.at = me.at /\ new.active = me.active /\ new.engine = me.engine
                  /\ new.hooks = me.hooks /\ new.changed = me.changed /\ new.app = me.app
                BY <3>1, <3>2 DEF Process
            <4> QED
                BY <2>1, <3>1, <3>3, <4>1 DEF Launching, LoaderEnabled, CompatEnabled
        <3> QED
            BY <2>1, <2>2, <3>3, <3>4, OneProcess
    <2>3. CASE p \notin Pids
        BY <2>1, <2>3, Unlaunched DEF LaunchInv
    <2> QED
        BY <2>2, <2>3
<1>6. CASE UNCHANGED <<injected, process>>
    BY <1>6, Unlaunched
<1> QED
    BY <1>1, <1>2, <1>3, <1>4, <1>5, <1>6
       DEF PhoneNext, WritePid, WatcherStep, ReadPid, CheckPid, Refused,
           Reap, RestartWatcher, Watch, phoneVars

\* However many apps start, die and are switched on and off, one that runs and was not
\* switched meanwhile has the engine only where the loader finds it enabled, and its hooks
\* with it, unless it is Safari and its entry is the number 0 (rev-safari-tweak.c:24,
\* safari-compat.mm:424).
THEOREM LoadersAgree == PhoneSpec => []ReadersAgree
<1>1. LaunchInv /\ [PhoneNext]_phoneVars => LaunchInv'
    BY LaunchStep
<1>2. LaunchInv => ReadersAgree
    BY ReadersDiffer DEF LaunchInv, Launching, ReadersAgree, IsAt, Alive, Process
<1> QED
    BY <1>1, <1>2, LaunchInit, PTL DEF PhoneSpec

\* The watcher passes over the pid that it dealt with last, so that pid's process, if
\* there is one, has to be one whose limit it raised: not a later process of the same
\* pid (raise-memory-limit.c:33-40).
PassedOverIsRaised ==
    \A p \in Pids : watcher.lastPid = p /\ Alive(p) => process[p].raised

\* A process that died is one the watcher has not looked for yet.
Remembered ==
    \A p \in Pids : watcher.lastPid = p =>
        IF Alive(p) THEN process[p].raised ELSE p \in unseen

WatchInv ==
    /\ LaunchInv /\ PhoneTypeOK
    /\ watcher.at \in {"check", "raise"} => watcher.pid \in Pids
    /\ Remembered

\* No step of a start takes a process away, or its limit.
LEMMA RaisedStays ==
    ASSUME LaunchInv, NEW p \in Pids, Start(p), NEW q \in Pids
    PROVE  /\ Alive(q)' <=> Alive(q)
           /\ Alive(q) => process'[q].raised = process[q].raised
<1> DEFINE me == process[p]
<1>1. me \in Process
    BY DEF LaunchInv, Start, Skip, SecondPass, SetEnvironment, Execute,
       StartPageInit, IsAt, Alive
<1>2. \E new : /\ process' = [process EXCEPT ![p] = new]
               /\ \/ new = [me EXCEPT !.at = "run"]
                  \/ new = [me EXCEPT !.at = IF me.engine THEN "compat" ELSE "run"]
                  \/ new = [me EXCEPT !.active = TRUE, !.at = "exec"]
                  \/ new = [me EXCEPT !.at = "loader", !.engine = TRUE]
                  \/ new = [me EXCEPT !.at = "run", !.hooks = CompatEnabled(me.app)]
    BY DEF Start, Skip, SecondPass, SetEnvironment, Execute, StartPageInit, Becomes
<1>3. PICK new : /\ process' = [process EXCEPT ![p] = new]
                 /\ new.raised = me.raised
                 /\ new \in Process
    <2>1. CompatEnabled(me.app) \in BOOLEAN
        BY DEF CompatEnabled
    <2> DEFINE compat == CompatEnabled(me.app)
    <2> HIDE DEF compat
    <2>2. compat \in BOOLEAN
        BY <2>1 DEF compat
    <2>3. /\ [me EXCEPT !.at = "run"] \in Process
          /\ [me EXCEPT !.at = IF me.engine THEN "compat" ELSE "run"] \in Process
          /\ [me EXCEPT !.active = TRUE, !.at = "exec"] \in Process
          /\ [me EXCEPT !.at = "loader", !.engine = TRUE] \in Process
        BY <1>1 DEF Process
    <2>4. [me EXCEPT !.at = "run", !.hooks = compat] \in Process
        BY <1>1, <2>2 DEF Process
    <2>5. /\ [me EXCEPT !.at = "run"].raised = me.raised
          /\ [me EXCEPT !.at = IF me.engine THEN "compat" ELSE "run"].raised = me.raised
          /\ [me EXCEPT !.active = TRUE, !.at = "exec"].raised = me.raised
          /\ [me EXCEPT !.at = "loader", !.engine = TRUE].raised = me.raised
          /\ [me EXCEPT !.at = "run", !.hooks = compat].raised = me.raised
        BY <1>1 DEF Process
    <2> HIDE DEF me
    <2> QED
        BY <1>2, <2>3, <2>4, <2>5 DEF compat
<1>4. me # Nobody /\ new # Nobody
    BY <1>1, <1>3, NobodyAssumption
<1>5. process'[q] = IF q = p THEN new ELSE process[q]
    BY <1>3 DEF LaunchInv
<1> QED
    BY <1>3, <1>4, <1>5 DEF Alive

LEMMA WatchInit == PhoneInit => WatchInv
<1> SUFFICES ASSUME PhoneInit
             PROVE  WatchInv
    OBVIOUS
<1>1. PhoneTypeOK /\ watcher = Watching
    BY ProcessesAssumption DEF PhoneInit, PhoneTypeOK, Watching, Entries
<1>2. watcher.at = "read" /\ watcher.lastPid = Nobody
    BY <1>1 DEF Watching
<1>3. Remembered
    BY <1>2, ProcessesAssumption DEF Remembered
<1> QED
    BY <1>1, <1>2, <1>3, LaunchInit DEF WatchInv

\* What apps, settings and browsers do leaves the watcher alone.
LEMMA OthersStep ==
    ASSUME WatchInv,
           \/ \E p \in Pids : \/ Start(p) \/ Die(p) \/ WritePid(p)
                              \/ \E a \in Apps : Launch(p, a)
           \/ \E a \in Apps : SetInjection(a) \/ WriteEntry(a)
    PROVE  WatchInv'
<1>0. LaunchInv'
    BY LaunchStep DEF WatchInv, PhoneNext
<1>s. \A p \in Pids : Start(p) => UNCHANGED <<changes, pidFile, watcher, unseen, restarts>>
    BY Zenon DEF Start, Skip, SecondPass, SetEnvironment, Execute, StartPageInit, Becomes
<1>1. watcher' = watcher /\ restarts' = restarts /\ unseen \subseteq unseen'
    BY <1>s DEF Die, WritePid, Launch, SetInjection, WriteEntry, PutEntry
<1>2. changes' \in 0..MaxChanges /\ pidFile' \in Pids \cup {Nobody} /\ unseen' \subseteq Pids
    <2>1. changes' = changes \/ (changes' = changes + 1 /\ changes < MaxChanges)
        BY <1>s DEF Die, WritePid, Launch, SetInjection, WriteEntry, PutEntry
    <2>2. pidFile' = pidFile \/ pidFile' \in Pids
        BY <1>s DEF Die, WritePid, Launch, SetInjection, WriteEntry, PutEntry
    <2>3. unseen' \subseteq unseen \cup Pids
        BY <1>s DEF Die, WritePid, Launch, SetInjection, WriteEntry, PutEntry
    <2> QED
        BY <2>1, <2>2, <2>3, ProcessesAssumption DEF WatchInv, PhoneTypeOK
<1>3. PhoneTypeOK'
    BY <1>0, <1>1, <1>2 DEF WatchInv, PhoneTypeOK, LaunchInv, Process
<1>4. ASSUME NEW q \in Pids, watcher.lastPid = q
      PROVE  IF Alive(q)' THEN process'[q].raised ELSE q \in unseen'
    <2>0. IF Alive(q) THEN process[q].raised ELSE q \in unseen
        BY <1>4 DEF WatchInv, Remembered
    <2>1. CASE \E p \in Pids : Start(p)
        BY <1>1, <2>0, <2>1, RaisedStays DEF WatchInv
    <2>2. CASE \E p \in Pids : Die(p)
        BY <1>1, <2>0, <2>2 DEF Die, Alive, WatchInv, LaunchInv
    <2>3. CASE \E p \in Pids : WritePid(p)
        BY <1>1, <2>0, <2>3 DEF WritePid, Alive
    <2>4. CASE \E p \in Pids, a \in Apps : Launch(p, a)
        <3> SUFFICES ASSUME NEW p \in Pids, NEW a \in Apps, Launch(p, a)
                     PROVE  IF Alive(q)' THEN process'[q].raised ELSE q \in unseen'
            BY <2>4
        <3>1. p # q
            BY <2>0 DEF Launch
        <3>2. process'[q] = process[q]
            BY <3>1 DEF Launch, WatchInv, LaunchInv
        <3> QED
            BY <1>1, <2>0, <3>2 DEF Alive
    <2>5. CASE \E a \in Apps : SetInjection(a) \/ WriteEntry(a)
        <3>1. \/ process'[q] = process[q]
              \/ Alive(q) /\ process'[q] = [process[q] EXCEPT !.changed = TRUE]
            BY <2>5 DEF SetInjection, WriteEntry, PutEntry
        <3>2. CASE process'[q] = process[q]
            BY <1>1, <2>0, <3>2 DEF Alive
        <3>3. CASE Alive(q) /\ process'[q] = [process[q] EXCEPT !.changed = TRUE]
            <4>1. process[q] \in Process
                BY <3>3 DEF WatchInv, LaunchInv, Alive
            <4>2. process'[q].raised = process[q].raised
                BY <3>3, <4>1 DEF Process
            <4>3. q \in unseen' \/ Alive(q)'
                <5>1. process'[q] \in Process
                    BY <3>3, <4>1 DEF Process
                <5> QED
                    BY <5>1, NobodyAssumption DEF Alive
            <4> QED
                BY <2>0, <3>3, <4>2, <4>3
        <3> QED
            BY <3>1, <3>2, <3>3
    <2> QED
        BY <2>1, <2>2, <2>3, <2>4, <2>5
<1>5. Remembered'
    BY <1>1, <1>4 DEF Remembered
<1> QED
    BY <1>0, <1>1, <1>3, <1>5 DEF WatchInv

LEMMA WatcherSteps ==
    ASSUME WatchInv, WatcherStep \/ RestartWatcher
    PROVE  WatchInv'
<1>0. LaunchInv'
    BY LaunchStep DEF WatchInv, PhoneNext
<1> DEFINE W == [at : {"read", "check", "raise", "reap"},
                 pid : Pids \cup {Nobody}, lastPid : Pids \cup {Nobody}]
<1>1. injected' = injected /\ changes' = changes /\ pidFile' = pidFile
    BY DEF WatcherStep, ReadPid, CheckPid, RaiseFor, Refused, Reap, Watch, RestartWatcher
<1>2. watcher \in W /\ pidFile \in Pids \cup {Nobody}
    BY DEF WatchInv, PhoneTypeOK
<1>3. \A p \in Pids \cup {Nobody} : Looked(p) \in W /\ Looked(p).at = "reap"
                                    /\ Looked(p).lastPid = p
    BY DEF Looked
<1>t. ASSUME watcher' \in W, restarts' \in 0..MaxRestarts, unseen' \subseteq Pids
      PROVE  PhoneTypeOK'
    BY <1>0, <1>1, <1>t DEF WatchInv, PhoneTypeOK, LaunchInv, Process
<1>4. CASE ReadPid
    <2>1. /\ watcher' = [watcher EXCEPT !.at = "reap"]
             \/ /\ watcher' = [watcher EXCEPT !.at = "check", !.pid = pidFile]
                /\ pidFile \in Pids
          /\ UNCHANGED <<process, unseen, restarts>>
        BY <1>2, <1>4 DEF ReadPid, Watch
    <2>2. /\ watcher' \in W /\ watcher'.lastPid = watcher.lastPid
          /\ watcher'.at \in {"check", "raise"} => watcher'.pid \in Pids
        BY <1>2, <2>1
    <2>3. PhoneTypeOK'
        BY <1>t, <2>1, <2>2 DEF WatchInv, PhoneTypeOK
    <2>4. Remembered'
        BY <2>1, <2>2 DEF WatchInv, Remembered, Alive
    <2> QED
        BY <1>0, <2>2, <2>3, <2>4 DEF WatchInv
<1>5. CASE CheckPid \/ Refused
    <2>1. /\ \/ watcher' = [watcher EXCEPT !.at = "raise"] /\ watcher.at = "check"
             \/ watcher' = Looked(watcher.lastPid)
          /\ UNCHANGED <<process, unseen, restarts>>
        BY <1>5 DEF CheckPid, Refused, Watch
    <2>2. /\ watcher' \in W /\ watcher'.lastPid = watcher.lastPid
          /\ watcher'.at \in {"check", "raise"} => watcher'.pid \in Pids
        BY <1>2, <1>3, <2>1 DEF WatchInv
    <2>3. PhoneTypeOK'
        BY <1>t, <2>1, <2>2 DEF WatchInv, PhoneTypeOK
    <2>4. Remembered'
        BY <2>1, <2>2 DEF WatchInv, Remembered, Alive
    <2> QED
        BY <1>0, <2>2, <2>3, <2>4 DEF WatchInv
<1>6. CASE RaiseFor
    <2>0. PICK p : p = watcher.pid
        OBVIOUS
    <2>1. /\ watcher' = Looked(p) /\ p \in Pids /\ Alive(p)
          /\ process' = [process EXCEPT ![p].raised = TRUE]
          /\ UNCHANGED <<unseen, restarts>>
        BY <1>6, <2>0 DEF RaiseFor, Watch, WatchInv
    <2>2. watcher' \in W /\ watcher'.lastPid = p /\ watcher'.at = "reap"
        BY <1>3, <2>1
    <2>3. PhoneTypeOK'
        BY <1>t, <2>1, <2>2 DEF WatchInv, PhoneTypeOK
    <2>4. process'[p].raised
        <3>1. process[p] \in Process
            BY <2>1 DEF WatchInv, LaunchInv, Alive
        <3>2. process'[p] = [process[p] EXCEPT !.raised = TRUE]
            BY <2>1 DEF WatchInv, LaunchInv
        <3> QED
            BY <3>1, <3>2 DEF Process
    <2>5. Alive(p)'
        <3>1. process[p] \in Process
            BY <2>1 DEF WatchInv, LaunchInv, Alive
        <3>2. process'[p] = [process[p] EXCEPT !.raised = TRUE]
            BY <2>1 DEF WatchInv, LaunchInv
        <3>3. process'[p] \in Process
            BY <3>1, <3>2 DEF Process
        <3> QED
            BY <3>3, NobodyAssumption DEF Alive
    <2>6. Remembered'
        BY <2>2, <2>4, <2>5 DEF Remembered
    <2> QED
        BY <1>0, <2>2, <2>3, <2>6 DEF WatchInv
<1>7. CASE Reap
    <2> DEFINE last == IF watcher.lastPid # Nobody /\ ~Alive(watcher.lastPid)
                         THEN Nobody ELSE watcher.lastPid
    <2>1. /\ watcher' = [watcher EXCEPT !.at = "read", !.lastPid = last]
          /\ unseen' = {} /\ UNCHANGED <<process, restarts>>
        BY <1>7 DEF Reap, Watch
    <2>2. watcher' \in W /\ watcher'.lastPid = last /\ watcher'.at = "read"
        BY <1>2, <2>1
    <2>3. PhoneTypeOK'
        BY <1>t, <2>1, <2>2 DEF WatchInv, PhoneTypeOK
    <2>4. ASSUME NEW q \in Pids, last = q
          PROVE  Alive(q) /\ process[q].raised
        BY <2>4, ProcessesAssumption DEF WatchInv, Remembered
    <2>5. Remembered'
        BY <2>1, <2>2, <2>4 DEF Remembered, Alive
    <2> QED
        BY <1>0, <2>2, <2>3, <2>5 DEF WatchInv
<1>8. CASE RestartWatcher
    <2>1. watcher' = Watching /\ restarts' = restarts + 1 /\ restarts < MaxRestarts
          /\ UNCHANGED <<process, unseen>>
        BY <1>8 DEF RestartWatcher
    <2>2. watcher' \in W /\ watcher'.lastPid = Nobody /\ watcher'.at = "read"
        BY <2>1 DEF Watching
    <2>3. PhoneTypeOK'
        BY <1>t, <2>1, <2>2, ProcessesAssumption DEF WatchInv, PhoneTypeOK
    <2>4. Remembered'
        BY <2>2, ProcessesAssumption DEF Remembered
    <2> QED
        BY <1>0, <2>2, <2>3, <2>4 DEF WatchInv
<1> QED
    BY <1>4, <1>5, <1>6, <1>7, <1>8 DEF WatcherStep

LEMMA WatchInductive == PhoneSpec => []WatchInv
<1>1. WatchInv /\ [PhoneNext]_phoneVars => WatchInv'
    <2> SUFFICES ASSUME WatchInv, [PhoneNext]_phoneVars
                 PROVE  WatchInv'
        OBVIOUS
    <2>1. CASE UNCHANGED phoneVars
        <3>1. LaunchInv'
            BY <2>1, LaunchStep DEF WatchInv
        <3> QED
            BY <2>1, <3>1
               DEF WatchInv, phoneVars, PhoneTypeOK, Remembered, Alive, Process
    <2> QED
        BY <2>1, OthersStep, WatcherSteps DEF PhoneNext
<1> QED
    BY <1>1, WatchInit, PTL DEF PhoneSpec

\* The types of the processes, the preference and the watcher (raise-memory-limit.c).
THEOREM PhoneTypeCorrect == PhoneSpec => []PhoneTypeOK
BY WatchInductive, PTL DEF WatchInv

\* The pid that the watcher passes over is one whose limit it raised, whichever apps
\* had that pid before (raise-memory-limit.c:33-40): the safety in LimitIsRaised.
THEOREM PassedOverRightly == PhoneSpec => []PassedOverIsRaised
<1>1. WatchInv => PassedOverIsRaised
    BY DEF WatchInv, Remembered, PassedOverIsRaised
<1> QED
    BY <1>1, WatchInductive, PTL

-----------------------------------------------------------------------------
(* The table of resolved names, which all workers read and write, and the  *)
(* sockets of each.                                                        *)

\* A worker connects to a name as long as it is at work.
Connecting == \A w \in Workers : at[w] # "idle" => name[w] # Empty

DnsTypes == DnsTypeOK /\ Connecting

LEMMA DnsStart == DnsInit => DnsTypes
BY DnsAssumption DEF DnsInit, DnsTypeOK, DnsTypes, Connecting

LEMMA DnsStays ==
    ASSUME DnsTypes, UNCHANGED dnsVars
    PROVE  DnsTypes'
BY DEF DnsTypes, Connecting, dnsVars, cache, sockets, DnsTypeOK

\* What a worker keeps is an entry, under the name that it looked up.
LEMMA StoredIsEntry ==
    ASSUME DnsTypeOK, NEW w \in Workers, DnsCacheStore(w), name[w] # Empty
    PROVE  gDNSCache' \in [Slots -> Entry \cup {Empty}]
<1>1. CASE UNCHANGED gDNSCache
    BY <1>1 DEF DnsTypeOK
<1>2. ASSUME NEW n \in 1..CacheAddresses, n <= count[w],
             gDNSCache' = [gDNSCache EXCEPT ![SlotFor(name[w], read[w])] =
                 [name |-> name[w], count |-> n, expiry |-> read[w] + CacheSeconds]]
      PROVE  gDNSCache' \in [Slots -> Entry \cup {Empty}]
    <2> DEFINE new == [name |-> name[w], count |-> n, expiry |-> read[w] + CacheSeconds]
    <2>1. name[w] \in Names
        BY DEF DnsTypeOK
    <2>2. n \in Sockets \cap (1..CacheAddresses)
        BY <1>2, DnsAssumption DEF DnsTypeOK, Sockets
    <2>3. read[w] + CacheSeconds \in Nat
        BY DnsAssumption DEF DnsTypeOK
    <2>4. new \in Entry
        BY <2>1, <2>2, <2>3 DEF Entry
    <2> HIDE DEF new
    <2>5. gDNSCache' = [gDNSCache EXCEPT ![SlotFor(name[w], read[w])] = new]
        BY <1>2 DEF new
    <2> QED
        BY <2>4, <2>5 DEF DnsTypeOK
<1> QED
    BY <1>1, <1>2 DEF DnsCacheStore

LEMMA OpeningIsSocket ==
    ASSUME DnsTypeOK, NEW w \in Workers, next[w] <= count[w]
    PROVE  next[w] \in Sockets /\ next[w] + 1 \in 1..(MaxAddresses + 1)
BY DnsAssumption DEF DnsTypeOK, Sockets

LEMMA DnsTypesStep ==
    ASSUME DnsTypes, DnsNext
    PROVE  DnsTypes'
<1> USE DEF cache, sockets, Set, MoveTo
<1>0. DnsTypeOK /\ Connecting
    BY DEF DnsTypes
<1>1. ASSUME NEW w \in Workers, DnsStep(w)
      PROVE  DnsTypes'
    <2>1. CASE DnsCacheCopy(w)
        <3>1. count' \in [Workers -> 0..MaxAddresses]
            <4>1. ASSUME NEW i \in Slots, Holds(i, name[w])
                  PROVE  gDNSCache[i].count \in 0..MaxAddresses
                BY <1>0, <4>1, DnsAssumption DEF Holds, DnsTypeOK, Entry, Sockets
            <4> QED
                BY <1>0, <2>1, <4>1 DEF DnsCacheCopy, DnsTypeOK
        <3>2. /\ \/ at' = [at EXCEPT ![w] = "resolve"]
                 \/ at' = [at EXCEPT ![w] = "open"]
              /\ read' = [read EXCEPT ![w] = 0] /\ at[w] = "copy"
              /\ UNCHANGED <<now, gDNSCache, name, next, waiting, answer, open, blocks, handle, late>>
            BY <2>1 DEF DnsCacheCopy
        <3>3. read' \in [Workers -> 0..MaxTime]
            BY <1>0, <3>2, DnsAssumption DEF DnsTypeOK
        <3>4. DnsTypeOK'
            BY <1>0, <3>1, <3>2, <3>3 DEF DnsTypeOK
        <3> QED
            BY <1>0, <3>2, <3>4 DEF DnsTypeOK, DnsTypes, Connecting
    <2>2. CASE GetAddrInfo(w)
        <3>1. \A n \in 1..MaxAddresses : n \in 0..MaxAddresses
            BY DnsAssumption
        <3>2. /\ \/ at' = [at EXCEPT ![w] = "store"]
                 \/ at' = [at EXCEPT ![w] = "close"]
              /\ count' = count \/ \E n \in 1..MaxAddresses : count' = [count EXCEPT ![w] = n]
              /\ read' = read \/ read' = [read EXCEPT ![w] = now]
              /\ UNCHANGED <<now, gDNSCache, name, next, waiting, answer, open, blocks, handle, late>>
              /\ at[w] = "resolve"
            BY <2>2 DEF GetAddrInfo
        <3>3. count' \in [Workers -> 0..MaxAddresses] /\ read' \in [Workers -> 0..MaxTime]
            <4>1. now \in 0..MaxTime /\ count \in [Workers -> 0..MaxAddresses]
                  /\ read \in [Workers -> 0..MaxTime]
                BY <1>0 DEF DnsTypeOK
            <4>2. read' \in [Workers -> 0..MaxTime]
                BY <3>2, <4>1
            <4>3. count' \in [Workers -> 0..MaxAddresses]
                BY <3>1, <3>2, <4>1
            <4> QED
                BY <4>2, <4>3
        <3>4. DnsTypeOK'
            BY <1>0, <3>2, <3>3 DEF DnsTypeOK
        <3> QED
            BY <1>0, <3>2, <3>4 DEF DnsTypeOK, DnsTypes, Connecting
    <2>3. CASE DnsCacheStore(w)
        <3>1. gDNSCache' \in [Slots -> Entry \cup {Empty}]
            BY <1>0, <2>3, StoredIsEntry DEF DnsCacheStore, Connecting
        <3>2. /\ at' = [at EXCEPT ![w] = "open"] /\ read' = [read EXCEPT ![w] = 0]
              /\ UNCHANGED <<now, name, sockets>> /\ at[w] = "store"
            BY <2>3 DEF DnsCacheStore
        <3> QED
            BY <1>0, <3>1, <3>2, DnsAssumption DEF DnsTypeOK, DnsTypes, Connecting
    <2>4. CASE OpenSocket(w)
        <3> DEFINE s == next[w]
        <3>1. s \in Sockets /\ s + 1 \in 1..(MaxAddresses + 1)
            BY <1>0, <2>4, OpeningIsSocket DEF OpenSocket
        <3>2. next' = [next EXCEPT ![w] = s + 1]
              /\ UNCHANGED <<now, gDNSCache, name, read, count, late>> /\ at[w] = "open"
              /\ (Reached(w, s) \/ InProgress(w, s) \/ Unreached(w, s))
            BY <2>4 DEF OpenSocket
        <3>3. next' \in [Workers -> 1..(MaxAddresses + 1)]
            BY <1>0, <3>1, <3>2 DEF DnsTypeOK
        <3> HIDE DEF s
        <3>4. CASE Reached(w, s)
            BY <1>0, <3>1, <3>2, <3>3, <3>4 DEF Reached, DnsTypeOK, DnsTypes, Connecting
        <3>5. CASE InProgress(w, s)
            BY <1>0, <3>1, <3>2, <3>3, <3>5 DEF InProgress, DnsTypeOK, DnsTypes, Connecting
        <3>6. CASE Unreached(w, s)
            BY <1>0, <3>1, <3>2, <3>3, <3>6 DEF Unreached, DnsTypeOK, DnsTypes, Connecting
        <3> QED
            BY <3>2, <3>4, <3>5, <3>6
    <2>5. CASE AllOpened(w)
        BY <1>0, <2>5 DEF AllOpened, DnsTypeOK, DnsTypes, Connecting
    <2>6. CASE Scan(w)
        <3>1. /\ waiting' \in [Workers -> SUBSET Sockets]
              /\ open' \in [Workers -> SUBSET Sockets]
              /\ blocks' \in [Workers -> SUBSET Sockets]
              /\ handle' \in [Workers -> Sockets \cup {NoHandle}]
            <4>1. CASE ScanFindsNone(w)
                BY <1>0, <4>1 DEF ScanFindsNone, Kept, DnsTypeOK
            <4>2. ASSUME NEW s \in Sockets, ScanFinds(w, s)
                  PROVE  /\ waiting' \in [Workers -> SUBSET Sockets]
                         /\ open' \in [Workers -> SUBSET Sockets]
                         /\ blocks' \in [Workers -> SUBSET Sockets]
                         /\ handle' \in [Workers -> Sockets \cup {NoHandle}]
                <5> DEFINE failed == {t \in Ready(w) : t < s}
                <5>1. /\ open' = [open EXCEPT ![w] = open[w] \ failed]
                      /\ waiting' = [waiting EXCEPT ![w] = (waiting[w] \ failed) \ {s}]
                      /\ blocks' = [blocks EXCEPT ![w] = {s}] /\ handle' = [handle EXCEPT ![w] = s]
                    BY <4>2 DEF ScanFinds, Kept
                <5> HIDE DEF failed
                <5> QED
                    BY <1>0, <5>1 DEF DnsTypeOK
            <4> QED
                BY <2>6, <4>1, <4>2 DEF Scan
        <3> QED
            BY <1>0, <2>6, <3>1 DEF Scan, DnsTypeOK, DnsTypes, Connecting
    <2>7. CASE EndPoll(w)
        BY <1>0, <2>7 DEF EndPoll, DnsTypeOK, DnsTypes, Connecting
    <2>8. CASE CloseRest(w)
        BY <1>0, <2>8, DnsAssumption DEF CloseRest, DnsTypeOK, DnsTypes, Connecting
    <2> QED
        BY <1>1, <2>1, <2>2, <2>3, <2>4, <2>5, <2>6, <2>7, <2>8 DEF DnsStep
<1>2. ASSUME NEW w \in Workers, RunsLate(w)
      PROVE  DnsTypes'
    BY <1>0, <1>2 DEF RunsLate, DnsTypeOK, DnsTypes, Connecting
<1>3. ASSUME NEW w \in Workers, NEW n \in Names, ConnectToHost(w, n)
      PROVE  DnsTypes'
    BY <1>0, <1>3, DnsAssumption DEF ConnectToHost, DnsTypeOK, DnsTypes, Connecting
<1>4. ASSUME NEW w \in Workers, NEW s \in Sockets, Answer(w, s)
      PROVE  DnsTypes'
    BY <1>0, <1>4 DEF Answer, DnsTypeOK, DnsTypes, Connecting
<1>5. ASSUME Tick
      PROVE  DnsTypes'
    BY <1>0, <1>5, DnsAssumption DEF Tick, DnsTypeOK, DnsTypes, Connecting
<1> QED
    BY <1>1, <1>2, <1>3, <1>4, <1>5 DEF DnsNext

\* The slot of a name that the table holds once is the one where it is stored again.
LEMMA OwnSlot ==
    ASSUME OneEntryPerName, NEW n \in Names, NEW time,
           NEW i \in Slots, Holds(i, n)
    PROVE  SlotFor(n, time) = i
<1>1. {j \in Slots : Holds(j, n)} = {i}
    BY DEF OneEntryPerName
<1>2. i \in Int
    BY DnsAssumption DEF Slots
<1>3. Min({i}) = i
    BY <1>2 DEF Min
<1> QED
    BY <1>1, <1>3 DEF SlotFor

\* Storing a name twice leaves it in the table once.
LEMMA EntriesStep ==
    ASSUME DnsTypes, OneEntryPerName, [DnsNext]_dnsVars
    PROVE  OneEntryPerName'
<1> USE DEF cache, sockets
<1>1. CASE UNCHANGED gDNSCache
    BY <1>1 DEF OneEntryPerName, Holds
<1>2. ASSUME NEW w \in Workers, DnsCacheStore(w), ~UNCHANGED gDNSCache
      PROVE  OneEntryPerName'
    <2> DEFINE slot == SlotFor(name[w], read[w])
    <2> DEFINE new(n) == [name |-> name[w], count |-> n, expiry |-> read[w] + CacheSeconds]
    <2>1. PICK n \in 1..CacheAddresses : gDNSCache' = [gDNSCache EXCEPT ![slot] = new(n)]
        BY <1>2 DEF DnsCacheStore
    <2>2. name[w] \in Names
        BY <1>2 DEF DnsCacheStore, DnsTypes, DnsTypeOK, Connecting
    <2>3. \A i \in Slots : Holds(i, name[w]) => i = slot
        BY <2>2, OwnSlot
    <2> HIDE DEF slot
    <2>4. \A i \in Slots : gDNSCache'[i] = IF i = slot THEN new(n) ELSE gDNSCache[i]
        BY <2>1 DEF DnsTypes, DnsTypeOK
    <2>5. new(n).name = name[w]
        OBVIOUS
    <2> HIDE DEF new
    <2> QED
        BY <2>3, <2>5, <2>4 DEF OneEntryPerName, Holds
<1>3. UNCHANGED gDNSCache \/ \E w \in Workers : DnsCacheStore(w)
    BY DEF DnsNext, DnsStep, dnsVars, DnsCacheCopy, GetAddrInfo, OpenSocket, AllOpened,
       Scan, EndPoll, CloseRest, RunsLate, ConnectToHost, Answer, Tick
<1> QED
    BY <1>1, <1>2, <1>3

\* The sockets of a worker are the ones that it polls and the one it returns.
Racing(w) ==
    /\ at[w] \in {"idle", "copy", "resolve", "store"} => waiting[w] = {}
    /\ at[w] \in {"copy", "resolve", "store", "open"} => handle[w] = NoHandle
    /\ at[w] = "open" => \A s \in waiting[w] : s < next[w]
    /\ at[w] = "close" => handle[w] # NoHandle \/ waiting[w] = {} \/ late[w]
    /\ open[w] = waiting[w] \cup ({handle[w]} \ {NoHandle})
    /\ handle[w] \notin waiting[w]
    /\ open[w] \ waiting[w] \subseteq blocks[w]

DnsInv == DnsTypes /\ OneEntryPerName /\ \A w \in Workers : Racing(w)

LEMMA RacingStep ==
    ASSUME DnsTypes, NEW w \in Workers, Racing(w), [DnsNext]_dnsVars
    PROVE  Racing(w)'
<1> USE DEF cache, sockets, Set, MoveTo
<1>0. DnsTypeOK /\ \A s \in Sockets : s # NoHandle /\ s \in Int
    BY DnsAssumption DEF DnsTypes, Sockets, NoHandle
<1>1. CASE UNCHANGED <<at[w], next[w], waiting[w], open[w], blocks[w], handle[w]>> /\ (late[w] => late'[w])
    BY <1>1 DEF Racing
<1>2. CASE DnsStep(w)
    <2>1. CASE DnsCacheCopy(w)
        BY <1>0, <2>1 DEF DnsCacheCopy, DnsTypeOK, Racing
    <2>2. CASE GetAddrInfo(w)
        BY <1>0, <2>2 DEF GetAddrInfo, DnsTypeOK, Racing
    <2>3. CASE DnsCacheStore(w)
        BY <1>0, <2>3 DEF DnsCacheStore, DnsTypeOK, Racing
    <2>4. CASE OpenSocket(w)
        <3> DEFINE s == next[w]
        <3>1. s \in Sockets /\ s \in Nat
            BY <1>0, <2>4, OpeningIsSocket, DnsAssumption DEF OpenSocket, DnsTypeOK
        <3>2. next'[w] = s + 1 /\ late' = late /\ at[w] = "open"
              /\ (Reached(w, s) \/ InProgress(w, s) \/ Unreached(w, s))
            BY <1>0, <2>4 DEF OpenSocket, DnsTypeOK
        <3>3. s \notin waiting[w] /\ handle[w] = NoHandle /\ open[w] = waiting[w]
              /\ \A t \in waiting[w] : t < s + 1
            BY <1>0, <3>1, <3>2 DEF Racing, DnsTypeOK
        <3> HIDE DEF s
        <3>4. CASE Reached(w, s)
            BY <1>0, <3>1, <3>2, <3>3, <3>4 DEF Reached, DnsTypeOK, Racing
        <3>5. CASE InProgress(w, s)
            BY <1>0, <3>1, <3>2, <3>3, <3>5 DEF InProgress, DnsTypeOK, Racing
        <3>6. CASE Unreached(w, s)
            BY <1>0, <3>1, <3>2, <3>3, <3>6 DEF Unreached, DnsTypeOK, Racing
        <3> QED
            BY <3>2, <3>4, <3>5, <3>6
    <2>5. CASE AllOpened(w)
        BY <1>0, <2>5 DEF AllOpened, DnsTypeOK, Racing
    <2>6. CASE Scan(w)
        <3>1. CASE ScanFindsNone(w)
            BY <1>0, <2>6, <3>1 DEF Scan, ScanFindsNone, Kept, DnsTypeOK, Racing
        <3>2. ASSUME NEW s \in Sockets, ScanFinds(w, s)
              PROVE  Racing(w)'
            <4> DEFINE failed == {t \in Ready(w) : t < s}
            <4>1. failed \subseteq waiting[w] /\ s \notin failed /\ s \in waiting[w]
                BY <1>0, <3>2 DEF ScanFinds, Connected, Ready
            <4>2. /\ open'[w] = open[w] \ failed /\ waiting'[w] = (waiting[w] \ failed) \ {s}
                  /\ blocks'[w] = {s} /\ handle'[w] = s
                BY <1>0, <3>2 DEF ScanFinds, Kept, DnsTypeOK
            <4> HIDE DEF failed
            <4> QED
                BY <1>0, <2>6, <4>1, <4>2 DEF Scan, Racing
        <3> QED
            BY <2>6, <3>1, <3>2 DEF Scan
    <2>7. CASE EndPoll(w)
        BY <1>0, <2>7 DEF EndPoll, DnsTypeOK, Racing
    <2>8. CASE CloseRest(w)
        BY <1>0, <2>8 DEF CloseRest, DnsTypeOK, Racing
    <2> QED
        BY <1>2, <2>1, <2>2, <2>3, <2>4, <2>5, <2>6, <2>7, <2>8 DEF DnsStep
<1>3. ASSUME NEW n \in Names, ConnectToHost(w, n)
      PROVE  Racing(w)'
    BY <1>0, <1>3 DEF ConnectToHost, DnsTypeOK, Racing
<1>4. CASE RunsLate(w)
    BY <1>0, <1>1, <1>4 DEF RunsLate, DnsTypeOK
<1>5. CASE \E s \in Sockets : Answer(w, s)
    BY <1>0, <1>1, <1>5 DEF Answer
<1>6. CASE Tick \/ UNCHANGED dnsVars
    BY <1>1, <1>6 DEF Tick, dnsVars
<1>7. ASSUME NEW v \in Workers, v # w,
             \/ DnsStep(v) \/ RunsLate(v)
             \/ \E n \in Names : ConnectToHost(v, n)
             \/ \E s \in Sockets : Answer(v, s)
      PROVE  Racing(w)'
    <2>1. CASE DnsStep(v)
        BY <1>0, <1>1, <1>7, <2>1
           DEF DnsStep, DnsCacheCopy, GetAddrInfo, DnsCacheStore, OpenSocket, Reached,
               InProgress, Unreached, AllOpened, Scan, ScanFinds,
               ScanFindsNone, EndPoll, CloseRest, DnsTypeOK
    <2>2. CASE ~DnsStep(v)
        BY <1>0, <1>1, <1>7, <2>2 DEF RunsLate, ConnectToHost, Answer, DnsTypeOK
    <2> QED
        BY <2>1, <2>2
<1> QED
    BY <1>2, <1>3, <1>4, <1>5, <1>6, <1>7 DEF DnsNext

LEMMA DnsInductive == DnsSpec => []DnsInv
<1>1. DnsInit => DnsInv
    BY DnsStart DEF DnsInit, DnsInv, OneEntryPerName, Holds, Racing
<1>2. DnsInv /\ [DnsNext]_dnsVars => DnsInv'
    BY DnsTypesStep, DnsStays, EntriesStep, RacingStep DEF DnsInv
<1> QED
    BY <1>1, <1>2, PTL DEF DnsSpec

\* Entries, calls and sockets are of their types, for any resolver and any clock: no
\* socket is opened beyond a name's addresses (m:206) and no entry has more than it has
\* place for (m:120).
THEOREM DnsTypeCorrect == DnsSpec => []DnsTypeOK
<1>1. DnsInv => DnsTypeOK
    BY DEF DnsInv, DnsTypes
<1> QED
    BY <1>1, DnsInductive, PTL

\* Whichever workers resolve a name at the same time, and whatever they evict, the
\* table holds it once (dnsCacheStore, ModernTLSURLProtocol.m:138-163).
THEOREM NamesAreOnce == DnsSpec => []OneEntryPerName
<1>1. DnsInv => OneEntryPerName
    BY DEF DnsInv
<1> QED
    BY <1>1, DnsInductive, PTL

\* Of the sockets of a race only the one that won is left, and it blocks
\* (connectToHost, ModernTLSURLProtocol.m:206-278).
THEOREM OnlyTheWinnerIsOpen == DnsSpec => []OthersAreClosed
<1>1. DnsInv => OthersAreClosed
    BY DEF DnsInv, Racing, OthersAreClosed
<1> QED
    BY <1>1, DnsInductive, PTL

\* Nobody gives up while a socket may still connect and there is time (m:237-271).
THEOREM GivesUpWithReason == DnsSpec => []FailsForAReason
<1>1. DnsInv => FailsForAReason
    BY DEF DnsInv, Racing, FailsForAReason
<1> QED
    BY <1>1, DnsInductive, PTL

-----------------------------------------------------------------------------
(* The queue of background revalidations, for any keys and any limit: its  *)
(* parts are inductive together.  HoldsRequest ties the request that the   *)
(* block holds to its stage, without which taking a request could          *)
(* overwrite one that is not finished yet.                                 *)

ShellInv == ShellTypeOK /\ InFlightExact /\ OneDrain /\ NoLostWakeup /\ HoldsRequest

\* What Append adds to the set of a sequence's elements.
LEMMA AppendElements ==
    ASSUME NEW S, NEW s \in Seq(S), NEW e \in S
    PROVE  /\ Append(s, e) \in Seq(S)
           /\ Len(Append(s, e)) = Len(s) + 1
           /\ ToSet(Append(s, e)) = ToSet(s) \cup {e}
           /\ \A i \in DOMAIN s : Append(s, e)[i] = s[i]
           /\ Append(s, e)[Len(s) + 1] = e
           /\ DOMAIN Append(s, e) = DOMAIN s \cup {Len(s) + 1}
<1>1. Len(s) \in Nat /\ DOMAIN s = 1..Len(s)
    OBVIOUS
<1>2. Append(s, e) \in Seq(S) /\ Len(Append(s, e)) = Len(s) + 1
    OBVIOUS
<1>3. DOMAIN Append(s, e) = DOMAIN s \cup {Len(s) + 1}
    BY <1>1, <1>2
<1>4. \A i \in DOMAIN s : Append(s, e)[i] = s[i]
    BY <1>1
<1>5. Append(s, e)[Len(s) + 1] = e
    BY <1>1
<1>6. ToSet(Append(s, e)) = ToSet(s) \cup {e}
    BY <1>3, <1>4, <1>5 DEF ToSet
<1> QED BY <1>2, <1>3, <1>4, <1>5, <1>6

\* What Tail leaves of a sequence without repetitions: all but its head.
LEMMA TailElements ==
    ASSUME NEW S, NEW s \in Seq(S), s # <<>>,
           \A i, j \in DOMAIN s : s[i] = s[j] => i = j
    PROVE  /\ Head(s) \in ToSet(s)
           /\ Head(s) \in S
           /\ Tail(s) \in Seq(S)
           /\ Len(Tail(s)) = Len(s) - 1
           /\ ToSet(Tail(s)) = ToSet(s) \ {Head(s)}
           /\ \A i, j \in DOMAIN Tail(s) : Tail(s)[i] = Tail(s)[j] => i = j
<1>1. Len(s) \in Nat \ {0} /\ DOMAIN s = 1..Len(s)
    OBVIOUS
<1>2. DOMAIN Tail(s) = 1..(Len(s) - 1) /\ Len(Tail(s)) = Len(s) - 1
    BY <1>1
<1>3. \A i \in DOMAIN Tail(s) : Tail(s)[i] = s[i + 1] /\ i + 1 \in DOMAIN s
    BY <1>1, <1>2
<1>4. Head(s) = s[1] /\ Head(s) \in ToSet(s) /\ Head(s) \in S
    BY <1>1 DEF ToSet
<1>5. ToSet(Tail(s)) = ToSet(s) \ {Head(s)}
    <2>1. ASSUME NEW x \in ToSet(Tail(s)) PROVE x \in ToSet(s) \ {Head(s)}
        <3>1. PICK i \in DOMAIN Tail(s) : x = Tail(s)[i]
            BY DEF ToSet
        <3>2. x = s[i + 1] /\ i + 1 \in DOMAIN s /\ i + 1 # 1
            BY <3>1, <1>2, <1>3, <1>1
        <3> QED BY <3>2, <1>4, <1>1 DEF ToSet
    <2>2. ASSUME NEW x \in ToSet(s), x # Head(s) PROVE x \in ToSet(Tail(s))
        <3>1. PICK i \in DOMAIN s : x = s[i]
            BY DEF ToSet
        <3>2. i - 1 \in DOMAIN Tail(s) /\ (i - 1) + 1 = i
            BY <3>1, <2>2, <1>1, <1>2, <1>4
        <3> QED BY <3>1, <3>2, <1>3 DEF ToSet
    <2> QED BY <2>1, <2>2
<1>6. \A i, j \in DOMAIN Tail(s) : Tail(s)[i] = Tail(s)[j] => i = j
    BY <1>1, <1>2, <1>3
<1>7. Tail(s) \in Seq(S)
    BY <1>1
<1> QED BY <1>2, <1>4, <1>5, <1>6, <1>7

LEMMA ShellInitInv == ShellInit => ShellInv
<1> SUFFICES ASSUME ShellInit PROVE ShellInv
    OBVIOUS
<1> USE ShellAssumption DEF ShellInit
<1>1. ShellTypeOK
    <2>1. entry \in [Keys -> EntryStates]
        BY DEF EntryStates
    <2>2. cacheFirst \in BOOLEAN
        OBVIOUS
    <2>3. pending \in Seq(Keys) /\ Len(pending) <= QueueLimit
        OBVIOUS
    <2>4. /\ noted \in 0..QuietPeriod /\ sampled \in 0..QuietPeriod
          /\ quiet \in 0..QuietPeriod /\ waited \in 0..QuietDeadline
        BY DEF ShellAssumption
    <2>5. /\ inFlight \subseteq Keys
          /\ draining \in BOOLEAN /\ dispatched \in Nat
          /\ stage \in DrainStates /\ current \in Keys \cup {NoKey}
        BY DEF DrainStates
    <2> QED BY <2>1, <2>2, <2>3, <2>4, <2>5 DEF ShellTypeOK
<1>2. ToSet(pending) = {} /\ DOMAIN pending = {}
    BY DEF ToSet
<1>3. InFlightExact
    BY <1>2 DEF InFlightExact, Running
<1>4. OneDrain /\ NoLostWakeup /\ HoldsRequest
    BY DEF OneDrain, NoLostWakeup, HoldsRequest
<1> QED BY <1>1, <1>3, <1>4 DEF ShellInv

LEMMA ShellNextInv == ShellInv /\ [ShellNext]_shellVars => ShellInv'
<1> SUFFICES ASSUME ShellInv, [ShellNext]_shellVars PROVE ShellInv'
    OBVIOUS
<1> USE ShellAssumption
<1>1. ASSUME NEW k \in Keys, Enqueue(k),
             UNCHANGED <<policyVars, stage, current, clockVars>>
      PROVE  ShellInv'
    <2> USE <1>1 DEF ShellInv, ShellTypeOK, policyVars, clockVars
    <2>1. CASE Declined(k)
        <3>1. UNCHANGED queueVars
            BY <2>1 DEF Enqueue
        <3> QED BY <3>1 DEF queueVars, InFlightExact, OneDrain,
                            NoLostWakeup, HoldsRequest, Running
    <2>2. CASE ~Declined(k)
        <3>1. /\ pending' = Append(pending, k)
              /\ inFlight' = inFlight \cup {k}
              /\ StartDraining
            BY <2>2 DEF Enqueue
        <3>2. k \notin inFlight /\ Len(pending) < QueueLimit
            BY <2>2 DEF Declined
        <3>3. /\ pending' \in Seq(Keys) /\ Len(pending') = Len(pending) + 1
              /\ ToSet(pending') = ToSet(pending) \cup {k}
              /\ \A i \in DOMAIN pending : pending'[i] = pending[i]
              /\ pending'[Len(pending) + 1] = k
              /\ DOMAIN pending' = DOMAIN pending \cup {Len(pending) + 1}
            BY <3>1, AppendElements
        <3>4. ShellTypeOK'
            BY <3>1, <3>2, <3>3 DEF StartDraining
        <3>5. InFlightExact'
            <4>1. \A i \in DOMAIN pending : pending[i] # k
                BY <3>2 DEF InFlightExact, ToSet
            <4> QED BY <4>1, <3>1, <3>2, <3>3 DEF InFlightExact, Running
        <3>6. OneDrain' /\ NoLostWakeup' /\ HoldsRequest'
            BY <3>1 DEF StartDraining, OneDrain, NoLostWakeup, HoldsRequest,
                        DrainStates
        <3> QED BY <3>4, <3>5, <3>6
    <2> QED BY <2>1, <2>2
<1>2. ASSUME NEW k \in Keys, ServeStale(k) PROVE ShellInv'
    BY <1>1, <1>2 DEF ServeStale
<1>3. ASSUME NEW k \in Keys, Precache(k) PROVE ShellInv'
    BY <1>1, <1>3 DEF Precache
<1>4. ASSUME NEW k \in Keys, Outdate(k) PROVE ShellInv'
    BY <1>4 DEF Outdate, queueVars, clockVars, ShellInv, ShellTypeOK, EntryStates,
        InFlightExact, OneDrain, NoLostWakeup, HoldsRequest, Running
<1>5. ASSUME NEW on \in PolicySettings, SetShellCacheFirst(on) PROVE ShellInv'
    BY <1>5 DEF SetShellCacheFirst, queueVars, clockVars, ShellInv, ShellTypeOK,
        InFlightExact, OneDrain, NoLostWakeup, HoldsRequest, Running
<1>6. CASE ForegroundActivity
    BY <1>6 DEF ForegroundActivity, NoteForeground, policyVars, queueVars,
        ShellInv, ShellTypeOK, InFlightExact, OneDrain, NoLostWakeup, HoldsRequest,
        Running
<1>7. CASE TimePasses
    <2>1. ASSUME NEW cap \in Nat, NEW age \in 0..cap
          PROVE  Older(age, cap) \in 0..cap
        BY DEF Older
    <2>2. /\ noted' \in 0..QuietPeriod /\ sampled' \in 0..QuietPeriod
          /\ quiet' \in 0..QuietPeriod /\ waited' \in 0..QuietDeadline
        BY <2>1, <1>7 DEF TimePasses, ShellInv, ShellTypeOK
    <2> QED BY <2>2, <1>7 DEF TimePasses, policyVars, queueVars, ShellInv, ShellTypeOK,
        InFlightExact, OneDrain, NoLostWakeup, HoldsRequest, Running
<1>8. CASE StartBlock
    BY <1>8 DEF StartBlock, policyVars, clockVars, ShellInv, ShellTypeOK, DrainStates,
        InFlightExact, OneDrain, NoLostWakeup, HoldsRequest, Running
<1>9. CASE TakeNext
    <2> USE <1>9 DEF TakeNext, ShellInv
    <2>1. /\ Head(pending) \in ToSet(pending) /\ Head(pending) \in Keys
          /\ pending' \in Seq(Keys) /\ Len(pending') = Len(pending) - 1
          /\ ToSet(pending') = ToSet(pending) \ {Head(pending)}
          /\ \A i, j \in DOMAIN pending' : pending'[i] = pending'[j] => i = j
        BY TailElements DEF ShellTypeOK, InFlightExact
    <2>2. ShellTypeOK'
        BY <2>1 DEF ShellTypeOK, DrainStates, policyVars
    <2>3. InFlightExact'
        <3>1. Running = {} /\ Running' = {Head(pending)}
            BY <2>1 DEF HoldsRequest, Running
        <3> QED BY <2>1, <3>1 DEF InFlightExact
    <2>4. OneDrain' /\ NoLostWakeup' /\ HoldsRequest'
        BY <2>1 DEF OneDrain, NoLostWakeup, HoldsRequest
    <2> QED BY <2>2, <2>3, <2>4
<1>10. CASE StopDraining
    <2> USE <1>10 DEF StopDraining, ShellInv
    <2>1. ShellTypeOK'
        BY DEF ShellTypeOK, policyVars, clockVars, DrainStates
    <2>2. dispatched = 0
        BY DEF OneDrain, ShellTypeOK
    <2>3. OneDrain'
        BY <2>2 DEF OneDrain
    <2>4. InFlightExact' /\ NoLostWakeup' /\ HoldsRequest'
        BY DEF InFlightExact, NoLostWakeup, HoldsRequest, Running
    <2> QED BY <2>1, <2>3, <2>4
<1>11. CASE ReturnFromBlock
    BY <1>11 DEF ReturnFromBlock, policyVars, queueVars, clockVars, ShellInv,
        ShellTypeOK, DrainStates, InFlightExact, OneDrain, NoLostWakeup,
        HoldsRequest, Running
<1>12. CASE SampleForeground
    BY <1>12 DEF SampleForeground, policyVars, queueVars, ShellInv, ShellTypeOK,
        DrainStates, InFlightExact, OneDrain, NoLostWakeup, HoldsRequest,
        Running
<1>13. CASE DecideToRun
    BY <1>13 DEF DecideToRun, policyVars, queueVars, clockVars, ShellInv, ShellTypeOK,
        DrainStates, InFlightExact, OneDrain, NoLostWakeup, HoldsRequest,
        Running
<1>14. CASE SleepAndRetry
    BY <1>14 DEF SleepAndRetry, policyVars, queueVars, clockVars, ShellInv, ShellTypeOK,
        DrainStates, InFlightExact, OneDrain, NoLostWakeup, HoldsRequest,
        Running
<1>15. CASE FinishRun
    <2> USE <1>15 DEF FinishRun, ShellInv
    <2>1. current \in Keys
        BY DEF HoldsRequest, ShellTypeOK
    <2>2. ShellTypeOK'
        BY <2>1 DEF ShellTypeOK, DrainStates, EntryStates, clockVars
    <2>3. InFlightExact'
        BY <2>1 DEF InFlightExact, Running, ShellTypeOK
    <2>4. OneDrain' /\ NoLostWakeup' /\ HoldsRequest'
        BY DEF OneDrain, NoLostWakeup, HoldsRequest
    <2> QED BY <2>2, <2>3, <2>4
<1>16. CASE UNCHANGED shellVars
    BY <1>16 DEF shellVars, ShellInv, ShellTypeOK, InFlightExact, OneDrain, NoLostWakeup,
        HoldsRequest, Running
<1> QED
    BY <1>2, <1>3, <1>4, <1>5, <1>6, <1>7, <1>8, <1>9, <1>10, <1>11, <1>12,
       <1>13, <1>14, <1>15, <1>16 DEF ShellNext, Drain

\* The variables keep their types, and the queue never outgrows
\* kShellQueueLimit, whatever the limit is.
THEOREM ShellTypeCorrect == ShellSpec => []ShellTypeOK
BY ShellInitInv, ShellNextInv, PTL DEF ShellSpec, ShellInv

\* gShellInFlight is exactly the queued and the running keys, each once.
THEOREM InFlightIsExact == ShellSpec => []InFlightExact
BY ShellInitInv, ShellNextInv, PTL DEF ShellSpec, ShellInv

\* Never two drain blocks: one revalidation at a time on the serial queue.
THEOREM OneDrainAtATime == ShellSpec => []OneDrain
BY ShellInitInv, ShellNextInv, PTL DEF ShellSpec, ShellInv

\* A non-empty queue has a drain block, started or dispatched, that will see it.
THEOREM WakeupsAreNotLost == ShellSpec => []NoLostWakeup
BY ShellInitInv, ShellNextInv, PTL DEF ShellSpec, ShellInv
=============================================================================
