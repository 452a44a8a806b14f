-------------------------- MODULE ShellRevalidation --------------------------
(***************************************************************************)
(* The app-shell policy's background revalidations                         *)
(* (app/ModernTLSURLProtocol.m, shell* functions; docs/network.md, "The    *)
(* app-shell policy").  A stored shell response is served however stale it *)
(* is and a revalidation is queued; one drain block at a time, on a serial *)
(* dispatch queue, waits for the foreground to go quiet and runs the       *)
(* queued requests in order.                                               *)
(*                                                                         *)
(* Every critical section of gShellMutex is one step, and so is every      *)
(* stretch of the drain block between two of them.  Time is discrete:      *)
(* `noted', `sampled', `quiet' and `waited' are ages that TimePasses       *)
(* advances, each capped where the code stops telling larger values apart. *)
(***************************************************************************)
EXTENDS Naturals, Sequences, SequencesExt

CONSTANTS
    Keys,           \* cache keys of shell requests
    NoKey,          \* the drain block holds no request
    QueueLimit,     \* kShellQueueLimit
    QuietPeriod,    \* kShellQuietPeriod, in ticks
    QuietDeadline,  \* kShellQuietDeadline, in ticks
    PolicySettings  \* the values the embedder gives gShellCacheFirst

ASSUME ShellAssumption ==
    /\ NoKey \notin Keys
    /\ QueueLimit \in Nat \ {0}
    /\ QuietPeriod \in Nat
    /\ QuietDeadline \in Nat
    /\ PolicySettings \subseteq BOOLEAN

VARIABLES
    cacheFirst,  \* gShellCacheFirst
    entry,       \* what the disk cache holds for each key
    pending,     \* gShellPending, as keys
    inFlight,    \* gShellInFlight
    draining,    \* gShellDraining
    dispatched,  \* drain blocks on gShellRunner that have not started
    stage,       \* where the executing drain block is
    current,     \* the request the drain block took
    noted,       \* age of gShellForegroundAt
    sampled,     \* age of the copy of it that shellWaitForQuiet took
    quiet,       \* age of the last foreground activity, noted or not
    waited       \* time since shellWaitForQuiet was entered

policyVars == <<cacheFirst, entry>>
queueVars  == <<pending, inFlight, draining, dispatched>>
clockVars  == <<noted, sampled, quiet, waited>>
shellVars == <<cacheFirst, entry, pending, inFlight, draining, dispatched, stage, current,
               noted, sampled, quiet, waited>>

\* "absent" stands for no entry and for one older than kShellMaxStale.
EntryStates == {"absent", "stale", "fresh"}
DrainStates == {"idle", "loop", "sample", "decide", "running", "exiting"}

ShellTypeOK ==
    /\ cacheFirst \in BOOLEAN
    /\ entry \in [Keys -> EntryStates]
    /\ pending \in Seq(Keys) /\ Len(pending) <= QueueLimit
    /\ inFlight \subseteq Keys
    /\ draining \in BOOLEAN
    /\ dispatched \in Nat
    /\ stage \in DrainStates
    /\ current \in Keys \cup {NoKey}
    /\ noted \in 0..QuietPeriod
    /\ sampled \in 0..QuietPeriod
    /\ quiet \in 0..QuietPeriod
    /\ waited \in 0..QuietDeadline

ShellInit ==
    /\ cacheFirst \in PolicySettings
    /\ entry \in [Keys -> {"absent", "stale"}]
    /\ pending = <<>>
    /\ inFlight = {}
    /\ draining = FALSE
    /\ dispatched = 0
    /\ stage = "idle"
    /\ current = NoKey
    /\ noted = QuietPeriod
    /\ sampled = QuietPeriod
    /\ quiet = QuietPeriod
    /\ waited = 0

-----------------------------------------------------------------------------
(* The queue, under gShellMutex.                                           *)

\* Mutant: a test dropped.
DeclinedIgnoringInFlight(k) == Len(pending) >= QueueLimit

\* The early return of shellQueueRevalidation and the test in precacheURLs.
Declined(k) == k \in inFlight \/ Len(pending) >= QueueLimit

\* Mutant: a block for every request.
StartDrainingAlways ==
    /\ draining' = TRUE
    /\ dispatched' = dispatched + 1

\* shellStartDrainingLocked: dispatch a drain block unless one is draining.
StartDraining ==
    /\ draining' = TRUE
    /\ dispatched' = IF draining THEN dispatched ELSE dispatched + 1

Enqueue(k) ==
    IF Declined(k)
    THEN UNCHANGED queueVars
    ELSE /\ pending' = Append(pending, k)
         /\ inFlight' = inFlight \cup {k}
         /\ StartDraining

\* answerFromCache hands over a stale entry by policy and queues its
\* revalidation with shellQueueRevalidation.
ServeStale(k) ==
    /\ cacheFirst
    /\ entry[k] = "stale"
    /\ Enqueue(k)
    /\ UNCHANGED <<policyVars, stage, current, clockVars>>

\* precacheURLs for one URL.  It asks nothing of the policy.
Precache(k) ==
    /\ entry[k] = "absent"
    /\ Enqueue(k)
    /\ UNCHANGED <<policyVars, stage, current, clockVars>>

\* setShellCacheFirstEnabled:forHosts:
SetShellCacheFirst(on) ==
    /\ cacheFirst' = on
    /\ UNCHANGED <<entry, queueVars, stage, current, clockVars>>

-----------------------------------------------------------------------------
(* The foreground.                                                         *)

\* shellNoteForegroundActivity: only noted while the policy is on.
NoteForeground == noted' = IF cacheFirst THEN 0 ELSE noted

\* A foreground request starts, finishes, is redirected or fails.
ForegroundActivity ==
    /\ NoteForeground
    /\ quiet' = 0
    /\ UNCHANGED <<policyVars, queueVars, stage, current, sampled, waited>>

\* Time outdates an entry, or the sweeper removes it.
Outdate(k) ==
    /\ \/ entry[k] = "fresh" /\ entry' = [entry EXCEPT ![k] = "stale"]
       \/ entry[k] # "absent" /\ entry' = [entry EXCEPT ![k] = "absent"]
    /\ UNCHANGED <<cacheFirst, queueVars, stage, current, clockVars>>

Older(age, cap) == IF age < cap THEN age + 1 ELSE cap

TimePasses ==
    /\ noted' = Older(noted, QuietPeriod)
    /\ sampled' = Older(sampled, QuietPeriod)
    /\ quiet' = Older(quiet, QuietPeriod)
    /\ waited' = Older(waited, QuietDeadline)
    /\ UNCHANGED <<policyVars, queueVars, stage, current>>

-----------------------------------------------------------------------------
(* shellDrain, on the serial queue gShellRunner.                           *)

\* The serial queue starts the next block once the previous one returned.
StartBlock ==
    /\ stage = "idle"
    /\ dispatched > 0
    /\ dispatched' = dispatched - 1
    /\ stage' = "loop"
    /\ UNCHANGED <<policyVars, pending, inFlight, draining, current, clockVars>>

\* Take the oldest request and enter shellWaitForQuiet.
TakeNext ==
    /\ stage = "loop"
    /\ pending # <<>>
    /\ current' = Head(pending)
    /\ pending' = Tail(pending)
    /\ waited' = 0
    /\ stage' = "sample"
    /\ UNCHANGED <<policyVars, inFlight, draining, dispatched, noted, sampled, quiet>>

\* Mutant: gShellDraining is left set.
StopDrainingSilently ==
    /\ stage = "loop"
    /\ pending = <<>>
    /\ stage' = "exiting"
    /\ UNCHANGED <<policyVars, queueVars, current, clockVars>>

\* Nothing left: gShellDraining is cleared in the section that saw it.
StopDraining ==
    /\ stage = "loop"
    /\ pending = <<>>
    /\ draining' = FALSE
    /\ stage' = "exiting"
    /\ UNCHANGED <<policyVars, pending, inFlight, dispatched, current, clockVars>>

ReturnFromBlock ==
    /\ stage = "exiting"
    /\ stage' = "idle"
    /\ UNCHANGED <<policyVars, queueVars, current, clockVars>>

\* shellWaitForQuiet copies gShellForegroundAt under the mutex...
SampleForeground ==
    /\ stage = "sample"
    /\ sampled' = noted
    /\ stage' = "decide"
    /\ UNCHANGED <<policyVars, queueVars, current, noted, quiet, waited>>

\* Mutant: no deadline.
QuietEnoughAtLast == sampled >= QuietPeriod

QuietEnough == sampled >= QuietPeriod \/ waited >= QuietDeadline

\* ...and compares the copy with the time after unlocking.
DecideToRun ==
    /\ stage = "decide"
    /\ QuietEnough
    /\ stage' = "running"
    /\ UNCHANGED <<policyVars, queueVars, current, clockVars>>

SleepAndRetry ==
    /\ stage = "decide"
    /\ ~QuietEnough
    /\ stage' = "sample"
    /\ UNCHANGED <<policyVars, queueVars, current, clockVars>>

\* runShellRequest returns, having refreshed the entry or failed, and the
\* key leaves gShellInFlight.
FinishRun ==
    /\ stage = "running"
    /\ \/ entry' = [entry EXCEPT ![current] = "fresh"]
       \/ UNCHANGED entry
    /\ inFlight' = inFlight \ {current}
    /\ current' = NoKey
    /\ stage' = "loop"
    /\ UNCHANGED <<cacheFirst, pending, draining, dispatched, clockVars>>

Drain ==
    \/ StartBlock \/ TakeNext \/ StopDraining \/ ReturnFromBlock
    \/ SampleForeground \/ DecideToRun \/ SleepAndRetry \/ FinishRun

ShellNext ==
    \/ \E k \in Keys : ServeStale(k) \/ Precache(k) \/ Outdate(k)
    \/ \E on \in PolicySettings : SetShellCacheFirst(on)
    \/ ForegroundActivity
    \/ TimePasses
    \/ Drain

ShellSpec == ShellInit /\ [][ShellNext]_shellVars

\* dispatch runs a queued block, a drain block keeps running (a request has
\* timeouts of its own), and time passes.
ShellFairness == WF_shellVars(Drain) /\ WF_shellVars(TimePasses)

ShellFairSpec == ShellSpec /\ ShellFairness

-----------------------------------------------------------------------------
(* Properties.                                                             *)

Running == IF current = NoKey THEN {} ELSE {current}

\* gShellInFlight is exactly the queued keys and the one being revalidated,
\* each once: a key forgotten there could never be revalidated again, a
\* missing one would be fetched twice.
InFlightExact ==
    /\ inFlight = ToSet(pending) \cup Running
    /\ ToSet(pending) \cap Running = {}
    /\ \A i, j \in DOMAIN pending : pending[i] = pending[j] => i = j

\* gShellDraining is set exactly while one drain block is queued or will
\* look at the queue again, so that no block runs beside another ("one
\* serial background queue, one request at a time", docs/network.md:248).
OneDrain ==
    dispatched + (IF stage \in {"idle", "exiting"} THEN 0 ELSE 1)
        = (IF draining THEN 1 ELSE 0)

\* A queued revalidation always has a drain block to run it: the decision to
\* stop and a concurrent enqueue never lose the wakeup.
NoLostWakeup ==
    pending # <<>> => dispatched > 0 \/ stage \notin {"idle", "exiting"}

\* A drain block holds a request exactly between taking and finishing it.
HoldsRequest == (current # NoKey) <=> stage \in {"sample", "decide", "running"}

\* A revalidation that was queued is run, however busy the foreground is ("a
\* page that never goes quiet gets its queue drained anyway after a longer
\* deadline", docs/network.md:252).
EveryRevalidationRuns ==
    \A k \in Keys : k \in inFlight ~> (stage = "running" /\ current = k)

\* "The queue drains ... once the foreground has been quiet for two seconds"
\* (docs/network.md:247): a run starts after a quiet period or the deadline.
\* TLC refutes it: activity is not noted while the policy is off, and `sampled'
\* is a copy.
QuietBeforeRun ==
    [][stage # "running" /\ stage' = "running" =>
        quiet >= QuietPeriod \/ waited >= QuietDeadline]_shellVars
=============================================================================
