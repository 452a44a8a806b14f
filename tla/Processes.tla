------------------------------ MODULE Processes -------------------------------
(***************************************************************************)
(* The processes of the phone, as far as the port acts on them.            *)
(*                                                                         *)
(* The loader (platform/safari/rev-safari-tweak.c) runs in every app when  *)
(* it is launched: it reads whether the engine is on for the app, sets the *)
(* environment that brings the engine in and executes the app again, in    *)
(* the same process.  There the constructor of the compatibility library   *)
(* (platform/safari/safari-compat.mm) reads the preference once more.      *)
(*                                                                         *)
(* The watcher (tools/raise-memory-limit.c) is a daemon: once a second it  *)
(* reads the pid of the browser from a file and raises its memory limit.   *)
(* A pid belongs to one process after another; it is not given out again   *)
(* before the watcher has looked once (it looks each second, and all other *)
(* pids come first).                                                       *)
(*                                                                         *)
(* The specification's names are its own, so that it can be extended       *)
(* together with others.                                                   *)
(***************************************************************************)
EXTENDS Naturals

CONSTANTS
    Apps,
    Safari,       \* com.apple.mobilesafari
    SpringBoard,
    Pids,
    Nobody,
    Numbers,      \* entries of the preference that are not booleans
    MaxChanges,   \* changes of the preference, at most
    MaxRestarts   \* restarts of the watcher, at most

ASSUME ProcessesAssumption ==
    /\ {Safari, SpringBoard} \subseteq Apps /\ Safari # SpringBoard
    /\ Nobody \notin Pids \cup Apps
    /\ Numbers \subseteq {"one", "zero"}
    /\ MaxChanges \in Nat /\ MaxRestarts \in Nat

VARIABLES
    injected,  \* the InjectedApps preference: the entry of each app
    process,   \* of each pid, its process or Nobody
    changes,
    pidFile,   \* /tmp/browser.pid
    watcher,   \* where the watcher is, the pid it read and lastPid
    unseen,    \* pids whose process died since the watcher last looked
    restarts

phoneVars == <<injected, process, changes, pidFile, watcher, unseen, restarts>>

Process ==
    [app : Apps,
     at : {"loader", "exec", "compat", "run"},
     active : BOOLEAN,   \* REV_SAFARI_ACTIVE and the DYLD_ variables are set
     engine : BOOLEAN,   \* the engine is in this process
     hooks : BOOLEAN,    \* so are the start page and WebAssembly
     changed : BOOLEAN,  \* the preference was changed since the launch
     raised : BOOLEAN]   \* its memory limit is raised

\* An entry is a boolean, as the switch of the settings writes it, or a number, as a
\* property list may hold as well, or it is not there.
Entries == {"on", "off", "absent"} \cup Numbers

\* A pid without a process is told from one with.
ASSUME NobodyAssumption == Nobody \notin Process

PhoneTypeOK ==
    /\ injected \in [Apps -> Entries]
    /\ process \in [Pids -> Process \cup {Nobody}]
    /\ changes \in 0..MaxChanges
    /\ pidFile \in Pids \cup {Nobody}
    /\ watcher \in [at : {"read", "check", "raise", "reap"},
                    pid : Pids \cup {Nobody}, lastPid : Pids \cup {Nobody}]
    /\ unseen \subseteq Pids
    /\ restarts \in 0..MaxRestarts

Watching == [at |-> "read", pid |-> Nobody, lastPid |-> Nobody]

PhoneInit ==
    /\ injected = [a \in Apps |-> "absent"]
    /\ process = [p \in Pids |-> Nobody]
    /\ changes = 0
    /\ pidFile = Nobody
    /\ watcher = Watching
    /\ unseen = {}
    /\ restarts = 0

Alive(p) == process[p] # Nobody

-----------------------------------------------------------------------------
(* The apps, and the settings *)

Launch(p, a) ==
    /\ ~Alive(p) /\ p \notin unseen
    /\ process' = [process EXCEPT ![p] =
           [app |-> a, at |-> "loader", active |-> FALSE, engine |-> FALSE,
            hooks |-> FALSE, changed |-> FALSE, raised |-> FALSE]]
    /\ UNCHANGED <<injected, changes, pidFile, watcher, unseen, restarts>>

\* The app ends, crashes, or is killed for its memory.
Die(p) ==
    /\ Alive(p)
    /\ process' = [process EXCEPT ![p] = Nobody]
    /\ unseen' = unseen \cup {p}
    /\ UNCHANGED <<injected, changes, pidFile, watcher, restarts>>

PutEntry(a, value) ==
    /\ changes < MaxChanges /\ injected[a] # value
    /\ injected' = [injected EXCEPT ![a] = value]
    /\ process' = [p \in Pids |->
           IF Alive(p) /\ process[p].app = a THEN [process[p] EXCEPT !.changed = TRUE]
                                             ELSE process[p]]
    /\ changes' = changes + 1
    /\ UNCHANGED <<pidFile, watcher, unseen, restarts>>

\* A switch of the settings, which SpringBoard is not among: setInjection writes the
\* whole dictionary back.
SetInjection(a) == a # SpringBoard /\ \E value \in {"on", "off"} : PutEntry(a, value)

\* Another program writes the preference, as `defaults` does.
WriteEntry(a) == \E value \in Numbers : PutEntry(a, value)

\* Mutant: an app that is not in the dictionary is enabled, whichever it is.
EnabledByDefault(a) == injected[a] # "off"

\* rev_enabled_for_current_app: only a boolean counts as an entry.
LoaderEnabled(a) ==
    \/ injected[a] = "on"
    \/ a = Safari /\ injected[a] \notin {"on", "off"}

\* revInjectionEnabledForThisApp: whatever the entry is, it is asked for its boolValue.
CompatEnabled(a) ==
    \/ injected[a] \in {"on", "one"}
    \/ a = Safari /\ injected[a] = "absent"

-----------------------------------------------------------------------------
(* rev_safari_init, and after it the constructor of the other library *)

IsAt(p, place) == Alive(p) /\ process[p].at = place

Becomes(p, new) ==
    /\ process' = [process EXCEPT ![p] = new]
    /\ UNCHANGED <<injected, changes, pidFile, watcher, unseen, restarts>>

Skip(p) ==
    /\ IsAt(p, "loader")
    /\ \/ process[p].app = SpringBoard
       \/ ~process[p].active /\ ~LoaderEnabled(process[p].app)
    /\ Becomes(p, [process[p] EXCEPT !.at = "run"])

SecondPass(p) ==
    /\ IsAt(p, "loader") /\ process[p].app # SpringBoard /\ process[p].active
    /\ Becomes(p, [process[p] EXCEPT !.at = IF process[p].engine THEN "compat" ELSE "run"])

\* Mutant: the pass that executes the app again leaves no mark in the environment.
SetNoMark(p) ==
    /\ IsAt(p, "loader") /\ process[p].app # SpringBoard /\ ~process[p].active
    /\ LoaderEnabled(process[p].app)
    /\ Becomes(p, [process[p] EXCEPT !.at = "exec"])

SetEnvironment(p) ==
    /\ IsAt(p, "loader") /\ process[p].app # SpringBoard /\ ~process[p].active
    /\ LoaderEnabled(process[p].app)
    /\ Becomes(p, [process[p] EXCEPT !.active = TRUE, !.at = "exec"])

\* _NSGetExecutablePath and execv may fail: the app goes on as it is.
Execute(p) ==
    /\ IsAt(p, "exec")
    /\ \/ Becomes(p, [process[p] EXCEPT !.at = "loader", !.engine = TRUE])
       \/ Becomes(p, [process[p] EXCEPT !.at = "run"])

StartPageInit(p) ==
    /\ IsAt(p, "compat")
    /\ Becomes(p, [process[p] EXCEPT !.at = "run",
                                     !.hooks = CompatEnabled(process[p].app)])

Start(p) ==
    \/ Skip(p) \/ SecondPass(p) \/ SetEnvironment(p)
    \/ Execute(p) \/ StartPageInit(p)

-----------------------------------------------------------------------------
(* watch *)

\* Whoever starts a browser leaves its pid; an old one may stay there.
WritePid(p) ==
    /\ Alive(p) /\ pidFile # p
    /\ pidFile' = p
    /\ UNCHANGED <<injected, process, changes, watcher, unseen, restarts>>

Watch(at, new) ==
    /\ watcher.at = at
    /\ watcher' = new
    /\ UNCHANGED <<injected, changes, pidFile, restarts>>

ReadPid ==
    /\ IF pidFile \in {Nobody, watcher.lastPid}
         THEN Watch("read", [watcher EXCEPT !.at = "reap"])
         ELSE Watch("read", [watcher EXCEPT !.at = "check", !.pid = pidFile])
    /\ UNCHANGED <<process, unseen>>

\* The end of the round's work on the pid it read.
Looked(lastPid) == [at |-> "reap", pid |-> Nobody, lastPid |-> lastPid]

CheckPid ==
    /\ watcher.at = "check"
    /\ IF Alive(watcher.pid) THEN Watch("check", [watcher EXCEPT !.at = "raise"])
                             ELSE Watch("check", Looked(watcher.lastPid))
    /\ UNCHANGED <<process, unseen>>

RaiseFor ==
    /\ watcher.at = "raise" /\ Alive(watcher.pid)
    /\ Watch("raise", Looked(watcher.pid))
    /\ process' = [process EXCEPT ![watcher.pid].raised = TRUE]
    /\ UNCHANGED unseen

Refused ==
    /\ Watch("raise", Looked(watcher.lastPid))
    /\ UNCHANGED <<process, unseen>>

\* Mutant: the pid is remembered when its process is gone.
KeepLastPid ==
    /\ Watch("reap", [watcher EXCEPT !.at = "read"])
    /\ unseen' = {} /\ UNCHANGED process

\* And the watcher sleeps a second.
Reap ==
    /\ Watch("reap", [watcher EXCEPT !.at = "read",
           !.lastPid = IF @ # Nobody /\ ~Alive(@) THEN Nobody ELSE @])
    /\ unseen' = {} /\ UNCHANGED process

\* KeepAlive in space.kern0x1b.memorylimit.plist
RestartWatcher ==
    /\ restarts < MaxRestarts
    /\ restarts' = restarts + 1
    /\ watcher' = Watching
    /\ UNCHANGED <<injected, process, changes, pidFile, unseen>>

WatcherStep == ReadPid \/ CheckPid \/ RaiseFor \/ Refused \/ Reap

-----------------------------------------------------------------------------

PhoneNext ==
    \/ \E p \in Pids :
          \/ Start(p) \/ Die(p) \/ WritePid(p)
          \/ \E a \in Apps : Launch(p, a)
    \/ \E a \in Apps : SetInjection(a) \/ WriteEntry(a)
    \/ WatcherStep \/ RestartWatcher

\* A launched app runs, the watcher runs, and the kernel does not refuse a limit for
\* a live process for ever.
Fairness ==
    /\ \A p \in Pids : WF_phoneVars(Start(p))
    /\ WF_phoneVars(WatcherStep)
    /\ SF_phoneVars(RaiseFor)

PhoneSpec == PhoneInit /\ [][PhoneNext]_phoneVars /\ Fairness

-----------------------------------------------------------------------------
(* Properties *)

\* Unless the preference is changed while the app starts, the loader and the
\* compatibility library, which each read it in their own way, fit together: the start
\* page and WebAssembly are in no app without the engine, the engine is in no app that
\* the loader does not find enabled, and it is without the start page and WebAssembly
\* for one entry only, which the two understand differently: the number 0 for Safari.
ReadersAgree ==
    \A p \in Pids :
        IsAt(p, "run") /\ ~process[p].changed =>
            LET app == process[p].app IN
            /\ process[p].engine => app # SpringBoard /\ LoaderEnabled(app)
            /\ process[p].hooks => process[p].engine
            /\ process[p].engine /\ ~process[p].hooks =>
                   app = Safari /\ injected[app] = "zero"

\* An app that the loader executes again comes up: it is not executed for ever.
LaunchEnds == \A p \in Pids : Alive(p) ~> (~Alive(p) \/ IsAt(p, "run"))

\* The limit of the browser whose pid is in the file is raised, also when the pid is
\* one that an earlier browser had, when the kernel refused at first and when the
\* watcher was restarted.
LimitIsRaised ==
    \A p \in Pids :
        (pidFile = p /\ Alive(p)) ~>
            (~Alive(p) \/ pidFile # p \/ (Alive(p) /\ process[p].raised))
=============================================================================
