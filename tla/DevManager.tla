----------------------------- MODULE DevManager -----------------------------
(***************************************************************************)
(* The manager process of a development server: it watches the app's       *)
(* files, builds the config, installs plugin packages, and starts, stops   *)
(* and restarts the Vite child that serves the app.  Everything the child  *)
(* lives through - the first start, a restart, an install, the stop of an  *)
(* unused child and its wake - runs as a task of one queue (syncServer);   *)
(* builds run one at a time in a queue of their own (lowdefyBuild).        *)
(*                                                                         *)
(* Versions of what the developer edits are counters; what was read of     *)
(* them is a copied value.                                                 *)
(***************************************************************************)
EXTENDS Naturals, Sequences, FiniteSets, BatchChanges

CONSTANTS
    Children,     \* child processes; the id of one that is gone is used again
    Requests,     \* requests that are use of the server (isActivity)
    Packages,     \* plugin packages the app may come to need
    None,
    MaxEdits,     \* bound: edits of the developer
    MaxFaults     \* bound: builds and installs that fail, children that crash

ASSUME ManagerAssumption ==
    /\ Watchers = {"config", "env", "package"}
    /\ Changes = {"skeleton", "page", "env", "package"}
    /\ None \notin Children
    /\ MaxEdits \in Nat /\ MaxFaults \in Nat
    /\ Cardinality(Children) > MaxFaults

VARIABLES
    source,     \* what is in the config directory: [art, env : version, pkgs]
    disk,       \* the published build and the server's package.json: [art, pkgs]
    env,        \* the .env version the manager has read (readDotEnv)
    lastBuildFailed,
    tracker,    \* the server artifacts last recorded: [art, pkgs]
    installing, \* the packages the running install read from package.json
    installed,  \* the packages of the last install that succeeded
    call,       \* where each watcher's callback is, and the plugin check after the start
    builds,     \* who waits for or runs a build; the head's is running
    built,      \* what the running build has read of source
    queue,      \* the tasks of syncServer's queue; the head is running
    step,       \* where the running task is
    child,      \* the child processes
    devServer, stopping, awaited,   \* context.devServer, stoppedDevServer; the restart's stoppedChild
    stopped, waking,                \* of createIdleChild
    using, tab,                     \* requests in flight that are use; a tab's reload stream
    edits, faults

mvars == <<source, disk, env, lastBuildFailed, tracker, installing, installed, call, builds, built,
           queue, step, child, devServer, stopping, awaited, stopped, waking, using, tab,
           edits, faults>>
vars == <<batch, mvars>>

Callers == Watchers \cup {"plugins"}
Builders == Callers \cup {"sync"}
Tasks == [kind : {"first", "stop", "wake"}] \cup
         [kind : {"sync"}, restart : BOOLEAN, by : Callers]
Steps == {"begin", "optimise", "install", "build", "exit", "answer"}
Versions == 0..MaxEdits
Sources == [art : Versions, env : Versions, pkgs : SUBSET Packages]
Artifacts == [art : Versions, pkgs : SUBSET Packages]
ChildProcesses == [state : {"gone", "booting", "up"}, signalled : BOOLEAN, killed : BOOLEAN,
                   art : Versions, env : Versions]
NoSource == [art |-> 0, env |-> 0, pkgs |-> {}]
NoChild == [state |-> "gone", signalled |-> FALSE, killed |-> FALSE, art |-> 0, env |-> 0]

Alive(c) == child[c].state # "gone"
Running == queue # <<>>
Task == Head(queue)
AtStep(kind, s) == Running /\ Task.kind = kind /\ step = s
SyncTask(restart, by) == [kind |-> "sync", restart |-> restart, by |-> by]
Fails == faults < MaxFaults /\ faults' = faults + 1

\* buildActivity.isBusy: a watcher's batch, a tracked restart, or the plugin check.
RestartRuns == Running /\ Task.kind # "first" /\ step \in {"exit", "answer"}
Busy == \/ \E w \in Watchers : batch[w].busy
        \/ call["plugins"] \in {"build", "sync"}
        \/ RestartRuns

Init ==
    /\ BatchInit
    /\ source = NoSource
    /\ disk = [art |-> 0, pkgs |-> {}]
    /\ env = 0
    /\ lastBuildFailed = FALSE
    /\ tracker = [art |-> 0, pkgs |-> {}]
    /\ installing = {} /\ installed = {}
    /\ call = [c \in Callers |-> "none"]
    /\ builds = <<>>
    /\ built = NoSource
    /\ queue = <<[kind |-> "first"]>>
    /\ step = "optimise"
    /\ child = [c \in Children |-> NoChild]
    /\ devServer = None /\ stopping = None /\ awaited = None
    /\ stopped = FALSE /\ waking = FALSE
    /\ using = {} /\ tab = FALSE
    /\ edits = 0 /\ faults = 0

-----------------------------------------------------------------------------
(* The developer, and the pages of the app. *)

serverVars == <<tracker, installing, installed, queue, step, child, devServer, stopping, awaited, stopped,
                waking>>
buildVars == <<disk, lastBuildFailed, builds, built>>
useVars == <<using, tab>>

Edit(w, c, new) ==
    /\ edits < MaxEdits
    /\ edits' = edits + 1
    /\ source' = new
    /\ NewChange(w, c)
    /\ UNCHANGED <<env, call, buildVars, serverVars, useVars, faults>>

EditConfig == Edit("config", "skeleton", [source EXCEPT !.art = @ + 1])

AddPlugin(p) ==
    /\ p \notin source.pkgs
    /\ Edit("config", "skeleton", [source EXCEPT !.art = @ + 1, !.pkgs = @ \cup {p}])

EditPage == Edit("config", "page", source)
EditEnv == Edit("env", "env", [source EXCEPT !.env = @ + 1])

\* A page build in the child finds a plugin package missing and adds it to the
\* server's package.json.
PageNeedsPackage(p) ==
    /\ \E c \in Children : child[c].state = "up"
    /\ p \notin disk.pkgs
    /\ edits < MaxEdits
    /\ edits' = edits + 1
    /\ disk' = [disk EXCEPT !.pkgs = @ \cup {p}]
    /\ NewChange("package", "package")
    /\ UNCHANGED <<source, env, call, lastBuildFailed, builds, built, serverVars, useVars, faults>>

-----------------------------------------------------------------------------
(* The watchers' callbacks.  Each begins when its batch calls it; "done" is *)
(* a callback that has returned.                                            *)

Begins(w) == batch[w].running /\ call[w] = "none"
QueueSync(restart, by) == queue' = Append(queue, SyncTask(restart, by))

\* lowdefyBuild: the build waits for those before it.  What it reads of the
\* config is taken as it begins, the oldest it can see.
QueueBuild(b) == /\ builds' = Append(builds, b)
                 /\ built' = IF builds = <<>> THEN source ELSE built

ConfigBegins ==
    /\ Begins("config")
    /\ IF lastBuildFailed \/ "skeleton" \in batch["config"].taken
       THEN QueueBuild("config") /\ call' = [call EXCEPT !["config"] = "build"]
       ELSE call' = [call EXCEPT !["config"] = "done"] /\ UNCHANGED <<builds, built>>
    /\ UNCHANGED <<batch, source, env, disk, lastBuildFailed, serverVars, useVars, edits, faults>>

EnvBegins ==
    /\ Begins("env")
    /\ env' = source.env
    /\ QueueBuild("env")
    /\ call' = [call EXCEPT !["env"] = "build"]
    /\ UNCHANGED <<batch, source, disk, lastBuildFailed, serverVars, useVars, edits, faults>>

PackageBegins ==
    /\ Begins("package")
    /\ QueueSync(FALSE, "package")
    /\ call' = [call EXCEPT !["package"] = "sync"]
    /\ UNCHANGED <<batch, source, env, buildVars, tracker, installing, installed, step, child,
                   devServer, stopping, awaited, stopped, waking, useVars, edits, faults>>

CallbackEnds(w) ==
    /\ call[w] = "done"
    /\ CallEnds(w)
    /\ call' = [call EXCEPT ![w] = "none"]
    /\ UNCHANGED <<source, env, buildVars, serverVars, useVars, edits, faults>>

BatchIsCalled(w) ==
    /\ TimerFires(w)
    /\ UNCHANGED <<mvars>>

\* checkPendingPlugins, once, when the first child has been started.
PluginsCheck ==
    /\ call["plugins"] = "none"
    /\ \A i \in 1..Len(queue) : queue[i].kind # "first"
    /\ QueueBuild("plugins")
    /\ call' = [call EXCEPT !["plugins"] = "build"]
    /\ UNCHANGED <<batch, source, env, disk, lastBuildFailed, serverVars, useVars, edits, faults>>

-----------------------------------------------------------------------------
(* Builds.                                                                  *)

Builder == Head(builds)
NextBuild == /\ builds' = Tail(builds)
             /\ built' = IF Len(builds) > 1 THEN source ELSE NoSource

\* A build publishes what it read; a package it newly needs is added to
\* package.json, which the package watcher sees.
BuildSucceeds ==
    /\ builds # <<>>
    /\ NextBuild
    /\ disk' = [art |-> built.art, pkgs |-> disk.pkgs \cup built.pkgs]
    /\ lastBuildFailed' = FALSE
    /\ IF built.pkgs \subseteq disk.pkgs THEN UNCHANGED batch
                                         ELSE NewChange("package", "package")
    /\ IF Builder = "sync"
       THEN AtStep("sync", "build") /\ step' = "optimise" /\ UNCHANGED <<call, queue>>
       ELSE /\ QueueSync(Builder = "env", Builder)
            /\ call' = [call EXCEPT ![Builder] = "sync"]
            /\ UNCHANGED step
    /\ UNCHANGED <<source, env, tracker, installing, installed, child, devServer, stopping,
                   awaited, stopped, waking, useVars, edits, faults>>

-----------------------------------------------------------------------------
(* The queue of syncServer.                                                 *)

EndTask ==
    /\ queue' = Tail(queue)
    /\ step' = "begin"
    /\ call' = IF Task.kind = "sync" THEN [call EXCEPT ![Task.by] = "done"] ELSE call
    /\ waking' = (waking /\ Task.kind # "wake")

\* mutant: the child is let go of without its signal
ShutdownServerSilent ==
    /\ stopping' = IF devServer = None THEN stopping ELSE devServer
    /\ devServer' = None
    /\ UNCHANGED child

\* shutdownServer: the child is signalled and kept, so that a restart can wait
\* for it.
ShutdownServer ==
    /\ child' = IF devServer = None THEN child ELSE [child EXCEPT ![devServer].signalled = TRUE]
    /\ stopping' = IF devServer = None THEN stopping ELSE devServer
    /\ devServer' = None

\* restartServer, up to its wait for the old child's exit.
RestartBegins ==
    /\ ShutdownServer
    /\ awaited' = stopping'
    /\ step' = "exit"
    /\ UNCHANGED <<tracker, queue, call, waking>>

\* mutant: the install path restarts the child although it was stopped as unused
RestartAlways == RestartBegins

\* deferWhileStopped, or the restart.
RestartOrDefer ==
    IF stopped THEN tracker' = disk /\ EndTask /\ UNCHANGED <<child, devServer, stopping, awaited>>
               ELSE RestartBegins

taskUnchanged == <<source, env, disk, using, tab, edits, installed, stopped>>

SyncBegins ==
    /\ AtStep("sync", "begin")
    /\ IF tracker.pkgs # disk.pkgs
       THEN /\ ShutdownServer
            /\ step' = "install"
            /\ installing' = disk.pkgs
            /\ UNCHANGED <<tracker, queue, call, awaited, waking>>
       ELSE /\ UNCHANGED installing
            /\ IF Task.restart \/ tracker.art # disk.art
               THEN RestartOrDefer
               ELSE EndTask /\ UNCHANGED <<tracker, child, devServer, stopping, awaited>>
    /\ UNCHANGED <<batch, lastBuildFailed, builds, built, faults, taskUnchanged>>

\* installPlugins has installed what it read, and the config is built again.
InstallSucceeds ==
    /\ AtStep("sync", "install")
    /\ installed' = installing
    /\ installing' = {}
    /\ QueueBuild("sync")
    /\ step' = "build"
    /\ UNCHANGED <<batch, source, env, disk, lastBuildFailed, tracker, queue, call, child, devServer,
                   stopping, awaited, stopped, waking, useVars, edits, faults>>

\* mutant: a failed install ends the sync without its finally
InstallFailsBare ==
    /\ AtStep("sync", "install")
    /\ Fails
    /\ installing' = {}
    /\ EndTask
    /\ UNCHANGED <<batch, lastBuildFailed, builds, built, taskUnchanged, tracker, child, devServer,
                   stopping, awaited>>

\* The finally of the install path, after a failed install too.
InstallFails ==
    /\ AtStep("sync", "install")
    /\ Fails
    /\ installing' = {}
    /\ RestartOrDefer
    /\ UNCHANGED <<batch, lastBuildFailed, builds, built, taskUnchanged>>

\* A failed build publishes nothing.  The config watcher's callback and the
\* plugin check end; the env watcher syncs all the same; in the install path the
\* finally runs.
BuildFails ==
    /\ builds # <<>>
    /\ Fails
    /\ NextBuild
    /\ lastBuildFailed' = TRUE
    /\ \/ /\ Builder = "sync" /\ AtStep("sync", "build")
          /\ RestartOrDefer
       \/ /\ Builder = "env"
          /\ QueueSync(TRUE, "env")
          /\ call' = [call EXCEPT !["env"] = "sync"]
          /\ UNCHANGED <<tracker, step, child, devServer, stopping, awaited, waking>>
       \/ /\ Builder \in {"config", "plugins"}
          /\ call' = [call EXCEPT ![Builder] = "done"]
          /\ UNCHANGED <<tracker, queue, step, child, devServer, stopping, awaited, waking>>
    /\ UNCHANGED <<batch, installing, taskUnchanged>>

\* optimizeDependencies never fails the sync.
SyncOptimised ==
    /\ AtStep("sync", "optimise")
    /\ RestartOrDefer
    /\ UNCHANGED <<batch, lastBuildFailed, builds, built, installing, faults, taskUnchanged>>

\* startServer spawns a child, which reads the build and the environment.
Spawn ==
    /\ \E c \in Children :
          /\ ~Alive(c) /\ c = CHOOSE d \in Children : ~Alive(d)
          /\ devServer' = c
          /\ child' = [child EXCEPT ![c] = [state |-> "booting", signalled |-> FALSE,
                                           killed |-> FALSE, art |-> disk.art, env |-> env]]
    /\ step' = "answer"
    /\ awaited' = None

FirstStart ==
    /\ AtStep("first", "optimise")
    /\ Spawn
    /\ UNCHANGED <<batch, lastBuildFailed, tracker, installing, builds, built, queue, call, stopping,
                   waking, faults, taskUnchanged>>

\* waitForChildExit: a child that has not exited in time is killed.
KillOld ==
    /\ Running /\ step = "exit"
    /\ awaited # None /\ Alive(awaited)
    /\ child' = [child EXCEPT ![awaited].killed = TRUE]
    /\ UNCHANGED <<batch, lastBuildFailed, tracker, installing, builds, built, queue, step, call,
                   devServer, stopping, awaited, waking, faults, taskUnchanged>>

\* mutant: the restart does not wait for the old child
OldIsIgnored == UNCHANGED faults

\* The rest of restartServer: the old child has exited, or has outlived SIGKILL.
OldIsGone ==
    \/ /\ awaited # None => ~Alive(awaited)
       /\ UNCHANGED faults
    \/ /\ awaited # None
       /\ Alive(awaited) /\ child[awaited].killed
       /\ Fails

RestartSpawns ==
    /\ Running /\ step = "exit"
    /\ OldIsGone
    /\ stopping' = IF stopping = awaited THEN None ELSE stopping
    /\ tracker' = disk
    /\ Spawn
    /\ UNCHANGED <<batch, lastBuildFailed, installing, builds, built, queue, call, waking,
                   taskUnchanged>>

\* waitForDevServer ends when the child answers, exits, or takes too long.
AnswerWaitEnds ==
    /\ Running /\ step = "answer"
    /\ EndTask
    /\ UNCHANGED <<batch, lastBuildFailed, tracker, installing, builds, built, child, devServer,
                   stopping, awaited, faults, taskUnchanged>>

-----------------------------------------------------------------------------
(* The stop of a child nobody uses, and its wake (createIdleChild).         *)

Unused == ~Busy /\ using = {} /\ ~tab

idleUnchanged == <<batch, source, env, buildVars, tracker, installing, installed, edits, faults>>

\* The timer's check.  Bound: one stop is queued at a time.
IdleCheck ==
    /\ \A i \in 1..Len(queue) : queue[i].kind \notin {"first", "stop"}
    /\ ~stopped /\ ~waking /\ Unused
    /\ queue' = Append(queue, [kind |-> "stop"])
    /\ UNCHANGED <<idleUnchanged, call, step, child, devServer, stopping, awaited, stopped, waking,
                   useVars>>

MayStop == ~stopped /\ ~waking /\ devServer # None /\ Unused

StopRuns ==
    /\ AtStep("stop", "begin")
    /\ IF MayStop THEN stopped' = TRUE /\ ShutdownServer
                  ELSE UNCHANGED <<stopped, child, devServer, stopping>>
    /\ EndTask
    /\ UNCHANGED <<idleUnchanged, awaited, useVars>>

\* A request that is use arrives: it counts as in flight, and wakes the child.
UseBegins(r) ==
    /\ r \notin using
    /\ using' = using \cup {r}
    /\ IF stopped THEN /\ stopped' = FALSE /\ waking' = TRUE
                       /\ queue' = Append(queue, [kind |-> "wake"])
                  ELSE UNCHANGED <<stopped, waking, queue>>
    /\ UNCHANGED <<idleUnchanged, call, step, child, devServer, stopping, awaited, tab>>

\* Its response finishes, or its client goes away.
UseEnds(r) ==
    /\ r \in using
    /\ using' = using \ {r}
    /\ UNCHANGED <<idleUnchanged, serverVars, call, tab>>

WakeRuns ==
    /\ AtStep("wake", "begin")
    /\ IF devServer # None THEN EndTask /\ UNCHANGED <<tracker, child, devServer, stopping, awaited>>
                           ELSE RestartBegins
    /\ UNCHANGED <<batch, lastBuildFailed, installing, builds, built, faults, taskUnchanged>>

TabOpens ==
    /\ ~tab /\ \E c \in Children : child[c].state = "up"
    /\ tab' = TRUE
    /\ UNCHANGED <<idleUnchanged, serverVars, call, using>>

TabCloses ==
    /\ tab
    /\ tab' = FALSE
    /\ UNCHANGED <<idleUnchanged, serverVars, call, using>>

-----------------------------------------------------------------------------
(* The child processes.                                                     *)

childUnchanged == <<batch, source, env, buildVars, tracker, installing, installed, queue, step, call,
                    devServer, stopping, awaited, stopped, waking, using, edits>>

PortHeld == \E c \in Children : child[c].state = "up"

ChildAnswers(c) ==
    /\ child[c].state = "booting" /\ ~PortHeld
    /\ child' = [child EXCEPT ![c].state = "up"]
    /\ UNCHANGED <<childUnchanged, tab, faults>>

\* A signalled child exits, one that finds its port taken exits (--strictPort),
\* and any other may crash.
ChildExits(c) ==
    /\ Alive(c)
    /\ IF child[c].signalled \/ (child[c].state = "booting" /\ PortHeld)
       THEN UNCHANGED faults ELSE Fails
    /\ child' = [child EXCEPT ![c] = NoChild]
    /\ tab' = (tab /\ child[c].state # "up")
    /\ UNCHANGED childUnchanged

-----------------------------------------------------------------------------
QueueRuns ==
    \/ SyncBegins \/ InstallSucceeds \/ SyncOptimised
    \/ FirstStart \/ RestartSpawns \/ AnswerWaitEnds
    \/ StopRuns \/ WakeRuns

Next ==
    \/ \E w \in Watchers : BatchIsCalled(w) \/ CallbackEnds(w)
    \/ ConfigBegins \/ EnvBegins \/ PackageBegins
    \/ BuildSucceeds \/ QueueRuns
    \/ EditConfig \/ EditPage \/ EditEnv
    \/ \E p \in Packages : AddPlugin(p) \/ PageNeedsPackage(p)
    \/ PluginsCheck
    \/ BuildFails \/ InstallFails
    \/ KillOld
    \/ IdleCheck
    \/ \E r \in Requests : UseBegins(r) \/ UseEnds(r)
    \/ TabOpens \/ TabCloses
    \/ \E c \in Children : ChildAnswers(c) \/ ChildExits(c)

\* The manager's event loop runs what is ready, timers fire, builds, installs
\* and the optimiser end, a signalled child exits, and the current one boots.
Fairness ==
    /\ \A w \in Watchers : WF_vars(BatchIsCalled(w)) /\ WF_vars(CallbackEnds(w))
    /\ WF_vars(ConfigBegins) /\ WF_vars(EnvBegins) /\ WF_vars(PackageBegins)
    /\ WF_vars(BuildSucceeds)
    /\ WF_vars(QueueRuns)
    /\ \A c \in Children : WF_vars(child[c].signalled /\ ChildExits(c))
    /\ \A c \in Children : WF_vars(devServer = c /\ ChildAnswers(c))

Spec == Init /\ [][Next]_vars
FairSpec == Spec /\ Fairness

-----------------------------------------------------------------------------
ManagerTypeOK ==
    /\ BatchTypeOK
    /\ source \in Sources /\ built \in Sources
    /\ disk \in Artifacts /\ tracker \in Artifacts
    /\ env \in Versions /\ lastBuildFailed \in BOOLEAN
    /\ installing \in SUBSET Packages /\ installed \in SUBSET Packages
    /\ call \in [Callers -> {"none", "build", "sync", "done"}]
    /\ builds \in Seq(Builders)
    /\ queue \in Seq(Tasks) /\ step \in Steps
    /\ child \in [Children -> ChildProcesses]
    /\ {devServer, stopping, awaited} \subseteq Children \cup {None}
    /\ stopped \in BOOLEAN /\ waking \in BOOLEAN
    /\ using \subseteq Requests /\ tab \in BOOLEAN

\* Every child that runs is the manager's current one, or has been told to exit:
\* no restart, install, stop or wake loses one.
NoOrphanChild == \A c \in Children : Alive(c) /\ ~child[c].signalled => c = devServer

\* A new child starts only when the old one has let go of the port: no other
\* child runs then, except one that was sent SIGKILL and is still there.
StartsAlone ==
    [][\A c \in Children :
          ~Alive(c) /\ child'[c].state = "booting"
             => \A d \in Children \ {c} : Alive(d) => child[d].killed]_vars

\* A manager that is not busy has handled every edit it was told of: the build
\* is of the last config, unless the last build failed, and the child that runs
\* started after what it reads was published.  A build-status wait returns then,
\* so an agent reads the build, and talks to the server, of its last edit.
IdleServesTheLastEdit ==
    ~Busy => /\ lastBuildFailed \/ disk.art = source.art
             /\ env = source.env
             /\ devServer # None /\ Alive(devServer)
                   => child[devServer].art = disk.art /\ child[devServer].env = env

\* A child stopped as unused stays down, whatever is built or installed
\* meanwhile, and no request that is use waits on a manager that considers its
\* child stopped.
StoppedIsUnused == stopped => devServer = None /\ using = {}

\* Whatever the installs and builds do, a batch of changes is handled in the end.
BatchesSettle == \A w \in Watchers : batch[w].busy ~> ~batch[w].busy

\* The manager holds a child that has gone by itself: it only logs that exit, and starts
\* another when the next change asks for a restart.
Crashed == devServer # None /\ ~Alive(devServer)
Answers == devServer # None /\ child[devServer].state = "up"

\* A request that is use comes to a child that answers, whatever stops, wakes, installs
\* and restarts were under way and whichever builds and installs fail, unless the
\* child the manager holds has crashed (the finally of syncServer, onActivity).
UseGetsAServer == using # {} ~> using = {} \/ Answers \/ Crashed
=============================================================================
