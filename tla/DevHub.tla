-------------------------------- MODULE DevHub --------------------------------
(***************************************************************************)
(* The hub that runs a user's development servers                          *)
(* (packages/cli/src/commands/hub/createHub.js), with its StartSlots.      *)
(*                                                                         *)
(* Starts and stops are queued (serialize) and run one at a time, each in  *)
(* several steps between its awaits; `tasks` is the queue, `step` is where *)
(* its first task is.  Beside them run the exit events of the servers, the *)
(* tick of the slots, the reaper, and the servers themselves.  The hub may *)
(* crash and be replaced by one that adopts the servers in the registry,   *)
(* which is saved in the step that changes it.                             *)
(*                                                                         *)
(* What follows an await without another is one step with it: no timer or  *)
(* event comes between (the slot is taken in the step that ends a stop).   *)
(*                                                                         *)
(* Not modelled: servers started from a terminal, ports, attachments.      *)
(***************************************************************************)
EXTENDS Naturals, Sequences, FiniteSets, SequencesExt

CONSTANTS
    App, Server, Slots, Free, Taken,
    None,        \* no server, no app
    Removable,   \* apps whose lowdefy.yaml may go missing for a while
    Hanging,     \* apps whose start may hold a slot for longer than holdMs
    MaxTasks     \* bound: queued tasks when another call or reap comes

ASSUME SlotsAssumption == Slots \in Nat \ {0}
ASSUME HolderAssumption == Free # Taken /\ Free \notin Server /\ Taken \notin Server
ASSUME NoneAssumption == None \notin Server \cup App
ASSUME AppsAssumption == Removable \subseteq App /\ Hanging \subseteq App

VARIABLES
    hub,         \* "up" or "down"
    instances,   \* registry.instances: app -> server
    server,      \* the servers
    holders, waiting,
    tasks,       \* serialize's queue
    step,        \* of the first task
    target,      \* the server the first task has launched or is stopping
    removing,    \* the reaper is stopping the server of a removed app
    yaml         \* apps that have a lowdefy.yaml

hubVars == <<hub, instances, tasks, step, target, removing>>
vars == <<hubVars, server, holders, waiting, yaml>>

Start == INSTANCE StartSlots

-----------------------------------------------------------------------------
(* A server: "launched" until its manager writes the record, "starting"      *)
(* until the record says ready, "exited" until the hub it is a child of has  *)
(* got the exit event.  `lost` marks a live server of which the hub kept no  *)
(* entry.                                                                    *)
ServerRecord == [app : App \cup {None}, child : BOOLEAN, lost : BOOLEAN,
                 state : {"none", "launched", "starting", "ready", "exited"}]
NoServer == [app |-> None, child |-> FALSE, lost |-> FALSE, state |-> "none"]

Live(p) == server[p].state \in {"launched", "starting", "ready"}
HasRecord(p) == server[p].state \in {"starting", "ready"}
RecordOf(a) == {p \in Server : HasRecord(p) /\ server[p].app = a}

isManaged(a) == instances[a] # None
isManagedAlive(a) == isManaged(a) /\ Live(instances[a])
PendingExit(a) == isManaged(a) /\ server[instances[a]].state = "exited"

\* mutant: a server that has not written its record does not count
RunsByRecord(a) == RecordOf(a) # {}

(* isServerRunning                                                           *)
isServerRunning(a) == RecordOf(a) # {} \/ isManagedAlive(a)

(* isStarting, for the registry `entries`                                    *)
StartingIn(entries) == {p \in Server : Live(p) /\ server[p].state # "ready"
                                        /\ entries[server[p].app] = p}
Starting == StartingIn(instances)

(* The sets of slots that may be overdue now.  A slot whose launch is still to *)
(* come is not: the queue of tasks is assumed to take less than holdMs.        *)
Overdue == SUBSET {a \in Hanging : holders[a] \in Server}

Task == [kind : {"adopt", "start", "stop", "reap", "queued"}, app : App \cup {None},
         restart : BOOLEAN, server : Server \cup {None}]
NewTask(kind, a) == [kind |-> kind, app |-> a, restart |-> FALSE, server |-> None]
StartTask(a, restart) == [NewTask("start", a) EXCEPT !.restart = restart]

first == Head(tasks)
At(s) == hub = "up" /\ tasks # <<>> /\ step = s
Runs(kind) == first.kind = kind

(* The queue of tasks moves on; the first task goes on to its next step.      *)
Finish == tasks' = Tail(tasks) /\ step' = "idle" /\ target' = None
Launches == step' = "launch" /\ target' = None /\ UNCHANGED tasks
Stops(p) == step' = "stopping" /\ target' = p /\ UNCHANGED tasks

Unreferenced(p) ==
    /\ server[p] = NoServer
    /\ \A a \in App : instances[a] # p /\ holders[a] # p
    /\ target # p /\ removing.server # p
    /\ \A i \in DOMAIN tasks : tasks[i].server # p

NotRemoving == [app |-> None, server |-> None]

Init ==
    /\ hub = "up"
    /\ instances = [a \in App |-> None]
    /\ server = [p \in Server |-> NoServer]
    /\ Start!SlotsInit
    /\ tasks = <<NewTask("adopt", None)>>
    /\ step = "idle"
    /\ target = None
    /\ removing = NotRemoving
    /\ yaml = App

-----------------------------------------------------------------------------
(* Calls.  A stop takes a queued app off the queue at once.                   *)
CanCall == hub = "up" /\ Len(tasks) < MaxTasks

StartCall(a, restart) ==
    /\ CanCall
    /\ tasks' = Append(tasks, StartTask(a, restart))
    /\ UNCHANGED <<hub, instances, step, target, removing, server, holders, waiting, yaml>>

StopCall(a) ==
    /\ CanCall
    /\ IF Start!Queued(a) THEN Start!dequeue(a) /\ UNCHANGED tasks
         ELSE tasks' = Append(tasks, NewTask("stop", a)) /\ UNCHANGED waiting
    /\ UNCHANGED <<hub, instances, step, target, removing, server, holders, yaml>>

-----------------------------------------------------------------------------
(* A new hub forgets the dead entries it was loaded with and holds slots for  *)
(* the servers that are still starting.                                       *)
Adopt ==
    /\ At("idle") /\ Runs("adopt")
    /\ instances' = [a \in App |-> IF isManagedAlive(a) THEN instances[a] ELSE None]
    /\ holders' = [a \in App |-> IF isManagedAlive(a) /\ instances[a] \in Starting
                                   THEN instances[a] ELSE holders[a]]
    /\ Finish
    /\ UNCHANGED <<hub, removing, server, waiting, yaml>>

NothingToLaunch(a, running, managed, restart) ==
    Start!Queued(a) \/ (running /\ (~managed \/ ~restart))

(* tryTake: a slot is taken, or the app waits for one.  `h` and `entries` are *)
(* the holders and the registry the task has come to.                         *)
TakeSlot(h, entries) ==
    \E late \in Overdue, limit \in Start!Limit :
        \/ Start!TakesSlot(h, first.app, late, StartingIn(entries), limit) /\ Launches
        \/ Start!Enqueues(h, first.app, late, StartingIn(entries), limit) /\ Finish

(* launchUnlessRunning, up to what it does on the description of the app      *)
Describe ==
    LET a == first.app
        recorded == RecordOf(a) # {}
        running == isServerRunning(a) \/ holders[a] = Taken
        managed == isManaged(a) \/ ~recorded
        nothing == NothingToLaunch(a, running, managed, first.restart)
    IN  /\ At("idle") /\ Runs("start")
        /\ recorded \/ ~PendingExit(a) \/ Start!Queued(a)
        /\ \/ nothing /\ Finish /\ UNCHANGED <<holders, waiting>>
           \/ ~nothing /\ running /\ Stops(instances[a]) /\ UNCHANGED <<holders, waiting>>
           \/ ~nothing /\ ~running /\ TakeSlot(holders, instances)
        /\ UNCHANGED <<hub, instances, removing, server, yaml>>

BeginStop ==
    /\ At("idle") /\ Runs("stop")
    /\ Stops(instances[first.app])
    /\ UNCHANGED <<hub, instances, removing, server, holders, waiting, yaml>>

\* mutant: the registry is not looked at again
judgedByRecord(a, p) == TRUE

(* isUsedSince, up to its await: the registry must have the entry it had when *)
(* the reaper judged the server.                                              *)
stillJudged(a, p) == instances[a] = p

(* The reaper's turn in the queue: the record is read again.                  *)
BeginReap ==
    /\ At("idle") /\ Runs("reap")
    /\ IF stillJudged(first.app, first.server)
         THEN step' = "reaping" /\ UNCHANGED <<tasks, target>>
         ELSE Finish
    /\ UNCHANGED <<hub, instances, removing, server, holders, waiting, yaml>>

(* The record shows a use since, or stopServer stops what the registry has by *)
(* now.                                                                       *)
Reap ==
    /\ At("reaping")
    /\ Finish \/ Stops(instances[first.app])
    /\ UNCHANGED <<hub, instances, removing, server, holders, waiting, yaml>>

(* stopServer, once the server is gone; a restart then goes on to its launch. *)
Stopped ==
    LET a == first.app
        entries == IF target = None THEN instances ELSE [instances EXCEPT ![a] = None]
        h == IF target = None THEN holders ELSE [holders EXCEPT ![a] = Free]
    IN  /\ At("stopping")
        /\ target # None => ~Live(target)
        /\ instances' = entries
        /\ IF Runs("start") THEN TakeSlot(h, entries)
                            ELSE holders' = h /\ UNCHANGED waiting /\ Finish
        /\ UNCHANGED <<hub, removing, server, yaml>>

-----------------------------------------------------------------------------
(* A task of launchQueued: skipped if the app has been started meanwhile.     *)
CheckQueued ==
    LET a == first.app
    IN  /\ At("idle") /\ Runs("queued")
        /\ IF isServerRunning(a) THEN Start!release(a) /\ Finish
                               ELSE Launches /\ UNCHANGED holders
        /\ UNCHANGED <<hub, instances, removing, server, waiting, yaml>>

\* mutant: the slot of a failed launch is kept
LaunchFailsKeepingSlot ==
    /\ At("launch")
    /\ Finish
    /\ UNCHANGED <<hub, instances, removing, server, holders, waiting, yaml>>

(* launch: no command, no ports                                               *)
LaunchFails ==
    /\ At("launch")
    /\ Start!release(first.app)
    /\ Finish
    /\ UNCHANGED <<hub, instances, removing, server, waiting, yaml>>

Spawn ==
    /\ At("launch")
    /\ first.app \in yaml
    /\ \E p \in Server : Unreferenced(p)
    /\ LET p == CHOOSE p \in Server : Unreferenced(p)
       IN  /\ server' = [server EXCEPT ![p] =
                [app |-> first.app, child |-> TRUE, lost |-> FALSE, state |-> "launched"]]
           /\ target' = p
    /\ step' = "spawned"
    /\ UNCHANGED <<hub, instances, tasks, removing, holders, waiting, yaml>>

(* Its start time is read: a server whose exit event came meanwhile is not    *)
(* recorded, and its slot is released by the next look at it.                 *)
Register ==
    LET a == first.app
        exited == server[target].state = "none"
    IN  /\ At("spawned")
        /\ instances' = IF exited THEN instances ELSE [instances EXCEPT ![a] = target]
        /\ Start!hold(a, IF exited THEN Free ELSE target)
        /\ Finish
        /\ UNCHANGED <<hub, removing, server, waiting, yaml>>

-----------------------------------------------------------------------------
(* The slots' timer, and what it launches (launchQueued)                      *)
TickWith(late, entries) ==
    \E k \in 0 .. Len(waiting), limit \in Start!Limit :
        /\ Start!tick(k, late, StartingIn(entries), limit)
        /\ tasks' = tasks \o [i \in 1 .. k |-> NewTask("queued", waiting[i])]

Tick(late) ==
    /\ hub = "up"
    /\ Start!Held(holders) # {} \/ waiting # <<>>
    /\ TickWith(late, instances)
    /\ UNCHANGED <<hub, instances, step, target, removing, server, yaml>>

\* mutant: any exit of the app's servers drops its entry
EntriesWithoutApp(p) ==
    [a \in App |-> IF server[p].app = a THEN None ELSE instances[a]]

EntriesWithout(p) == [a \in App |-> IF instances[a] = p THEN None ELSE instances[a]]

(* The exit event of a child                                                  *)
ExitEvent(p) ==
    /\ server[p].state = "exited"
    /\ server' = [server EXCEPT ![p] = NoServer]
    /\ instances' = EntriesWithout(p)
    /\ TickWith({}, instances')
    /\ UNCHANGED <<hub, step, target, removing, yaml>>

(* forgetDeadServers, of list and the reaper                                  *)
ForgetDead(a) ==
    /\ hub = "up"
    /\ isManaged(a) /\ ~isManagedAlive(a)
    /\ instances' = [instances EXCEPT ![a] = None]
    /\ UNCHANGED <<hub, tasks, step, target, removing, server, holders, waiting, yaml>>

-----------------------------------------------------------------------------
(* The reaper.  A pass stops idle servers through the queue, one at a time;   *)
(* it stops the server of a removed app by itself.                            *)
CanReap == /\ CanCall
           /\ removing = NotRemoving
           /\ \A i \in DOMAIN tasks : tasks[i].kind # "reap"

(* Ready or stalled, and unused for the idle limit                            *)
ReapIdle(a) ==
    /\ CanReap
    /\ isManaged(a) /\ a \in yaml
    /\ server[instances[a]].state = "ready" \/ holders[a] # instances[a]
    /\ tasks' = Append(tasks, [NewTask("reap", a) EXCEPT !.server = instances[a]])
    /\ UNCHANGED <<hub, instances, step, target, removing, server, holders, waiting, yaml>>

ReapRemoved(a) ==
    /\ CanReap
    /\ isManagedAlive(a) /\ a \notin yaml
    /\ removing' = [app |-> a, server |-> instances[a]]
    /\ UNCHANGED <<hub, instances, tasks, step, target, server, holders, waiting, yaml>>

(* The entry is deleted, whatever the app's entry is by now.                  *)
ReapedRemoved ==
    LET now == instances[removing.app] IN
    /\ removing # NotRemoving
    /\ ~Live(removing.server)
    /\ server' = IF now # None /\ Live(now) THEN [server EXCEPT ![now].lost = TRUE]
                                             ELSE server
    /\ instances' = [instances EXCEPT ![removing.app] = None]
    /\ removing' = NotRemoving
    /\ UNCHANGED <<hub, tasks, step, target, holders, waiting, yaml>>

YamlComesAndGoes(a) ==
    /\ a \in Removable
    /\ yaml' = IF a \in yaml THEN yaml \ {a} ELSE yaml \cup {a}
    /\ UNCHANGED <<hubVars, server, holders, waiting>>

-----------------------------------------------------------------------------
(* The servers: one manager an app (acquireDevInstance); a second exits.      *)
WritesRecord(p) ==
    /\ server[p].state = "launched"
    /\ RecordOf(server[p].app) = {}
    /\ server' = [server EXCEPT ![p].state = "starting"]
    /\ UNCHANGED <<hubVars, holders, waiting, yaml>>

IsReady(p) ==
    /\ server[p].state = "starting"
    /\ server' = [server EXCEPT ![p].state = "ready"]
    /\ UNCHANGED <<hubVars, holders, waiting, yaml>>

Exits(p) ==
    /\ Live(p)
    /\ server' = [server EXCEPT ![p] =
                    IF server[p].child THEN [@ EXCEPT !.state = "exited"] ELSE NoServer]
    /\ UNCHANGED <<hubVars, holders, waiting, yaml>>

(* The hub is killed: a server it has launched and not recorded is lost.       *)
Crash ==
    /\ hub = "up"
    /\ hub' = "down"
    /\ server' = [p \in Server |->
         IF Live(p) THEN [server[p] EXCEPT !.child = FALSE,
                              !.lost = @ \/ instances[server[p].app] # p]
                    ELSE NoServer]
    /\ holders' = [a \in App |-> Free]
    /\ waiting' = <<>>
    /\ tasks' = <<>> /\ step' = "idle" /\ target' = None
    /\ removing' = NotRemoving
    /\ UNCHANGED <<instances, yaml>>

Recover ==
    /\ hub = "down"
    /\ hub' = "up"
    /\ tasks' = <<NewTask("adopt", None)>>
    /\ UNCHANGED <<instances, step, target, removing, server, holders, waiting, yaml>>

-----------------------------------------------------------------------------
TaskStep ==
    \/ Adopt \/ Describe \/ BeginStop \/ BeginReap \/ Reap
    \/ Stopped \/ CheckQueued \/ LaunchFails \/ Spawn \/ Register

Next ==
    \/ \E a \in App :
         \/ \E restart \in BOOLEAN : StartCall(a, restart)
         \/ StopCall(a) \/ ForgetDead(a)
         \/ ReapIdle(a) \/ ReapRemoved(a) \/ YamlComesAndGoes(a)
    \/ TaskStep
    \/ ReapedRemoved
    \/ \E late \in Overdue : Tick(late)
    \/ \E p \in Server : ExitEvent(p) \/ WritesRecord(p) \/ IsReady(p) \/ Exits(p)
    \/ Crash \/ Recover

Spec == Init /\ [][Next]_vars

-----------------------------------------------------------------------------
(* The type invariant; a launched server is known.                             *)
TypeOK ==
    /\ hub \in {"up", "down"}
    /\ instances \in [App -> Server \cup {None}]
    /\ server \in [Server -> ServerRecord]
    /\ Start!SlotsTypeOK
    /\ tasks \in Seq(Task)
    /\ step \in {"idle", "reaping", "stopping", "launch", "spawned"}
    /\ target \in Server \cup {None}
    /\ step = "spawned" => target # None
    /\ removing \in [app : App \cup {None}, server : Server \cup {None}]
    /\ yaml \subseteq App

(* Starts and stops run one at a time, so that two calls never launch an app   *)
(* twice: of two live servers of one app, one is lost (serialize's comment).   *)
OneServerPerApp ==
    \A p, q \in Server :
        Live(p) /\ Live(q) /\ p # q /\ server[p].app = server[q].app =>
            server[p].lost \/ server[q].lost

(* Every live server the hub launched is in its registry, or being launched,   *)
(* whatever exits, stops and restarts came late, but for those a crash or the  *)
(* reaper of removed apps lost (exit handler, forgetDeadServers, Adopt).       *)
TracksItsServers ==
    \A p \in Server : Live(p) /\ ~server[p].lost =>
        instances[server[p].app] = p \/ (step = "spawned" /\ target = p)

(* A slot taken for a launch has that launch coming, which passes it to the    *)
(* server or gives it back: none is held by nobody until holdMs has passed     *)
(* (launchWithSlot, launchQueued).                                             *)
TakenIsPending ==
    \A a \in App : holders[a] = Taken =>
        \/ step \in {"launch", "spawned"} /\ first.app = a
        \/ \E i \in DOMAIN tasks : tasks[i].kind = "queued" /\ tasks[i].app = a

(* The reaper stops the server it has judged and no other, whatever starts and *)
(* restarts ran ahead of it in the queue, and whatever exited or was forgotten *)
(* while it read the record: it then stops nothing (isUsedSince, stopServer).  *)
ReapsWhatItJudged ==
    step = "stopping" /\ Runs("reap") =>
        target = first.server \/ (target = None /\ ~Live(first.server))

=============================================================================
