----------------------------- MODULE DevHubProofs -----------------------------
(* The hub never loses or doubles a server it launched, and never leaks a slot, *)
(* for any apps, servers, slots and length of its queue.                        *)
EXTENDS DevHub, TLAPS

\* A task of an app names it, and a reap the server that was judged.
KnownTask == {t \in Task : /\ t.kind # "adopt" => t.app \in App
                           /\ t.kind = "reap" => t.server \in Server}

TypeInv ==
    /\ hub \in {"up", "down"}
    /\ instances \in [App -> Server \cup {None}]
    /\ server \in [Server -> ServerRecord]
    /\ Start!SlotsTypeOK
    /\ tasks \in Seq(KnownTask)
    /\ step \in {"idle", "reaping", "stopping", "launch", "spawned"}
    /\ target \in Server \cup {None}
    /\ removing \in {NotRemoving} \cup [app : App, server : Server]
    /\ yaml \subseteq App

\* Nothing runs, and no exit is to come, while there is no hub.
DownInv == hub = "down" =>
    /\ step = "idle" /\ tasks = <<>>
    /\ \A p \in Server : ~server[p].child /\ server[p].state # "exited"

\* Where the first task is: what is stopped is the app's only server, and what is
\* launched finds the app without one.
FirstInv == step # "idle" => tasks # <<>> /\ first.kind # "adopt"
StopInv == step = "stopping" =>
    /\ instances[first.app] \in {target, None}
    /\ Runs("reap") => target = first.server \/ (target = None /\ ~Live(first.server))
    /\ ~Runs("queued")
\* While the reaper reads the record again, the entry it has judged can only go.
ReapInv == step = "reaping" =>
    /\ Runs("reap")
    /\ \/ instances[first.app] = first.server
       \/ instances[first.app] = None /\ ~Live(first.server)
LaunchInv == step \in {"launch", "spawned"} => ~isManagedAlive(first.app)
SpawnInv == step = "spawned" =>
    /\ target \in Server
    /\ server[target].state # "none" => server[target].app = first.app
AppInv == \A p \in Server : server[p].state # "none" => server[p].app \in App

\* The reaper does one thing at a time: no reap is queued while it stops the server of
\* a removed app, whose entry it drops whatever it is by then.
RemovingInv == removing # NotRemoving => \A i \in DOMAIN tasks : tasks[i].kind # "reap"

ServersInv ==
    FirstInv /\ StopInv /\ ReapInv /\ LaunchInv /\ SpawnInv /\ AppInv /\ TracksItsServers
IInv == TypeInv /\ DownInv /\ ServersInv /\ RemovingInv /\ TakenIsPending

LEMMA QueueFacts ==
    ASSUME tasks \in Seq(KnownTask), tasks # <<>>
    PROVE  /\ first \in KnownTask /\ first = tasks[1] /\ Len(tasks) \in Nat \ {0}
           /\ DOMAIN tasks = 1..Len(tasks)
           /\ Tail(tasks) \in Seq(KnownTask)
           /\ DOMAIN Tail(tasks) = 1..Len(tasks) - 1
           /\ \A i \in 1..Len(tasks) - 1 : Tail(tasks)[i] = tasks[i + 1]
    BY DEF first

LEMMA AppendFacts ==
    ASSUME tasks \in Seq(KnownTask), NEW more \in Seq(KnownTask), tasks' = tasks \o more
    PROVE  /\ tasks' \in Seq(KnownTask)
           /\ tasks # <<>> => tasks' # <<>> /\ Head(tasks') = Head(tasks)
           /\ \A i \in DOMAIN tasks : i \in DOMAIN tasks' /\ tasks'[i] = tasks[i]
           /\ \A i \in 1..Len(more) : Len(tasks) + i \in DOMAIN tasks'
                                      /\ tasks'[Len(tasks) + i] = more[i]
<1>1. /\ tasks' \in Seq(KnownTask) /\ Len(tasks') = Len(tasks) + Len(more)
      /\ Len(tasks) \in Nat /\ Len(more) \in Nat
      /\ DOMAIN tasks = 1..Len(tasks) /\ DOMAIN tasks' = 1..Len(tasks')
    OBVIOUS
<1>2. \A i \in 1..Len(tasks) : tasks'[i] = tasks[i]
    OBVIOUS
<1>3. \A i \in 1..Len(more) : tasks'[Len(tasks) + i] = more[i]
    OBVIOUS
<1>4. tasks # <<>> => tasks' # <<>> /\ Head(tasks') = Head(tasks)
    <2> SUFFICES ASSUME tasks # <<>> PROVE tasks' # <<>> /\ Head(tasks') = Head(tasks)
        OBVIOUS
    <2>1. Len(tasks) >= 1 /\ Head(tasks) = tasks[1]
        OBVIOUS
    <2>2. Len(tasks') >= 1
        BY <1>1, <2>1
    <2>3. Head(tasks') = tasks'[1]
        BY <1>1, <2>2
    <2> QED
        BY <1>1, <1>2, <2>1, <2>2, <2>3
<1> QED
    BY <1>1, <1>2, <1>3, <1>4

\* A call or a reap appends one task.
LEMMA AppendOneFacts ==
    ASSUME tasks \in Seq(KnownTask), NEW t \in KnownTask, tasks' = Append(tasks, t)
    PROVE  /\ tasks' \in Seq(KnownTask)
           /\ tasks # <<>> => tasks' # <<>> /\ Head(tasks') = Head(tasks)
           /\ \A i \in DOMAIN tasks : i \in DOMAIN tasks' /\ tasks'[i] = tasks[i]
<1>1. tasks' = tasks \o <<t>> /\ <<t>> \in Seq(KnownTask)
    OBVIOUS
<1> QED
    BY <1>1, AppendFacts

Pending(a) == \E i \in DOMAIN tasks : tasks[i].kind = "queued" /\ tasks[i].app = a

\* The end of the first task leaves the launches of other apps in the queue.
LEMMA FinishKeepsPending ==
    ASSUME tasks \in Seq(KnownTask), tasks # <<>>, tasks' = Tail(tasks),
           NEW a \in App, Pending(a), ~(first.kind = "queued" /\ first.app = a)
    PROVE  Pending(a)'
<1>1. PICK i \in DOMAIN tasks : tasks[i].kind = "queued" /\ tasks[i].app = a
    BY DEF Pending
<1>2. i # 1 /\ i - 1 \in DOMAIN Tail(tasks) /\ Tail(tasks)[i - 1] = tasks[i]
    BY <1>1, QueueFacts
<1> QED
    BY <1>1, <1>2 DEF Pending

LEMMA GrowthKeepsPending ==
    ASSUME NEW a \in App, Pending(a),
           \A i \in DOMAIN tasks : i \in DOMAIN tasks' /\ tasks'[i] = tasks[i]
    PROVE  Pending(a)'
    BY DEF Pending

-----------------------------------------------------------------------------
(* Slots *)

LEMMA TakeSlotFacts ==
    ASSUME TypeInv, tasks # <<>>, first.app \in App, NEW entries,
           NEW h \in [App -> Server \cup {Free, Taken}], TakeSlot(h, entries)
    PROVE  /\ Start!SlotsTypeOK' /\ tasks' \in Seq(KnownTask)
           /\ target' = None
           /\ \/ step' = "launch" /\ tasks' = tasks
              \/ step' = "idle" /\ tasks' = Tail(tasks)
           /\ \A a \in App : holders'[a] = Taken =>
                  h[a] = Taken \/ (a = first.app /\ step' = "launch")
<1> USE HolderAssumption
<1>1. PICK late \in Overdue, limit \in Start!Limit :
          \/ Start!TakesSlot(h, first.app, late, StartingIn(entries), limit) /\ Launches
          \/ Start!Enqueues(h, first.app, late, StartingIn(entries), limit) /\ Finish
    BY DEF TakeSlot
<1> DEFINE r == Start!releaseFinished(h, late, StartingIn(entries))
<1>2. /\ r \in [App -> Server \cup {Free, Taken}]
      /\ \A a \in App : r[a] = Taken => h[a] = Taken
    BY DEF Start!releaseFinished
<1>3. waiting \in Seq(App)
    BY DEF TypeInv, Start!SlotsTypeOK
<1>4. CASE Start!TakesSlot(h, first.app, late, StartingIn(entries), limit) /\ Launches
    <2>1. holders' = Start!WithSlot(r, first.app) /\ waiting' = waiting
        BY <1>4 DEF Start!TakesSlot
    <2>2. /\ holders' \in [App -> Server \cup {Free, Taken}]
          /\ \A a \in App : a # first.app => holders'[a] = r[a]
        BY <1>2, <2>1 DEF Start!WithSlot
    <2> QED
        BY <1>2, <1>3, <1>4, <2>1, <2>2 DEF Launches, TypeInv, Start!SlotsTypeOK
<1>5. CASE Start!Enqueues(h, first.app, late, StartingIn(entries), limit) /\ Finish
    <2>1. holders' = r /\ waiting' \in Seq(App)
        BY <1>3, <1>5 DEF Start!Enqueues
    <2>2. tasks' = Tail(tasks) /\ step' = "idle" /\ target' = None
        BY <1>5 DEF Finish
    <2>3. tasks' \in Seq(KnownTask)
        BY <2>2, QueueFacts DEF TypeInv
    <2> QED
        BY <1>2, <2>1, <2>2, <2>3 DEF Start!SlotsTypeOK
<1> QED
    BY <1>1, <1>4, <1>5

LEMMA DequeueFacts ==
    ASSUME waiting \in Seq(App), NEW a \in App, Start!dequeue(a)
    PROVE  waiting' \in Seq(App)
<1>1. PICK i \in 1..Len(waiting) : waiting' = Start!RemoveAt(waiting, i)
    BY DEF Start!dequeue
<1> QED
    BY <1>1 DEF Start!RemoveAt

LEMMA TickFacts ==
    ASSUME TypeInv, NEW late, NEW entries, TickWith(late, entries)
    PROVE  /\ Start!SlotsTypeOK' /\ tasks' \in Seq(KnownTask)
           /\ tasks # <<>> => tasks' # <<>> /\ Head(tasks') = Head(tasks)
           /\ \A i \in DOMAIN tasks : i \in DOMAIN tasks' /\ tasks'[i] = tasks[i]
           /\ \A a \in App : holders'[a] = Taken => holders[a] = Taken \/ Pending(a)'
<1> USE HolderAssumption
<1>1. PICK k \in 0..Len(waiting), limit \in Start!Limit :
          /\ Start!tick(k, late, StartingIn(entries), limit)
          /\ tasks' = tasks \o [i \in 1..k |-> NewTask("queued", waiting[i])]
    BY DEF TickWith
<1> DEFINE r == Start!releaseFinished(holders, late, StartingIn(entries))
           more == [i \in 1..k |-> NewTask("queued", waiting[i])]
<1>2. /\ waiting \in Seq(App) /\ holders \in [App -> Server \cup {Free, Taken}]
      /\ tasks \in Seq(KnownTask)
    BY DEF TypeInv, Start!SlotsTypeOK
<1>3. k \in Nat /\ k <= Len(waiting) /\ \A i \in 1..k : waiting[i] \in App
    BY <1>2
<1>4. \A a \in App : NewTask("queued", a) \in KnownTask
    BY DEF NewTask, KnownTask, Task
<1>5. more \in Seq(KnownTask) /\ Len(more) = k
    BY <1>3, <1>4
<1>6. /\ r \in [App -> Server \cup {Free, Taken}]
      /\ \A a \in App : r[a] = Taken => holders[a] = Taken
    BY <1>2 DEF Start!releaseFinished
<1>7. holders' = Start!Serving(r, k) /\ waiting' = SubSeq(waiting, k + 1, Len(waiting))
    BY <1>1 DEF Start!tick
<1>8. /\ holders' \in [App -> Server \cup {Free, Taken}]
      /\ \A a \in App : holders'[a] = Taken =>
             r[a] = Taken \/ \E i \in 1..k : waiting[i] = a
    BY <1>6, <1>7 DEF Start!Serving
<1>9. waiting' \in Seq(App)
    BY <1>2, <1>3, <1>7
<1>10. /\ tasks' \in Seq(KnownTask)
       /\ tasks # <<>> => tasks' # <<>> /\ Head(tasks') = Head(tasks)
       /\ \A i \in DOMAIN tasks : i \in DOMAIN tasks' /\ tasks'[i] = tasks[i]
       /\ \A i \in 1..k : Len(tasks) + i \in DOMAIN tasks'
                          /\ tasks'[Len(tasks) + i] = more[i]
    BY <1>1, <1>2, <1>5, AppendFacts
<1>11. \A i \in 1..k : \E j \in DOMAIN tasks' :
           tasks'[j].kind = "queued" /\ tasks'[j].app = waiting[i]
    <2> SUFFICES ASSUME NEW i \in 1..k
                 PROVE  \E j \in DOMAIN tasks' :
                            tasks'[j].kind = "queued" /\ tasks'[j].app = waiting[i]
        OBVIOUS
    <2>1. more[i].kind = "queued" /\ more[i].app = waiting[i]
        BY <1>3 DEF NewTask
    <2>2. tasks'[Len(tasks) + i] = more[i] /\ Len(tasks) + i \in DOMAIN tasks'
        BY <1>10
    <2> HIDE DEF more
    <2> QED
        BY <2>1, <2>2
<1>12. \A a \in App : holders'[a] = Taken => holders[a] = Taken \/ Pending(a)'
    BY <1>6, <1>8, <1>11 DEF Pending
<1> QED
    BY <1>8, <1>9, <1>10, <1>12 DEF Start!SlotsTypeOK

-----------------------------------------------------------------------------
(* Servers *)

\* While the first task stays where it is, servers exit and entries go: what holds of
\* servers and entries goes on to hold.
LEMMA FadingKeeps ==
    ASSUME TypeInv, ServersInv,
           instances' \in [App -> Server \cup {None}],
           UNCHANGED <<step, target>>,
           step # "idle" => tasks' # <<>> /\ Head(tasks') = Head(tasks),
           \A a \in App : instances'[a] \in {instances[a], None},
           \A p \in Server : server'[p].state # "none" =>
               server[p].state # "none" /\ server'[p].app = server[p].app,
           \A p \in Server : Live(p)' => Live(p),
           \A p \in Server : Live(p)' /\ ~server'[p].lost =>
               /\ ~server[p].lost
               /\ instances[server[p].app] = p => instances'[server[p].app] = p,
           \A p \in Server : step = "reaping" /\ Live(p)' /\ instances[first.app] = p
                              => instances'[first.app] = p
    PROVE  ServersInv'
<1> USE NoneAssumption DEF ServersInv
<1>1. step # "idle" => first' = first /\ tasks # <<>> /\ first.kind # "adopt" /\ first.app \in App
    BY QueueFacts DEF FirstInv, TypeInv, first, KnownTask
<1>2. \A a \in App : isManagedAlive(a)' => isManagedAlive(a)
    BY DEF isManagedAlive, isManaged, TypeInv
<1>3. FirstInv'
    BY <1>1 DEF FirstInv
<1>4. StopInv' /\ ReapInv'
    <2>1. first.kind = "reap" /\ step # "idle" => first.server \in Server
        BY <1>1, QueueFacts DEF KnownTask, TypeInv
    <2>2. StopInv'
        BY <1>1, <2>1 DEF StopInv, Runs
    <2>3. ReapInv'
        BY <1>1, <2>1 DEF ReapInv, Runs
    <2> QED
        BY <2>2, <2>3
<1>5. LaunchInv'
    BY <1>1, <1>2 DEF LaunchInv
<1>6. SpawnInv'
    BY <1>1 DEF SpawnInv
<1>7. AppInv'
    BY DEF AppInv
<1>8. TracksItsServers'
    <2> SUFFICES ASSUME NEW p \in Server, Live(p)', ~server'[p].lost
                 PROVE  \/ instances'[server'[p].app] = p
                        \/ step = "spawned" /\ target = p
        BY DEF TracksItsServers
    <2>1. Live(p) /\ ~server[p].lost /\ server'[p].app = server[p].app
        BY DEF Live
    <2> QED
        BY <2>1 DEF TracksItsServers
<1> QED
    BY <1>3, <1>4, <1>5, <1>6, <1>7, <1>8

\* The same, when only the queue, or nothing of this, changes.
LEMMA QueueingKeeps ==
    ASSUME TypeInv, ServersInv, UNCHANGED <<instances, server, step, target>>,
           step # "idle" => tasks' # <<>> /\ Head(tasks') = Head(tasks)
    PROVE  ServersInv'
<1>1. instances' \in [App -> Server \cup {None}]
    BY DEF TypeInv
<1> QED
    BY <1>1, FadingKeeps DEF Live

\* A task that ends, or that goes on to stop or to launch.
LEMMA IdleKeeps ==
    ASSUME ServersInv, UNCHANGED <<instances, server>>, step' = "idle", step # "spawned"
    PROVE  ServersInv'
    BY DEF ServersInv, FirstInv, StopInv, ReapInv, LaunchInv, SpawnInv, AppInv, TracksItsServers, Live

LEMMA StopsKeeps ==
    ASSUME TypeInv, ServersInv, UNCHANGED <<instances, server, tasks>>, tasks # <<>>,
           step \in {"idle", "reaping"}, first.kind \notin {"adopt", "queued"},
           step' = "stopping", target' = instances[first.app],
           first.kind = "reap" => \/ first.server = instances[first.app]
                                  \/ instances[first.app] = None /\ ~Live(first.server)
    PROVE  ServersInv'
    BY DEF ServersInv, FirstInv, StopInv, ReapInv, LaunchInv, SpawnInv, AppInv,
           TracksItsServers, Live, first, Runs

LEMMA LaunchesKeeps ==
    ASSUME TypeInv, ServersInv, UNCHANGED <<instances, server, tasks>>, tasks # <<>>, step # "spawned",
           first.kind # "adopt", step' = "launch", ~isManagedAlive(first.app)
    PROVE  ServersInv'
    BY DEF ServersInv, FirstInv, StopInv, ReapInv, LaunchInv, SpawnInv, AppInv,
           TracksItsServers, Live, first,
           isManagedAlive, isManaged

\* What the first task is, and that the end of it keeps the queue's types.
LEMMA FirstFacts ==
    ASSUME TypeInv, DownInv, FirstInv, tasks # <<>>
    PROVE  /\ hub = "up"
           /\ first.kind \in {"adopt", "start", "stop", "reap", "queued"}
           /\ first.kind # "adopt" => first.app \in App
           /\ first.kind = "reap" => first.server \in Server
           /\ Tail(tasks) \in Seq(KnownTask)
    BY QueueFacts DEF TypeInv, DownInv, KnownTask, Task

LEMMA DescribeKeeps ==
    ASSUME TypeInv, DownInv, ServersInv, Describe
    PROVE  ServersInv'
<1>1. tasks # <<>> /\ step = "idle" /\ first.kind = "start" /\ first.app \in App
      /\ UNCHANGED <<instances, server>>
    BY FirstFacts DEF Describe, At, Runs, ServersInv
<1>2. CASE Finish
    BY <1>1, <1>2, IdleKeeps DEF Finish
<1>3. CASE Stops(instances[first.app])
    BY <1>1, <1>3, StopsKeeps DEF Stops
<1>4. CASE ~isServerRunning(first.app) /\ TakeSlot(holders, instances)
    <2>1. holders \in [App -> Server \cup {Free, Taken}]
        BY DEF TypeInv, Start!SlotsTypeOK
    <2>2. step' = "idle" \/ (step' = "launch" /\ tasks' = tasks)
        BY <1>1, <1>4, <2>1, TakeSlotFacts
    <2>3. ~isManagedAlive(first.app)
        BY <1>4 DEF isServerRunning
    <2> QED
        BY <1>1, <2>2, <2>3, IdleKeeps, LaunchesKeeps
<1> QED
    BY <1>2, <1>3, <1>4 DEF Describe

LEMMA StoppedKeeps ==
    ASSUME TypeInv, DownInv, ServersInv, Stopped
    PROVE  ServersInv'
<1> USE NoneAssumption DEF ServersInv
<1> DEFINE a == first.app
           h == IF target = None THEN holders ELSE [holders EXCEPT ![a] = Free]
<1>1. tasks # <<>> /\ step = "stopping" /\ first.kind # "adopt" /\ a \in App /\ server' = server
    BY FirstFacts DEF Stopped, At, FirstInv
<1>2. instances[a] \in {target, None} /\ (target # None => target \in Server /\ ~Live(target))
    BY <1>1 DEF StopInv, Stopped, TypeInv
<1>3. /\ instances' = [instances EXCEPT ![a] = None]
      /\ instances' \in [App -> Server \cup {None}]
    <2>1. instances \in [App -> Server \cup {None}]
        BY DEF TypeInv
    <2>2. instances' = IF target = None THEN instances ELSE [instances EXCEPT ![a] = None]
        BY DEF Stopped
    <2>3. target = None => instances[a] = None
        BY <1>2
    <2> QED
        BY <1>1, <2>1, <2>2, <2>3
<1>4. step' = "idle" \/ (step' = "launch" /\ tasks' = tasks)
    <2>1. CASE Runs("start")
        <3>1. h \in [App -> Server \cup {Free, Taken}]
            BY <1>1 DEF TypeInv, Start!SlotsTypeOK
        <3>2. TakeSlot(h, instances')
            BY <2>1 DEF Stopped
        <3> HIDE DEF h
        <3> QED
            BY <1>1, <3>1, <3>2, TakeSlotFacts
    <2>2. CASE ~Runs("start")
        BY <2>2 DEF Stopped, Finish
    <2> QED
        BY <2>1, <2>2
<1>5. TracksItsServers'
    <2> SUFFICES ASSUME NEW p \in Server, Live(p), ~server[p].lost
                 PROVE  instances'[server[p].app] = p
        BY <1>1 DEF TracksItsServers, Live
    <2>1. instances[server[p].app] = p
        BY <1>1 DEF TracksItsServers
    <2>2. server[p].app \in App
        BY DEF AppInv, Live
    <2> QED
        BY <1>1, <1>2, <1>3, <2>1, <2>2 DEF TypeInv
<1>6. FirstInv' /\ StopInv' /\ ReapInv' /\ SpawnInv' /\ AppInv'
    BY <1>1, <1>4 DEF FirstInv, StopInv, ReapInv, SpawnInv, AppInv, first
<1>7. LaunchInv'
    BY <1>1, <1>3, <1>4 DEF LaunchInv, first, isManagedAlive, isManaged
<1> QED
    BY <1>5, <1>6, <1>7

LEMMA SpawnKeeps ==
    ASSUME TypeInv, DownInv, ServersInv, Spawn
    PROVE  ServersInv'
<1> USE NoneAssumption DEF ServersInv
<1> DEFINE a == first.app
<1>1. tasks # <<>> /\ step = "launch" /\ first.kind # "adopt" /\ a \in App
      /\ UNCHANGED <<instances, tasks>> /\ step' = "spawned"
    BY FirstFacts DEF Spawn, At, FirstInv
<1>2. PICK p \in Server :
          /\ Unreferenced(p) /\ target' = p
          /\ server' = [server EXCEPT ![p] =
                [app |-> a, child |-> TRUE, lost |-> FALSE, state |-> "launched"]]
    BY DEF Spawn
<1>3. /\ server'[p].app = a /\ \A q \in Server \ {p} : server'[q] = server[q]
      /\ \A b \in App : instances[b] # p
    BY <1>2 DEF TypeInv, Unreferenced
<1>4. FirstInv' /\ StopInv' /\ ReapInv' /\ SpawnInv'
    BY <1>1, <1>2, <1>3 DEF FirstInv, StopInv, ReapInv, SpawnInv, first
<1>5. LaunchInv'
    <2>1. instances[a] \in Server \cup {None}
        BY <1>1 DEF TypeInv
    <2>2. instances[a] # None => server'[instances[a]] = server[instances[a]]
        BY <1>1, <1>3, <2>1
    <2> QED
        BY <1>1, <2>2 DEF LaunchInv, first, isManagedAlive, isManaged, Live
<1>6. AppInv'
    BY <1>1, <1>3 DEF AppInv
<1>7. TracksItsServers'
    <2> SUFFICES ASSUME NEW q \in Server, Live(q)', ~server'[q].lost, q # p
                 PROVE  instances[server'[q].app] = q
        BY <1>1, <1>2 DEF TracksItsServers
    <2> QED
        BY <1>1, <1>3 DEF TracksItsServers, Live
<1> QED
    BY <1>4, <1>5, <1>6, <1>7

LEMMA RegisterKeeps ==
    ASSUME TypeInv, DownInv, ServersInv, Register
    PROVE  ServersInv'
<1> USE NoneAssumption DEF ServersInv
<1> DEFINE a == first.app
<1>1. tasks # <<>> /\ step = "spawned" /\ a \in App /\ server' = server /\ step' = "idle"
      /\ target \in Server
    BY FirstFacts DEF Register, At, FirstInv, Finish, SpawnInv
<1>2. TracksItsServers'
    <2> SUFFICES ASSUME NEW p \in Server, Live(p), ~server[p].lost
                 PROVE  instances'[server[p].app] = p
        BY <1>1 DEF TracksItsServers, Live
    <2>1. instances \in [App -> Server \cup {None}] /\ server[p].app \in App
        BY DEF TypeInv, AppInv, Live
    <2>2. CASE target = p
        <3>1. server[p].state # "none" /\ server[p].app = a
            BY <1>1, <2>2 DEF SpawnInv, Live
        <3> QED
            BY <1>1, <2>1, <2>2, <3>1 DEF Register
    <2>3. CASE target # p
        <3>1. instances[server[p].app] = p
            BY <2>3 DEF TracksItsServers
        <3>2. server[p].app # a
            BY <1>1, <3>1 DEF LaunchInv, isManagedAlive, isManaged
        <3> QED
            BY <1>1, <2>1, <3>1, <3>2 DEF Register
    <2> QED
        BY <2>2, <2>3
<1>3. FirstInv' /\ StopInv' /\ ReapInv' /\ SpawnInv' /\ LaunchInv' /\ AppInv'
    BY <1>1 DEF FirstInv, StopInv, ReapInv, SpawnInv, LaunchInv, AppInv
<1> QED
    BY <1>2, <1>3

LEMMA AdoptKeeps ==
    ASSUME TypeInv, ServersInv, Adopt
    PROVE  ServersInv'
<1> USE NoneAssumption DEF ServersInv
<1>1. step = "idle" /\ step' = "idle" /\ server' = server
    BY DEF Adopt, At, Finish
<1>2. TracksItsServers'
    <2> SUFFICES ASSUME NEW p \in Server, Live(p), ~server[p].lost
                 PROVE  instances'[server[p].app] = p
        BY <1>1 DEF TracksItsServers, Live
    <2>1. instances[server[p].app] = p /\ server[p].app \in App
        BY <1>1 DEF TracksItsServers, AppInv, Live
    <2>2. isManagedAlive(server[p].app)
        BY <2>1 DEF isManagedAlive, isManaged
    <2> QED
        BY <2>1, <2>2 DEF Adopt
<1>3. FirstInv' /\ StopInv' /\ ReapInv' /\ SpawnInv' /\ LaunchInv' /\ AppInv'
    BY <1>1 DEF FirstInv, StopInv, ReapInv, SpawnInv, LaunchInv, AppInv
<1> QED
    BY <1>2, <1>3

LEMMA CrashKeeps ==
    ASSUME TypeInv, ServersInv, Crash
    PROVE  ServersInv'
<1> USE NoneAssumption DEF ServersInv
<1>1. /\ step' = "idle" /\ instances' = instances
      /\ server' = [p \in Server |->
             IF Live(p) THEN [server[p] EXCEPT !.child = FALSE,
                                  !.lost = @ \/ instances[server[p].app] # p]
                        ELSE NoServer]
    BY DEF Crash
<1>2. \A p \in Server : server[p] \in ServerRecord
    BY DEF TypeInv
<1>3. ASSUME NEW p \in Server
      PROVE  /\ server'[p].state # "none" =>
                    Live(p) /\ server'[p].app = server[p].app /\ server'[p].state = server[p].state
             /\ Live(p) /\ ~server'[p].lost => instances[server[p].app] = p
    <2>1. CASE Live(p)
        <3>1. server'[p] = [server[p] EXCEPT !.child = FALSE,
                                !.lost = @ \/ instances[server[p].app] # p]
            BY <1>1, <2>1
        <3>2. server'[p].app = server[p].app /\ server'[p].state = server[p].state
            BY <1>2, <3>1 DEF ServerRecord
        <3>3. instances[server[p].app] # p => server'[p].lost
            BY <1>2, <3>1 DEF ServerRecord
        <3> QED
            BY <2>1, <3>2, <3>3
    <2>2. CASE ~Live(p)
        BY <1>1, <2>2 DEF NoServer
    <2> QED
        BY <2>1, <2>2
<1>4. AppInv' /\ TracksItsServers'
    BY <1>1, <1>3 DEF AppInv, TracksItsServers, Live
<1> QED
    BY <1>1, <1>4 DEF FirstInv, StopInv, ReapInv, SpawnInv, LaunchInv

\* A change of servers or entries from outside the queue.
LEMMA EventKeeps ==
    ASSUME TypeInv, ServersInv, RemovingInv, NEW p \in Server, NEW a \in App,
           \/ ExitEvent(p) \/ ForgetDead(a) \/ ReapedRemoved
           \/ WritesRecord(p) \/ IsReady(p) \/ Exits(p)
    PROVE  ServersInv'
<1> USE NoneAssumption
<1>1. instances \in [App -> Server \cup {None}] /\ server \in [Server -> ServerRecord]
    BY DEF TypeInv
<1>0. step = "reaping" => first.app \in App /\ Runs("reap") /\ tasks # <<>> /\ first = tasks[1]
                           /\ 1 \in DOMAIN tasks
    BY QueueFacts DEF TypeInv, ServersInv, FirstInv, ReapInv, KnownTask, Runs
<1>2. CASE ExitEvent(p)
    <2>1. /\ instances' = EntriesWithout(p) /\ UNCHANGED <<step, target>>
          /\ server' = [server EXCEPT ![p] = NoServer] /\ server[p].state = "exited"
        BY <1>2 DEF ExitEvent
    <2>2. tasks # <<>> => tasks' # <<>> /\ Head(tasks') = Head(tasks)
        BY <1>2, TickFacts DEF ExitEvent
    <2>3. /\ instances' \in [App -> Server \cup {None}]
          /\ \A b \in App : instances'[b] = IF instances[b] = p THEN None ELSE instances[b]
        BY <1>1, <2>1 DEF EntriesWithout
    <2>4. /\ server'[p].state = "none" /\ ~Live(p)
          /\ \A q \in Server \ {p} : server'[q] = server[q]
        BY <1>1, <2>1 DEF NoServer, Live
    <2>5. \A q \in Server : Live(q)' => q # p /\ Live(q)
        BY <2>4 DEF Live
    <2>6. \A q \in Server : Live(q)' /\ instances[server[q].app] = q
                             => instances'[server[q].app] = q
        BY <2>3, <2>5 DEF ServersInv, AppInv, Live
    <2>7. step # "idle" => tasks # <<>>
        BY DEF ServersInv, FirstInv
    <2>8. \A q \in Server : step = "reaping" /\ Live(q)' /\ instances[first.app] = q
                             => instances'[first.app] = q
        BY <1>0, <2>3, <2>5
    <2> QED
        BY <2>1, <2>2, <2>3, <2>4, <2>5, <2>6, <2>7, <2>8, FadingKeeps
<1>3. CASE ForgetDead(a)
    <2>1. /\ instances' = [instances EXCEPT ![a] = None] /\ ~isManagedAlive(a)
          /\ UNCHANGED <<server, step, target, tasks>>
        BY <1>3 DEF ForgetDead
    <2>2. \A q \in Server : Live(q) /\ instances[server[q].app] = q
                             => instances'[server[q].app] = q
        BY <1>1, <2>1 DEF isManagedAlive, isManaged, ServersInv, AppInv, Live
    <2>3. \A q \in Server : step = "reaping" /\ Live(q)' /\ instances[first.app] = q
                             => instances'[first.app] = q
        BY <1>0, <1>1, <2>1 DEF isManagedAlive, isManaged, Live
    <2> QED
        BY <1>1, <2>1, <2>2, <2>3, FadingKeeps DEF Live, ServersInv, FirstInv
<1>4. CASE ReapedRemoved
    <2> DEFINE b == removing.app
               now == instances[b]
    <2>1. /\ instances' = [instances EXCEPT ![b] = None] /\ UNCHANGED <<step, target, tasks>>
          /\ server' = IF now # None /\ Live(now) THEN [server EXCEPT ![now].lost = TRUE] ELSE server
        BY <1>4 DEF ReapedRemoved
    <2>2. b \in App /\ now \in Server \cup {None}
        BY <1>1, <1>4 DEF TypeInv, ReapedRemoved
    <2>3. /\ \A q \in Server : server'[q].state = server[q].state /\ server'[q].app = server[q].app
          /\ \A q \in Server : q # now \/ ~Live(q) => server'[q] = server[q]
          /\ \A q \in Server : q = now /\ Live(q) => server'[q].lost
        BY <1>1, <2>1, <2>2 DEF ServerRecord
    <2>4. \A q \in Server : Live(q)' => Live(q)
        BY <2>3 DEF Live
    <2>5. \A q \in Server : Live(q)' /\ ~server'[q].lost =>
              /\ ~server[q].lost
              /\ instances[server[q].app] = q => instances'[server[q].app] = q
        <3> SUFFICES ASSUME NEW q \in Server, Live(q)', ~server'[q].lost
                     PROVE  /\ ~server[q].lost
                            /\ instances[server[q].app] = q => instances'[server[q].app] = q
            OBVIOUS
        <3>1. Live(q) /\ q # now /\ server'[q] = server[q]
            BY <2>3, <2>4
        <3> QED
            BY <1>1, <2>1, <2>2, <3>1 DEF ServersInv, AppInv, Live
    <2>6. /\ instances' \in [App -> Server \cup {None}]
          /\ \A c \in App : instances'[c] \in {instances[c], None}
        BY <1>1, <2>1, <2>2
    <2>7. step # "idle" => tasks' # <<>> /\ Head(tasks') = Head(tasks)
        BY <2>1 DEF ServersInv, FirstInv
    <2>8. step # "reaping"
        BY <1>0, <1>4 DEF ReapedRemoved, RemovingInv, Runs
    <2> QED
        BY <2>1, <2>3, <2>4, <2>5, <2>6, <2>7, <2>8, FadingKeeps
<1>5. CASE WritesRecord(p) \/ IsReady(p) \/ Exits(p)
    <2>1. Live(p) /\ UNCHANGED <<instances, step, target, tasks>>
        BY <1>5 DEF WritesRecord, IsReady, Exits, Live, hubVars
    <2>2. /\ \A q \in Server \ {p} : server'[q] = server[q]
          /\ server'[p].state # "none" =>
                server'[p].app = server[p].app /\ server'[p].lost = server[p].lost
        <3>1. CASE WritesRecord(p) \/ IsReady(p)
            BY <1>1, <3>1 DEF WritesRecord, IsReady, ServerRecord
        <3>2. CASE Exits(p)
            BY <1>1, <3>2 DEF Exits, ServerRecord, NoServer
        <3> QED
            BY <1>5, <3>1, <3>2
    <2>3. \A q \in Server : Live(q)' => Live(q) /\ server'[q].lost = server[q].lost
        BY <2>1, <2>2 DEF Live
    <2> QED
        BY <1>1, <2>1, <2>2, <2>3, FadingKeeps DEF ServersInv, FirstInv, Live
<1> QED
    BY <1>2, <1>3, <1>4, <1>5

LEMMA ServersKept ==
    ASSUME TypeInv, DownInv, ServersInv, RemovingInv, [Next]_vars
    PROVE  ServersInv'
<1>1. tasks \in Seq(KnownTask) /\ (step # "idle" => tasks # <<>> /\ first.kind # "adopt")
    BY DEF TypeInv, ServersInv, FirstInv
<1>2. ASSUME NEW a \in App, \/ \E restart \in BOOLEAN : StartCall(a, restart)
                            \/ StopCall(a) \/ ReapIdle(a)
      PROVE  ServersInv'
    <2>1. UNCHANGED <<instances, server, step, target>>
        BY <1>2 DEF StartCall, StopCall, ReapIdle
    <2>2. tasks' = tasks \/ \E t \in KnownTask : tasks' = Append(tasks, t)
        <3>1. CASE \E restart \in BOOLEAN : StartCall(a, restart)
            BY <3>1 DEF StartCall, StartTask, NewTask, KnownTask, Task
        <3>2. CASE StopCall(a)
            BY <3>2 DEF StopCall, NewTask, KnownTask, Task
        <3>3. CASE ReapIdle(a)
            BY <3>3 DEF ReapIdle, isManaged, NewTask, KnownTask, Task, TypeInv
        <3> QED
            BY <1>2, <3>1, <3>2, <3>3
    <2>3. tasks # <<>> => tasks' # <<>> /\ Head(tasks') = Head(tasks)
        BY <1>1, <2>2, AppendOneFacts
    <2> QED
        BY <1>1, <2>1, <2>3, QueueingKeeps
<1>3. ASSUME NEW late \in Overdue, Tick(late)
      PROVE  ServersInv'
    BY <1>1, <1>3, TickFacts, QueueingKeeps DEF Tick
<1>4. ASSUME NEW a \in App, ReapRemoved(a) \/ YamlComesAndGoes(a)
      PROVE  ServersInv'
    BY <1>1, <1>4, QueueingKeeps DEF ReapRemoved, YamlComesAndGoes, hubVars
<1>5. CASE Recover
    BY <1>5, IdleKeeps DEF Recover, DownInv
<1>6. CASE UNCHANGED vars
    BY <1>1, <1>6, QueueingKeeps DEF vars, hubVars
<1>7. CASE BeginStop
    <2>1. tasks # <<>> /\ first.kind = "stop" /\ step = "idle" /\ UNCHANGED <<instances, server, tasks>>
          /\ step' = "stopping" /\ target' = instances[first.app]
        BY <1>7 DEF BeginStop, At, Runs, Stops
    <2> QED
        BY <2>1, StopsKeeps
<1>8. CASE BeginReap
    <2>1. tasks # <<>> /\ first.kind = "reap" /\ step = "idle" /\ UNCHANGED <<instances, server>>
        BY <1>8 DEF BeginReap, At, Runs
    <2>2. CASE Finish
        BY <2>1, <2>2, IdleKeeps DEF Finish
    <2>3. CASE /\ stillJudged(first.app, first.server)
               /\ step' = "reaping" /\ UNCHANGED <<tasks, target>>
        BY <2>1, <2>3 DEF stillJudged, Runs, first, Live, ServersInv, FirstInv, StopInv, ReapInv,
                          LaunchInv, SpawnInv, AppInv, TracksItsServers
    <2> QED
        BY <1>8, <2>2, <2>3 DEF BeginReap
<1>9. CASE CheckQueued
    <2>1. tasks # <<>> /\ first.kind = "queued" /\ step = "idle" /\ UNCHANGED <<instances, server>>
        BY <1>9 DEF CheckQueued, At, Runs
    <2>2. CASE isServerRunning(first.app)
        BY <1>9, <2>1, <2>2, IdleKeeps DEF CheckQueued, Finish
    <2>3. CASE ~isServerRunning(first.app)
        BY <1>9, <2>1, <2>3, LaunchesKeeps DEF CheckQueued, Launches, isServerRunning
    <2> QED
        BY <2>2, <2>3
<1>10. CASE LaunchFails
    BY <1>10, IdleKeeps DEF LaunchFails, Finish, At
<1>11. ASSUME NEW p \in Server, ExitEvent(p) \/ WritesRecord(p) \/ IsReady(p) \/ Exits(p)
       PROVE  ServersInv'
    <2>1. CASE App = {}
        <3>1. instances = instances'
            BY <1>11, <2>1 DEF ExitEvent, EntriesWithout, WritesRecord, IsReady, Exits, hubVars, TypeInv
        <3>2. Live(p) \/ server[p].state = "exited"
            BY <1>11 DEF ExitEvent, WritesRecord, IsReady, Exits, Live
        <3> QED
            BY <2>1, <3>2 DEF ServersInv, AppInv, Live
    <2>2. CASE App # {}
        BY <1>11, <2>2, EventKeeps
    <2> QED
        BY <2>1, <2>2
<1>12. ASSUME NEW a \in App, ForgetDead(a)
       PROVE  ServersInv'
    <2>1. instances[a] \in Server
        BY <1>12 DEF ForgetDead, isManaged, TypeInv
    <2> QED
        BY <1>12, <2>1, EventKeeps
<1>13. CASE ReapedRemoved
    <2>1. removing.app \in App /\ removing.server \in Server
        BY <1>13 DEF ReapedRemoved, TypeInv
    <2> QED
        BY <1>13, <2>1, EventKeeps
<1>14. CASE Reap
    <2>1. tasks # <<>> /\ first.kind = "reap" /\ step = "reaping" /\ UNCHANGED <<instances, server>>
        BY <1>14 DEF Reap, At, Runs, ServersInv, ReapInv
    <2>2. CASE Finish
        BY <2>1, <2>2, IdleKeeps DEF Finish
    <2>3. CASE Stops(instances[first.app])
        BY <2>1, <2>3, StopsKeeps DEF Stops, ServersInv, ReapInv
    <2> QED
        BY <1>14, <2>2, <2>3 DEF Reap
<1> QED
    BY <1>2, <1>3, <1>4, <1>5, <1>6, <1>7, <1>8, <1>9, <1>10, <1>11, <1>12, <1>13, <1>14,
       DescribeKeeps, StoppedKeeps, SpawnKeeps, RegisterKeeps, AdoptKeeps, CrashKeeps
       DEF Next, TaskStep

-----------------------------------------------------------------------------
(* Types and slots *)

\* The types in three parts: the servers and their entries, the slots, and the queue.
EntriesTyped == /\ hub \in {"up", "down"} /\ instances \in [App -> Server \cup {None}]
                /\ server \in [Server -> ServerRecord] /\ yaml \subseteq App
                /\ removing \in {NotRemoving} \cup [app : App, server : Server]
QueueTyped == /\ tasks \in Seq(KnownTask)
              /\ step \in {"idle", "reaping", "stopping", "launch", "spawned"}
              /\ target \in Server \cup {None}

LEMMA TypeParts == /\ TypeInv <=> EntriesTyped /\ Start!SlotsTypeOK /\ QueueTyped
                   /\ TypeInv' <=> EntriesTyped' /\ Start!SlotsTypeOK' /\ QueueTyped'
    BY DEF TypeInv, EntriesTyped, QueueTyped

SlotsKept == \A a \in App : holders[a] = Taken =>
    (step \in {"launch", "spawned"} /\ first.app = a) \/ Pending(a)
LEMMA SlotsKeptIsPending == TakenIsPending <=> SlotsKept
    BY DEF TakenIsPending, SlotsKept, Pending

\* What an action of the first task leaves of the queue and the slots.
LEMMA DescribeTyped ==
    ASSUME TypeInv, DownInv, ServersInv, SlotsKept, Describe
    PROVE  Start!SlotsTypeOK' /\ QueueTyped' /\ SlotsKept'
<1>1. tasks # <<>> /\ step = "idle" /\ first.kind = "start" /\ first.app \in App
      /\ Tail(tasks) \in Seq(KnownTask)
    BY FirstFacts DEF Describe, At, Runs, ServersInv
<1>2. EntriesTyped /\ Start!SlotsTypeOK /\ QueueTyped
    BY TypeParts
<1>3. CASE Finish /\ UNCHANGED <<holders, waiting>>
    <2>1. tasks' = Tail(tasks) /\ step' = "idle" /\ target' = None
        BY <1>3 DEF Finish
    <2>2. \A a \in App : Pending(a) => Pending(a)'
        BY <1>1, <1>2, <2>1, FinishKeepsPending DEF QueueTyped
    <2> QED
        BY <1>1, <1>2, <1>3, <2>1, <2>2 DEF QueueTyped, SlotsKept, Start!SlotsTypeOK
<1>4. CASE Stops(instances[first.app]) /\ UNCHANGED <<holders, waiting>>
    BY <1>1, <1>2, <1>4 DEF Stops, QueueTyped, EntriesTyped, SlotsKept, Pending, Start!SlotsTypeOK
<1>5. CASE TakeSlot(holders, instances)
    <2>1. holders \in [App -> Server \cup {Free, Taken}]
        BY <1>2 DEF Start!SlotsTypeOK
    <2>2. /\ Start!SlotsTypeOK' /\ tasks' \in Seq(KnownTask) /\ target' = None
          /\ \/ step' = "launch" /\ tasks' = tasks
             \/ step' = "idle" /\ tasks' = Tail(tasks)
          /\ \A a \in App : holders'[a] = Taken =>
                 holders[a] = Taken \/ (a = first.app /\ step' = "launch")
        BY <1>1, <1>5, <2>1, TakeSlotFacts
    <2>3. \A a \in App : Pending(a) => Pending(a)'
        BY <1>1, <1>2, <2>2, FinishKeepsPending DEF QueueTyped, Pending
    <2> QED
        BY <1>1, <2>2, <2>3 DEF QueueTyped, SlotsKept, first
<1> QED
    BY <1>3, <1>4, <1>5 DEF Describe

LEMMA StoppedTyped ==
    ASSUME TypeInv, DownInv, ServersInv, SlotsKept, Stopped
    PROVE  EntriesTyped' /\ Start!SlotsTypeOK' /\ QueueTyped' /\ SlotsKept'
<1> USE HolderAssumption
<1> DEFINE a == first.app
           h == IF target = None THEN holders ELSE [holders EXCEPT ![a] = Free]
           entries == IF target = None THEN instances ELSE [instances EXCEPT ![a] = None]
<1>1. tasks # <<>> /\ step = "stopping" /\ first.kind # "adopt" /\ a \in App
      /\ Tail(tasks) \in Seq(KnownTask)
    BY FirstFacts DEF Stopped, At, FirstInv, ServersInv
<1>2. EntriesTyped /\ Start!SlotsTypeOK /\ QueueTyped
    BY TypeParts
<1>3. EntriesTyped'
    BY <1>1, <1>2 DEF EntriesTyped, Stopped
<1>4. h \in [App -> Server \cup {Free, Taken}] /\ \A b \in App : h[b] = Taken => holders[b] = Taken
    BY <1>1, <1>2 DEF Start!SlotsTypeOK
<1>5. CASE Runs("start")
    <2>1. TakeSlot(h, entries)
        BY <1>5 DEF Stopped
    <2> HIDE DEF h, entries
    <2>2. /\ Start!SlotsTypeOK' /\ tasks' \in Seq(KnownTask) /\ target' = None
          /\ \/ step' = "launch" /\ tasks' = tasks
             \/ step' = "idle" /\ tasks' = Tail(tasks)
          /\ \A b \in App : holders'[b] = Taken => h[b] = Taken \/ (b = a /\ step' = "launch")
        BY <1>1, <1>4, <2>1, TakeSlotFacts
    <2>3. \A b \in App : Pending(b) => Pending(b)'
        BY <1>1, <1>2, <1>5, <2>2, FinishKeepsPending DEF QueueTyped, Pending, Runs
    <2> QED
        BY <1>1, <1>3, <1>4, <2>2, <2>3 DEF QueueTyped, SlotsKept, first
<1>6. CASE ~Runs("start")
    <2>1. holders' = h /\ waiting' = waiting /\ tasks' = Tail(tasks) /\ step' = "idle" /\ target' = None
        BY <1>6 DEF Stopped, Finish
    <2>2. first.kind # "queued"
        BY <1>1 DEF ServersInv, StopInv, Runs
    <2>3. \A b \in App : Pending(b) => Pending(b)'
        BY <1>1, <1>2, <2>1, <2>2, FinishKeepsPending DEF QueueTyped
    <2>4. Start!SlotsTypeOK'
        BY <1>2, <1>4, <2>1 DEF Start!SlotsTypeOK
    <2>5. QueueTyped'
        BY <1>1, <2>1 DEF QueueTyped
    <2> HIDE DEF h
    <2>6. SlotsKept'
        BY <1>1, <1>4, <2>1, <2>3 DEF SlotsKept
    <2> QED
        BY <1>3, <2>4, <2>5, <2>6
<1> QED
    BY <1>5, <1>6

LEMMA QueuedTyped ==
    ASSUME TypeInv, DownInv, ServersInv, SlotsKept,
           CheckQueued \/ LaunchFails \/ Spawn \/ Register
    PROVE  EntriesTyped' /\ Start!SlotsTypeOK' /\ QueueTyped' /\ SlotsKept'
<1> USE HolderAssumption
<1> DEFINE a == first.app
<1>1. tasks # <<>> /\ a \in App /\ Tail(tasks) \in Seq(KnownTask)
    BY FirstFacts DEF CheckQueued, LaunchFails, Spawn, Register, At, Runs, FirstInv, ServersInv
<1>2. EntriesTyped /\ Start!SlotsTypeOK /\ QueueTyped
    BY TypeParts
<1>3. ASSUME tasks' = Tail(tasks)
      PROVE  \A b \in App : Pending(b) /\ b # a => Pending(b)'
    BY <1>1, <1>2, <1>3, FinishKeepsPending DEF QueueTyped
<1>4. CASE CheckQueued
    <2>1. step = "idle" /\ first.kind = "queued" /\ waiting' = waiting
          /\ UNCHANGED <<hub, instances, removing, server, yaml>>
        BY <1>4 DEF CheckQueued, At, Runs
    <2>2. CASE isServerRunning(a)
        <3>1. /\ holders' = [holders EXCEPT ![a] = Free]
              /\ tasks' = Tail(tasks) /\ step' = "idle" /\ target' = None
            BY <1>4, <2>2 DEF CheckQueued, Start!release, Finish
        <3> QED
            BY <1>1, <1>2, <1>3, <2>1, <3>1
               DEF EntriesTyped, QueueTyped, Start!SlotsTypeOK, SlotsKept
    <2>3. CASE ~isServerRunning(a)
        <3>1. UNCHANGED <<holders, tasks>> /\ step' = "launch" /\ target' = None
            BY <1>4, <2>3 DEF CheckQueued, Launches
        <3> QED
            BY <1>2, <2>1, <3>1
               DEF EntriesTyped, QueueTyped, Start!SlotsTypeOK, SlotsKept, Pending, first
    <2> QED
        BY <2>2, <2>3
<1>5. CASE LaunchFails
    <2>1. /\ step = "launch" /\ waiting' = waiting
          /\ holders' = [holders EXCEPT ![a] = Free]
          /\ tasks' = Tail(tasks) /\ step' = "idle" /\ target' = None
          /\ UNCHANGED <<hub, instances, removing, server, yaml>>
        BY <1>5 DEF LaunchFails, At, Start!release, Finish
    <2> QED
        BY <1>1, <1>2, <1>3, <2>1 DEF EntriesTyped, QueueTyped, Start!SlotsTypeOK, SlotsKept
<1>6. CASE Spawn
    <2>1. PICK p \in Server :
              /\ target' = p
              /\ server' = [server EXCEPT ![p] =
                    [app |-> a, child |-> TRUE, lost |-> FALSE, state |-> "launched"]]
        BY <1>6 DEF Spawn
    <2>2. /\ step = "launch" /\ step' = "spawned"
          /\ UNCHANGED <<hub, instances, tasks, removing, holders, waiting, yaml>>
        BY <1>6 DEF Spawn, At
    <2>3. server' \in [Server -> ServerRecord]
        BY <1>1, <1>2, <2>1 DEF EntriesTyped, ServerRecord
    <2> QED
        BY <1>2, <2>1, <2>2, <2>3
           DEF EntriesTyped, QueueTyped, Start!SlotsTypeOK, SlotsKept, Pending, first
<1>7. CASE Register
    <2>1. step = "spawned" /\ target \in Server
        BY <1>7 DEF Register, At, ServersInv, SpawnInv
    <2>2. /\ instances' \in [App -> Server \cup {None}]
          /\ UNCHANGED <<hub, removing, server, waiting, yaml>>
        BY <1>1, <1>2, <1>7, <2>1 DEF Register, EntriesTyped
    <2>3. PICK x \in {Free, target} : holders' = [holders EXCEPT ![a] = x]
        BY <1>7 DEF Register, Start!hold
    <2>4. tasks' = Tail(tasks) /\ step' = "idle" /\ target' = None
        BY <1>7 DEF Register, Finish
    <2> QED
        BY <1>1, <1>2, <1>3, <2>1, <2>2, <2>3, <2>4
           DEF EntriesTyped, QueueTyped, Start!SlotsTypeOK, SlotsKept
<1> QED
    BY <1>4, <1>5, <1>6, <1>7

LEMMA AdoptTyped ==
    ASSUME TypeInv, DownInv, ServersInv, SlotsKept, Adopt
    PROVE  EntriesTyped' /\ Start!SlotsTypeOK' /\ QueueTyped' /\ SlotsKept'
<1> USE HolderAssumption
<1>1. tasks # <<>> /\ first.kind = "adopt" /\ Tail(tasks) \in Seq(KnownTask) /\ step = "idle"
      /\ tasks' = Tail(tasks) /\ step' = "idle" /\ target' = None
      /\ UNCHANGED <<hub, removing, server, waiting, yaml>>
    BY FirstFacts DEF Adopt, At, Runs, ServersInv, Finish
<1>2. EntriesTyped /\ Start!SlotsTypeOK /\ QueueTyped
    BY TypeParts
<1>3. \A b \in App : Pending(b) => Pending(b)'
    BY <1>1, <1>2, FinishKeepsPending DEF QueueTyped
<1>4. instances' \in [App -> Server \cup {None}]
    BY <1>2 DEF Adopt, EntriesTyped
<1>5. /\ holders' \in [App -> Server \cup {Free, Taken}]
      /\ \A a \in App : holders'[a] = Taken => holders[a] = Taken
    BY <1>2, NoneAssumption DEF Adopt, EntriesTyped, Start!SlotsTypeOK, isManagedAlive, isManaged
<1> QED
    BY <1>1, <1>2, <1>3, <1>4, <1>5 DEF EntriesTyped, QueueTyped, Start!SlotsTypeOK, SlotsKept

\* Tasks that are put at the end of the queue.
LEMMA GrowthTyped ==
    ASSUME TypeInv, SlotsKept, ServersInv,
           EntriesTyped', tasks' \in Seq(KnownTask), waiting' \in Seq(App),
           UNCHANGED <<step, target, holders>>,
           tasks # <<>> => tasks' # <<>> /\ Head(tasks') = Head(tasks),
           \A i \in DOMAIN tasks : i \in DOMAIN tasks' /\ tasks'[i] = tasks[i]
    PROVE  TypeInv' /\ SlotsKept'
<1>1. Start!SlotsTypeOK /\ QueueTyped
    BY TypeParts
<1>2. Start!SlotsTypeOK' /\ QueueTyped'
    BY <1>1 DEF Start!SlotsTypeOK, QueueTyped
<1>3. \A a \in App : Pending(a) => Pending(a)'
    BY GrowthKeepsPending
<1>4. step # "idle" => first' = first
    BY DEF ServersInv, FirstInv, first
<1>5. SlotsKept'
    BY <1>3, <1>4 DEF SlotsKept
<1> QED
    BY <1>2, <1>5, TypeParts

LEMMA CallTyped ==
    ASSUME TypeInv, SlotsKept, ServersInv, NEW a \in App,
           \/ \E restart \in BOOLEAN : StartCall(a, restart)
           \/ StopCall(a) \/ ReapIdle(a) \/ ReapRemoved(a) \/ YamlComesAndGoes(a) \/ ForgetDead(a)
    PROVE  TypeInv' /\ SlotsKept'
<1>1. EntriesTyped /\ waiting \in Seq(App) /\ tasks \in Seq(KnownTask)
    BY TypeParts DEF Start!SlotsTypeOK, QueueTyped
<1>2. CASE \E restart \in BOOLEAN : StartCall(a, restart)
    <2>1. PICK restart \in BOOLEAN : StartCall(a, restart)
        BY <1>2
    <2>2. StartTask(a, restart) \in KnownTask
        BY DEF StartTask, NewTask, KnownTask, Task
    <2>3. tasks' = Append(tasks, StartTask(a, restart))
          /\ UNCHANGED <<hub, instances, step, target, removing, server, holders, waiting, yaml>>
        BY <2>1 DEF StartCall
    <2>4. EntriesTyped'
        BY <1>1, <2>3 DEF EntriesTyped
    <2> QED
        BY <1>1, <2>2, <2>3, <2>4, AppendOneFacts, GrowthTyped
<1>3. CASE StopCall(a)
    <2>1. UNCHANGED <<hub, instances, step, target, removing, server, holders, yaml>>
        BY <1>3 DEF StopCall
    <2>2. EntriesTyped'
        BY <1>1, <2>1 DEF EntriesTyped
    <2>3. CASE Start!Queued(a)
        <3>1. waiting' \in Seq(App) /\ tasks' = tasks
            BY <1>1, <1>3, <2>3, DequeueFacts DEF StopCall
        <3> QED
            BY <1>1, <2>1, <2>2, <3>1, GrowthTyped
    <2>4. CASE ~Start!Queued(a)
        <3>1. tasks' = Append(tasks, NewTask("stop", a)) /\ waiting' = waiting
            BY <1>3, <2>4 DEF StopCall
        <3>2. NewTask("stop", a) \in KnownTask
            BY DEF NewTask, KnownTask, Task
        <3> QED
            BY <1>1, <2>1, <2>2, <3>1, <3>2, AppendOneFacts, GrowthTyped
    <2> QED
        BY <2>3, <2>4
<1>4. CASE ReapIdle(a)
    <2> DEFINE t == [NewTask("reap", a) EXCEPT !.server = instances[a]]
    <2>1. tasks' = Append(tasks, t) /\ instances[a] # None
          /\ UNCHANGED <<hub, instances, step, target, removing, server, holders, waiting, yaml>>
        BY <1>4 DEF ReapIdle, isManaged
    <2>2. t \in KnownTask
        BY <1>1, <2>1 DEF EntriesTyped, NewTask, KnownTask, Task
    <2>3. EntriesTyped'
        BY <1>1, <2>1 DEF EntriesTyped
    <2> HIDE DEF t
    <2> QED
        BY <1>1, <2>1, <2>2, <2>3, AppendOneFacts, GrowthTyped
<1>5. CASE ReapRemoved(a) \/ YamlComesAndGoes(a) \/ ForgetDead(a)
    <2>1. UNCHANGED <<tasks, step, target, holders, waiting>>
        BY <1>5 DEF ReapRemoved, YamlComesAndGoes, ForgetDead, hubVars
    <2>2. EntriesTyped'
        BY <1>1, <1>5 DEF ReapRemoved, YamlComesAndGoes, ForgetDead, hubVars, EntriesTyped,
                          isManagedAlive, isManaged
    <2> QED
        BY <1>1, <2>1, <2>2, GrowthTyped
<1> QED
    BY <1>2, <1>3, <1>4, <1>5

LEMMA TickTyped ==
    ASSUME TypeInv, SlotsKept, ServersInv, EntriesTyped', NEW late, NEW entries,
           TickWith(late, entries), UNCHANGED <<step, target>>
    PROVE  TypeInv' /\ SlotsKept'
<1>1. QueueTyped
    BY TypeParts
<1>2. /\ Start!SlotsTypeOK' /\ tasks' \in Seq(KnownTask)
      /\ tasks # <<>> => tasks' # <<>> /\ Head(tasks') = Head(tasks)
      /\ \A i \in DOMAIN tasks : i \in DOMAIN tasks' /\ tasks'[i] = tasks[i]
      /\ \A a \in App : holders'[a] = Taken => holders[a] = Taken \/ Pending(a)'
    BY TickFacts
<1>3. \A a \in App : Pending(a) => Pending(a)'
    BY <1>2, GrowthKeepsPending
<1>4. step # "idle" => first' = first
    BY <1>2 DEF ServersInv, FirstInv, first
<1>5. SlotsKept'
    BY <1>2, <1>3, <1>4 DEF SlotsKept
<1>6. QueueTyped'
    BY <1>1, <1>2 DEF QueueTyped
<1> QED
    BY <1>2, <1>5, <1>6, TypeParts

LEMMA EventTyped ==
    ASSUME TypeInv, SlotsKept, ServersInv, NEW p \in Server,
           \/ ExitEvent(p) \/ WritesRecord(p) \/ IsReady(p) \/ Exits(p) \/ ReapedRemoved
    PROVE  TypeInv' /\ SlotsKept'
<1>1. EntriesTyped /\ waiting \in Seq(App) /\ tasks \in Seq(KnownTask)
    BY TypeParts DEF Start!SlotsTypeOK, QueueTyped
<1>2. CASE ExitEvent(p)
    <2>1. server' \in [Server -> ServerRecord]
        BY <1>1, <1>2 DEF ExitEvent, EntriesTyped, ServerRecord, NoServer
    <2>2. instances' \in [App -> Server \cup {None}]
        BY <1>1, <1>2 DEF ExitEvent, EntriesTyped, EntriesWithout
    <2>3. EntriesTyped'
        BY <1>1, <1>2, <2>1, <2>2 DEF ExitEvent, EntriesTyped
    <2> QED
        BY <1>2, <2>3, TickTyped DEF ExitEvent
<1>3. CASE WritesRecord(p) \/ IsReady(p) \/ Exits(p)
    <2>1. UNCHANGED <<hub, instances, removing, yaml, tasks, step, target, holders, waiting>>
        BY <1>3 DEF WritesRecord, IsReady, Exits, hubVars
    <2>2. server' \in [Server -> ServerRecord]
        <3>1. server \in [Server -> ServerRecord]
            BY <1>1 DEF EntriesTyped
        <3>2. NoServer \in ServerRecord
            BY DEF NoServer, ServerRecord
        <3>3. \A s \in {"starting", "ready", "exited"} : [server[p] EXCEPT !.state = s] \in ServerRecord
            BY <3>1 DEF ServerRecord
        <3>4. CASE WritesRecord(p)
            BY <3>1, <3>3, <3>4 DEF WritesRecord
        <3>5. CASE IsReady(p)
            BY <3>1, <3>3, <3>5 DEF IsReady
        <3>6. CASE Exits(p)
            BY <3>1, <3>2, <3>3, <3>6 DEF Exits
        <3> QED
            BY <1>3, <3>4, <3>5, <3>6
    <2>3. EntriesTyped'
        BY <1>1, <2>1, <2>2 DEF EntriesTyped
    <2> QED
        BY <1>1, <2>1, <2>3, GrowthTyped
<1>4. CASE ReapedRemoved
    <2>1. UNCHANGED <<hub, yaml, tasks, step, target, holders, waiting>> /\ removing' = NotRemoving
        BY <1>4 DEF ReapedRemoved
    <2>2. server' \in [Server -> ServerRecord]
        <3>1. server \in [Server -> ServerRecord]
            BY <1>1 DEF EntriesTyped
        <3>2. removing.app \in App /\ instances[removing.app] \in Server \cup {None}
            BY <1>1, <1>4 DEF ReapedRemoved, EntriesTyped
        <3>3. \A q \in Server : [server[q] EXCEPT !.lost = TRUE] \in ServerRecord
            BY <3>1 DEF ServerRecord
        <3> QED
            BY <1>4, <3>1, <3>2, <3>3 DEF ReapedRemoved
    <2>3. instances' \in [App -> Server \cup {None}]
        BY <1>1, <1>4 DEF ReapedRemoved, EntriesTyped
    <2>4. EntriesTyped'
        BY <1>1, <2>1, <2>2, <2>3 DEF EntriesTyped
    <2> QED
        BY <1>1, <2>1, <2>4, GrowthTyped
<1> QED
    BY <1>2, <1>3, <1>4

LEMMA CrashTyped ==
    ASSUME TypeInv, DownInv, SlotsKept, Crash \/ Recover
    PROVE  TypeInv' /\ SlotsKept'
<1> USE HolderAssumption
<1>1. EntriesTyped /\ Start!SlotsTypeOK /\ QueueTyped
    BY TypeParts
<1>2. CASE Crash
    <2>1. server' \in [Server -> ServerRecord]
        <3> SUFFICES ASSUME NEW p \in Server
                     PROVE  (IF Live(p) THEN [server[p] EXCEPT !.child = FALSE,
                                  !.lost = @ \/ instances[server[p].app] # p]
                             ELSE NoServer) \in ServerRecord
            BY <1>2 DEF Crash
        <3>1. server[p] \in ServerRecord
            BY <1>1 DEF EntriesTyped
        <3> QED
            BY <3>1 DEF ServerRecord, NoServer
    <2>2. EntriesTyped'
        BY <1>1, <1>2, <2>1 DEF Crash, EntriesTyped
    <2>3. /\ holders' = [a \in App |-> Free] /\ waiting' = <<>>
          /\ tasks' = <<>> /\ step' = "idle" /\ target' = None
        BY <1>2 DEF Crash
    <2>4. Start!SlotsTypeOK'
        BY <2>3 DEF Start!SlotsTypeOK
    <2>5. QueueTyped'
        BY <2>3 DEF QueueTyped
    <2>6. SlotsKept'
        BY <2>3 DEF SlotsKept
    <2> QED
        BY <2>2, <2>4, <2>5, <2>6, TypeParts
<1>3. CASE Recover
    <2>1. NewTask("adopt", None) \in KnownTask
        BY DEF NewTask, KnownTask, Task
    <2>2. EntriesTyped' /\ Start!SlotsTypeOK' /\ QueueTyped'
        BY <1>1, <1>3, <2>1 DEF Recover, EntriesTyped, Start!SlotsTypeOK, QueueTyped
    <2>3. \A a \in App : holders'[a] # Taken
        BY <1>3 DEF Recover, DownInv, SlotsKept, Pending
    <2> QED
        BY <2>2, <2>3, TypeParts DEF SlotsKept
<1> QED
    BY <1>2, <1>3

LEMMA TypesKept ==
    ASSUME TypeInv, DownInv, ServersInv, SlotsKept, [Next]_vars
    PROVE  TypeInv' /\ SlotsKept'
<1>1. EntriesTyped
    BY TypeParts
<1>2. CASE BeginStop \/ BeginReap \/ Reap
    <2>1. /\ tasks # <<>> /\ step \in {"idle", "reaping"}
          /\ first.kind # "queued" /\ first.kind # "adopt"
          /\ UNCHANGED <<hub, instances, removing, server, holders, waiting, yaml>>
        BY <1>2 DEF BeginStop, BeginReap, Reap, At, Runs, ServersInv, ReapInv
    <2>2. first.app \in App /\ Tail(tasks) \in Seq(KnownTask)
        BY <2>1, FirstFacts DEF ServersInv
    <2>3. \/ Finish \/ Stops(instances[first.app])
          \/ step' = "reaping" /\ UNCHANGED <<tasks, target>>
        BY <1>2 DEF BeginStop, BeginReap, Reap
    <2>4. QueueTyped /\ Start!SlotsTypeOK
        BY TypeParts
    <2>5. QueueTyped'
        BY <1>1, <2>2, <2>3, <2>4 DEF QueueTyped, EntriesTyped, Finish, Stops
    <2>6. \A a \in App : Pending(a) => Pending(a)'
        BY <2>1, <2>3, <2>4, FinishKeepsPending DEF Pending, QueueTyped, Finish, Stops
    <2>7. SlotsKept'
        BY <2>1, <2>6 DEF SlotsKept
    <2>8. EntriesTyped' /\ Start!SlotsTypeOK'
        BY <1>1, <2>1, <2>4 DEF EntriesTyped, Start!SlotsTypeOK
    <2> QED
        BY <2>5, <2>7, <2>8, TypeParts
<1>3. CASE Describe
    <2>1. EntriesTyped'
        BY <1>1, <1>3 DEF Describe, EntriesTyped
    <2> QED
        BY <1>3, <2>1, DescribeTyped, TypeParts
<1>4. CASE UNCHANGED vars
    BY <1>4 DEF vars, hubVars, TypeInv, SlotsKept, Pending, first, Start!SlotsTypeOK
<1>5. ASSUME NEW late \in Overdue, Tick(late)
      PROVE  TypeInv' /\ SlotsKept'
    <2>1. EntriesTyped'
        BY <1>1, <1>5 DEF Tick, EntriesTyped
    <2> QED
        BY <1>5, <2>1, TickTyped DEF Tick
<1>6. CASE ReapedRemoved
    <2>1. removing.server \in Server
        BY <1>6 DEF ReapedRemoved, TypeInv
    <2> QED
        BY <1>6, <2>1, EventTyped
<1> QED
    BY <1>2, <1>3, <1>4, <1>5, <1>6, CallTyped, EventTyped, CrashTyped, TypeParts,
       StoppedTyped, QueuedTyped, AdoptTyped DEF Next, TaskStep

\* Nothing runs while there is no hub.
LEMMA DownKept ==
    ASSUME TypeInv, DownInv, [Next]_vars
    PROVE  DownInv'
<1>1. server \in [Server -> ServerRecord]
    BY DEF TypeInv
<1>2. CASE Crash
    <2>1. \A p \in Server : ~server'[p].child /\ server'[p].state # "exited"
        BY <1>1, <1>2 DEF Crash, ServerRecord, NoServer, Live
    <2> QED
        BY <1>2, <2>1 DEF Crash, DownInv
<1>3. CASE Recover
    BY <1>3 DEF Recover, DownInv
<1>4. ASSUME NEW p \in Server, hub = "down",
             WritesRecord(p) \/ IsReady(p) \/ Exits(p)
      PROVE  DownInv'
    <2>1. UNCHANGED <<hub, step, tasks>>
        BY <1>4 DEF WritesRecord, IsReady, Exits, hubVars
    <2>2. \A q \in Server : ~server'[q].child /\ server'[q].state # "exited"
        BY <1>1, <1>4 DEF WritesRecord, IsReady, Exits, ServerRecord, NoServer, DownInv
    <2> QED
        BY <1>4, <2>1, <2>2 DEF DownInv
<1>5. CASE ReapedRemoved /\ hub = "down"
    <2>1. UNCHANGED <<hub, step, tasks>>
        BY <1>5 DEF ReapedRemoved
    <2>2. \A q \in Server : ~server'[q].child /\ server'[q].state # "exited"
        BY <1>1, <1>5 DEF ReapedRemoved, ServerRecord, DownInv
    <2> QED
        BY <1>5, <2>1, <2>2 DEF DownInv
<1>6. CASE UNCHANGED vars \/ \E a \in App : YamlComesAndGoes(a)
    BY <1>6 DEF vars, hubVars, YamlComesAndGoes, DownInv
<1>7. CASE hub = "up" /\ hub' = "up"
    BY <1>7 DEF DownInv
<1>8. ASSUME NEW p \in Server, ExitEvent(p)
      PROVE  hub = "up" /\ hub' = "up"
    BY <1>8 DEF ExitEvent, DownInv, TypeInv
<1>9. ASSUME TaskStep PROVE hub = "up" /\ hub' = "up"
    BY <1>9 DEF TaskStep, Adopt, Describe, BeginStop, BeginReap, Reap, Stopped,
                CheckQueued, LaunchFails, Spawn, Register, At
<1>10. ASSUME NEW a \in App, \/ \E restart \in BOOLEAN : StartCall(a, restart)
                             \/ StopCall(a) \/ ForgetDead(a) \/ ReapIdle(a) \/ ReapRemoved(a)
       PROVE  hub = "up" /\ hub' = "up"
    BY <1>10 DEF StartCall, StopCall, ForgetDead, ReapIdle, ReapRemoved, CanReap, CanCall
<1>11. ASSUME NEW late \in Overdue, Tick(late) PROVE hub = "up" /\ hub' = "up"
    BY <1>11 DEF Tick
<1>12. ASSUME NEW p \in Server, hub = "up", WritesRecord(p) \/ IsReady(p) \/ Exits(p)
       PROVE  hub' = "up"
    BY <1>12 DEF WritesRecord, IsReady, Exits, hubVars
<1>13. ASSUME hub = "up", ReapedRemoved PROVE hub' = "up"
    BY <1>13 DEF ReapedRemoved
<1>14. hub \in {"up", "down"}
    BY DEF TypeInv
<1> QED
    BY <1>2, <1>3, <1>4, <1>5, <1>6, <1>7, <1>8, <1>9, <1>10, <1>11, <1>12, <1>13, <1>14 DEF Next

\* The reaper queues a reap only while it stops no server of a removed app.
LEMMA RemovingKept ==
    ASSUME TypeInv, RemovingInv, [Next]_vars
    PROVE  RemovingInv'
<1>1. tasks \in Seq(KnownTask)
    BY DEF TypeInv
<1>2. ASSUME removing' = removing, tasks' = tasks PROVE RemovingInv'
    BY <1>2 DEF RemovingInv
<1>3. ASSUME removing' = removing, tasks # <<>>, tasks' = Tail(tasks) PROVE RemovingInv'
    BY <1>1, <1>3, QueueFacts DEF RemovingInv
<1>4. ASSUME removing' = removing, NEW t \in KnownTask, tasks' = Append(tasks, t), t.kind # "reap"
      PROVE  RemovingInv'
    <2>1. \A i \in DOMAIN tasks' : (i \in DOMAIN tasks /\ tasks'[i] = tasks[i]) \/ tasks'[i] = t
        BY <1>1, <1>4
    <2> QED
        BY <1>4, <2>1 DEF RemovingInv
<1>5. ASSUME removing' = removing, NEW late, NEW entries, TickWith(late, entries)
      PROVE  RemovingInv'
    <2>1. PICK k \in 0..Len(waiting) :
              tasks' = tasks \o [i \in 1..k |-> NewTask("queued", waiting[i])]
        BY <1>5 DEF TickWith
    <2>2. waiting \in Seq(App)
        BY DEF TypeInv, Start!SlotsTypeOK
    <2> DEFINE more == [i \in 1..k |-> NewTask("queued", waiting[i])]
    <2>3. more \in Seq(KnownTask) /\ \A i \in DOMAIN more : more[i].kind = "queued"
        BY <2>2 DEF NewTask, KnownTask, Task
    <2> HIDE DEF more
    <2>4. \A i \in DOMAIN tasks' : \/ i \in DOMAIN tasks /\ tasks'[i] = tasks[i]
                                   \/ \E j \in DOMAIN more : tasks'[i] = more[j]
        <3> SUFFICES ASSUME NEW i \in DOMAIN tasks', i \notin DOMAIN tasks
                     PROVE  \E j \in DOMAIN more : tasks'[i] = more[j]
            BY <1>1, <2>1, <2>3 DEF more
        <3>1. tasks' = tasks \o more
            BY <2>1 DEF more
        <3>2. i - Len(tasks) \in DOMAIN more /\ tasks'[i] = more[i - Len(tasks)]
            BY <1>1, <2>3, <3>1
        <3> QED
            BY <3>2
    <2> QED
        BY <1>5, <2>3, <2>4 DEF RemovingInv
<1>6. ASSUME removing' = NotRemoving PROVE RemovingInv'
    BY <1>6 DEF RemovingInv
<1>7. ASSUME NEW a \in App, \/ \E restart \in BOOLEAN : StartCall(a, restart)
                            \/ StopCall(a)
      PROVE  RemovingInv'
    <2>1. removing' = removing
        BY <1>7 DEF StartCall, StopCall
    <2>2. tasks' = tasks \/ \E t \in KnownTask : t.kind # "reap" /\ tasks' = Append(tasks, t)
        <3>1. CASE \E restart \in BOOLEAN : StartCall(a, restart)
            BY <3>1 DEF StartCall, StartTask, NewTask, KnownTask, Task
        <3>2. CASE StopCall(a)
            BY <3>2 DEF StopCall, NewTask, KnownTask, Task
        <3> QED
            BY <1>7, <3>1, <3>2
    <2> QED
        BY <1>2, <1>4, <2>1, <2>2
<1>8. ASSUME NEW a \in App, ReapIdle(a) PROVE RemovingInv'
    BY <1>6, <1>8 DEF ReapIdle, CanReap
<1>9. ASSUME NEW a \in App, ReapRemoved(a) PROVE RemovingInv'
    BY <1>9 DEF ReapRemoved, CanReap, RemovingInv
<1>10. ASSUME NEW a \in App, ForgetDead(a) \/ YamlComesAndGoes(a) PROVE RemovingInv'
    BY <1>2, <1>10 DEF ForgetDead, YamlComesAndGoes, hubVars
<1>11. ASSUME NEW p \in Server, WritesRecord(p) \/ IsReady(p) \/ Exits(p) PROVE RemovingInv'
    BY <1>2, <1>11 DEF WritesRecord, IsReady, Exits, hubVars
<1>12. ASSUME NEW p \in Server, ExitEvent(p) PROVE RemovingInv'
    BY <1>5, <1>12 DEF ExitEvent
<1>13. ASSUME NEW late \in Overdue, Tick(late) PROVE RemovingInv'
    BY <1>5, <1>13 DEF Tick
<1>14. CASE ReapedRemoved \/ Crash
    BY <1>6, <1>14 DEF ReapedRemoved, Crash
<1>15. CASE Recover \/ UNCHANGED vars
    <2>1. CASE Recover
        BY <2>1 DEF Recover, RemovingInv, NewTask
    <2> QED
        BY <1>2, <1>15, <2>1 DEF vars, hubVars
<1>16. CASE TaskStep
    <2>1. tasks # <<>> /\ removing' = removing
        BY <1>16 DEF TaskStep, Adopt, Describe, BeginStop, BeginReap, Reap, Stopped,
                     CheckQueued, LaunchFails, Spawn, Register, At
    <2>2. tasks' = tasks \/ tasks' = Tail(tasks)
        BY <1>16 DEF TaskStep, Adopt, Describe, BeginStop, BeginReap, Reap, Stopped, CheckQueued,
                     LaunchFails, Spawn, Register, TakeSlot, Finish, Launches, Stops
    <2> QED
        BY <1>2, <1>3, <2>1, <2>2
<1> QED
    BY <1>7, <1>8, <1>9, <1>10, <1>11, <1>12, <1>13, <1>14, <1>15, <1>16 DEF Next

-----------------------------------------------------------------------------
LEMMA InitHolds == Init => IInv
<1> SUFFICES ASSUME Init PROVE IInv
    OBVIOUS
<1> USE HolderAssumption
<1>1. NewTask("adopt", None) \in KnownTask
    BY DEF NewTask, KnownTask, Task
<1>2. TypeInv
    BY <1>1 DEF Init, TypeInv, Start!SlotsInit, Start!SlotsTypeOK, ServerRecord, NoServer
<1>3. DownInv /\ ServersInv /\ RemovingInv /\ TakenIsPending
    BY DEF Init, Start!SlotsInit, NoServer, DownInv, ServersInv, FirstInv, StopInv, ReapInv, LaunchInv,
           SpawnInv, AppInv, TracksItsServers, RemovingInv, TakenIsPending, Live
<1> QED
    BY <1>2, <1>3 DEF IInv

THEOREM HubInvariant == Spec => []IInv
<1>1. IInv /\ [Next]_vars => IInv'
    <2> SUFFICES ASSUME IInv, [Next]_vars PROVE IInv'
        OBVIOUS
    <2>1. TypeInv' /\ SlotsKept'
        BY TypesKept, SlotsKeptIsPending DEF IInv
    <2>2. TakenIsPending'
        BY <2>1 DEF TakenIsPending, SlotsKept, Pending
    <2> QED
        BY <2>1, <2>2, DownKept, ServersKept, RemovingKept DEF IInv
<1> QED
    BY <1>1, InitHolds, PTL DEF Spec

(* For any apps, servers and tasks the hub's state is well typed, and a server that *)
(* is launched is known (createHub.js).                                             *)
THEOREM HubTypes == Spec => []TypeOK
<1>1. IInv => TypeOK
    <2> SUFFICES ASSUME IInv PROVE TypeOK
        OBVIOUS
    <2>1. tasks \in Seq(Task)
        BY DEF IInv, TypeInv, KnownTask
    <2>2. step = "spawned" => target # None
        BY NoneAssumption DEF IInv, ServersInv, SpawnInv
    <2>3. removing \in [app : App \cup {None}, server : Server \cup {None}]
        BY DEF IInv, TypeInv, NotRemoving
    <2> QED
        BY <2>1, <2>2, <2>3 DEF IInv, TypeInv, TypeOK
<1> QED
    BY <1>1, HubInvariant, PTL

(* Every live server the hub launched, but for those a crash or the reaper of       *)
(* removed apps lost, is in its registry or being launched (exit handler,           *)
(* forgetDeadServers, adoption).                                                    *)
THEOREM HubTracksItsServers == Spec => []TracksItsServers
<1>1. IInv => TracksItsServers
    BY DEF IInv, ServersInv
<1> QED
    BY <1>1, HubInvariant, PTL

(* No app ever gets a second server while the first lives: starts, restarts, queued *)
(* launches and adoption, in any order (serialize).                                 *)
THEOREM HubRunsOneServerPerApp == Spec => []OneServerPerApp
<1>1. IInv => OneServerPerApp
    <2> SUFFICES ASSUME IInv, NEW p \in Server, NEW q \in Server, Live(p), Live(q),
                        server[p].app = server[q].app, ~server[p].lost, ~server[q].lost
                 PROVE  p = q
        BY DEF OneServerPerApp
    <2> DEFINE a == server[p].app
    <2>1. /\ instances[a] = p \/ (step = "spawned" /\ target = p)
          /\ instances[a] = q \/ (step = "spawned" /\ target = q)
        BY DEF IInv, ServersInv, TracksItsServers
    <2>2. ASSUME NEW r \in Server, Live(r), server[r].app = a, step = "spawned", target = r
          PROVE  ~isManagedAlive(a)
        BY <2>2 DEF IInv, ServersInv, SpawnInv, LaunchInv, Live
    <2>3. ASSUME NEW r \in Server, Live(r), instances[a] = r
          PROVE  isManagedAlive(a)
        BY <2>3, NoneAssumption DEF isManagedAlive, isManaged
    <2> QED
        BY <2>1, <2>2, <2>3
<1> QED
    BY <1>1, HubInvariant, PTL

(* A slot that is taken for a launch is never leaked: its launch is coming          *)
(* (launchWithSlot, launchQueued).                                                  *)
THEOREM HubLeaksNoSlot == Spec => []TakenIsPending
<1>1. IInv => TakenIsPending
    BY DEF IInv
<1> QED
    BY <1>1, HubInvariant, PTL

(* The reaper stops the server it judged or, if that one has gone by itself, none,  *)
(* whatever came before it in the queue, exited or was forgotten (isUsedSince).     *)
THEOREM HubReapsWhatItJudged == Spec => []ReapsWhatItJudged
<1>1. IInv => ReapsWhatItJudged
    BY DEF IInv, ServersInv, StopInv, ReapsWhatItJudged
<1> QED
    BY <1>1, HubInvariant, PTL
=============================================================================
