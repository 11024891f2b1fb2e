-------------------------- MODULE DevManagerProofs --------------------------
(***************************************************************************)
(* What the dev server manager keeps for any children, requests, packages  *)
(* and bounds: its batches, and the one child it runs.                     *)
(***************************************************************************)
EXTENDS DevManager, SequenceTheorems, TLAPS

-----------------------------------------------------------------------------
(* What the batches of any watchers promise, whatever calls them when. *)
\* A batch's next states: a change comes, its timer fires, its call ends.
Moved(b, d) == \/ \E c \in Changes : d = Notified(b, c)
               \/ b.timer /\ d = Called(b)
               \/ b.running /\ d = Settled(b)

\* The invariant, of one batch.
Handled(b) == /\ b.args # {} => b.timer \/ b.repeat
              /\ b.busy <=> b.timer \/ b.running
              /\ ~(b.timer /\ b.running)
              /\ b.repeat => b.running

\* A step of the batches moves one batch of them and leaves the others.
LEMMA OneBatchMoves ==
    ASSUME BatchTypeOK, BatchNext
    PROVE  \E w \in Watchers, d \in Batches :
              /\ Moved(batch[w], d)
              /\ batch' = [batch EXCEPT ![w] = d]
<1>1. PICK w \in Watchers : \/ \E c \in Changes : NewChange(w, c)
                            \/ TimerFires(w)
                            \/ CallEnds(w)
    BY DEF BatchNext
<1>2. batch[w] \in Batches
    BY DEF BatchTypeOK
<1>3. CASE \E c \in Changes : NewChange(w, c)
    <2>1. PICK c \in Changes : batch' = [batch EXCEPT ![w] = Notified(@, c)]
        BY <1>3 DEF NewChange
    <2>2. Notified(batch[w], c) \in Batches
        BY <1>2 DEF Notified, Batches
    <2> QED
        BY <2>1, <2>2 DEF Moved
<1>4. CASE TimerFires(w)
    <2>1. Called(batch[w]) \in Batches
        BY <1>2 DEF Called, Batches
    <2> QED
        BY <1>4, <2>1 DEF TimerFires, Moved
<1>5. CASE CallEnds(w)
    <2>1. Settled(batch[w]) \in Batches
        BY <1>2 DEF Settled, Called, Batches
    <2> QED
        BY <1>5, <2>1 DEF CallEnds, Moved
<1> QED
    BY <1>1, <1>3, <1>4, <1>5

\* No move of a batch loses a change: the invariant of a batch is inductive.
LEMMA MovesKeepHandled ==
    ASSUME NEW b \in Batches, NEW d \in Batches, Handled(b), Moved(b, d)
    PROVE  Handled(d)
<1>1. CASE \E c \in Changes : d = Notified(b, c)
    BY <1>1 DEF Notified, Handled, Batches
<1>2. CASE b.timer /\ d = Called(b)
    BY <1>2 DEF Called, Handled, Batches
<1>3. CASE b.running /\ d = Settled(b)
    BY <1>3 DEF Settled, Called, Handled, Batches
<1> QED
    BY <1>1, <1>2, <1>3 DEF Moved

\* The batches keep their type, and handle every change: BatchChanges.mjs.
THEOREM BatchSafety == BatchSpec => [](BatchTypeOK /\ BatchesAreHandled)
<1> DEFINE Inv == BatchTypeOK /\ \A w \in Watchers : Handled(batch[w])
<1>1. BatchInit => Inv
    BY DEF BatchInit, BatchTypeOK, Batches, Handled
<1>2. Inv /\ [BatchNext]_batch => Inv'
    <2> SUFFICES ASSUME Inv, [BatchNext]_batch PROVE Inv'
        OBVIOUS
    <2>1. CASE BatchNext
        <3>1. PICK w \in Watchers, d \in Batches :
                  /\ Moved(batch[w], d)
                  /\ batch' = [batch EXCEPT ![w] = d]
            BY <2>1, OneBatchMoves
        <3>2. batch[w] \in Batches /\ Handled(batch[w])
            BY DEF BatchTypeOK
        <3>3. Handled(d)
            BY <3>1, <3>2, MovesKeepHandled
        <3>4. BatchTypeOK'
            BY <3>1 DEF BatchTypeOK
        <3>5. \A v \in Watchers : batch'[v] = IF v = w THEN d ELSE batch[v]
            BY <3>1 DEF BatchTypeOK
        <3>6. ASSUME NEW v \in Watchers PROVE Handled(batch'[v])
            BY <3>3, <3>5
        <3> QED
            BY <3>4, <3>6
    <2>2. CASE UNCHANGED batch
        BY <2>2 DEF BatchTypeOK
    <2> QED
        BY <2>1, <2>2
<1>3. Inv => BatchTypeOK /\ BatchesAreHandled
    BY DEF BatchesAreHandled, Handled
<1> QED
    BY <1>1, <1>2, <1>3, PTL DEF BatchSpec

-----------------------------------------------------------------------------
(* The type invariant, with the versions bounded by the edits so far. *)

TypeInv == /\ ManagerTypeOK
           /\ edits \in Versions
           /\ source.art <= edits /\ source.env <= edits

LEMMA InitTypeInv == Init => TypeInv
<1> USE ManagerAssumption
<1> SUFFICES ASSUME Init PROVE TypeInv
    OBVIOUS
<1>1. BatchTypeOK
    BY DEF Init, BatchInit, BatchTypeOK, Batches
<1>2. 0 \in Versions
    BY DEF Versions
<1>3. queue \in Seq(Tasks)
    <2>1. [kind |-> "first"] \in Tasks
        BY DEF Tasks
    <2> QED
        BY <2>1 DEF Init
<1>4. builds \in Seq(Builders)
    BY DEF Init
<1>5. source \in Sources /\ built \in Sources /\ disk \in Artifacts /\ tracker \in Artifacts
    BY <1>2 DEF Init, NoSource, Sources, Artifacts
<1>6. child \in [Children -> ChildProcesses]
    BY <1>2 DEF Init, NoChild, ChildProcesses
<1>7. call \in [Callers -> {"none", "build", "sync", "done"}]
    BY DEF Init
<1>8. edits = 0 /\ source.art = 0 /\ source.env = 0 /\ env = 0
    BY DEF Init, NoSource
<1>9. step \in Steps /\ {devServer, stopping, awaited} \subseteq Children \cup {None}
    BY DEF Init, Steps
<1>10. /\ lastBuildFailed \in BOOLEAN /\ stopped \in BOOLEAN /\ waking \in BOOLEAN
       /\ tab \in BOOLEAN /\ using = {} /\ installing = {} /\ installed = {}
    BY DEF Init
<1> QED
    BY <1>1, <1>2, <1>3, <1>4, <1>5, <1>6, <1>7, <1>8, <1>9, <1>10 DEF TypeInv, ManagerTypeOK

\* What a batch step leaves of the batches' types.
LEMMA BatchStepTyped ==
    ASSUME BatchTypeOK, BatchNext \/ UNCHANGED batch
    PROVE  BatchTypeOK'
<1>1. CASE BatchNext
    BY <1>1, OneBatchMoves DEF BatchTypeOK
<1>2. CASE UNCHANGED batch
    BY <1>2 DEF BatchTypeOK
<1> QED
    BY <1>1, <1>2

\* The manager moves its batches as BatchChanges does, or not at all.
LEMMA NextMovesBatches == [Next]_vars => [BatchNext]_batch
<1> USE ManagerAssumption
<1> SUFFICES ASSUME [Next]_vars PROVE BatchNext \/ UNCHANGED batch
    OBVIOUS
<1>1. ASSUME NEW w \in Watchers, BatchIsCalled(w) PROVE BatchNext
    BY <1>1 DEF BatchIsCalled, BatchNext
<1>2. ASSUME NEW w \in Watchers, CallbackEnds(w) PROVE BatchNext
    BY <1>2 DEF CallbackEnds, BatchNext
<1>3. ASSUME ConfigBegins \/ EnvBegins \/ PackageBegins \/ PluginsCheck
      PROVE  UNCHANGED batch
    BY <1>3 DEF ConfigBegins, EnvBegins, PackageBegins, PluginsCheck
<1>4. ASSUME BuildSucceeds PROVE BatchNext \/ UNCHANGED batch
    BY <1>4 DEF BuildSucceeds, BatchNext
<1>5. ASSUME QueueRuns PROVE UNCHANGED batch
    BY <1>5 DEF QueueRuns, SyncBegins, InstallSucceeds, SyncOptimised, FirstStart, RestartSpawns,
                AnswerWaitEnds, StopRuns, WakeRuns, idleUnchanged
<1>6. ASSUME EditConfig \/ EditPage \/ EditEnv PROVE BatchNext
    BY <1>6 DEF EditConfig, EditPage, EditEnv, Edit, BatchNext
<1>7. ASSUME NEW p \in Packages, AddPlugin(p) \/ PageNeedsPackage(p) PROVE BatchNext
    BY <1>7 DEF AddPlugin, PageNeedsPackage, Edit, BatchNext
<1>8. ASSUME BuildFails \/ InstallFails \/ KillOld \/ IdleCheck PROVE UNCHANGED batch
    BY <1>8 DEF BuildFails, InstallFails, KillOld, IdleCheck, idleUnchanged
<1>9. ASSUME NEW r \in Requests, UseBegins(r) \/ UseEnds(r) PROVE UNCHANGED batch
    BY <1>9 DEF UseBegins, UseEnds, idleUnchanged
<1>10. ASSUME TabOpens \/ TabCloses PROVE UNCHANGED batch
    BY <1>10 DEF TabOpens, TabCloses, idleUnchanged
<1>11. ASSUME NEW c \in Children, ChildAnswers(c) \/ ChildExits(c) PROVE UNCHANGED batch
    BY <1>11 DEF ChildAnswers, ChildExits, childUnchanged
<1> QED
    BY <1>1, <1>2, <1>3, <1>4, <1>5, <1>6, <1>7, <1>8, <1>9, <1>10, <1>11 DEF Next, vars

\* The parts of the type invariant a step of the queue writes.
QueueTyped == /\ queue \in Seq(Tasks) /\ step \in Steps /\ waking \in BOOLEAN
              /\ call \in [Callers -> {"none", "build", "sync", "done"}]
ChildTyped == /\ child \in [Children -> ChildProcesses]
              /\ {devServer, stopping, awaited} \subseteq Children \cup {None}

\* The end of a task keeps the queue's types.
LEMMA EndTaskTyped ==
    ASSUME QueueTyped, Running, EndTask
    PROVE  QueueTyped'
<1>1. Task \in Tasks /\ queue' \in Seq(Tasks)
    BY DEF EndTask, QueueTyped, Running, Task
<1>2. Task.kind = "sync" => Task.by \in Callers
    BY <1>1 DEF Tasks
<1>3. call' \in [Callers -> {"none", "build", "sync", "done"}]
    BY <1>2 DEF EndTask, QueueTyped
<1>4. step' \in Steps
    BY DEF EndTask, Steps
<1>5. waking' \in BOOLEAN
    BY DEF EndTask, QueueTyped
<1> QED
    BY <1>1, <1>3, <1>4, <1>5 DEF QueueTyped

\* Letting go of the child keeps the types of the children.
LEMMA ShutdownTyped ==
    ASSUME ChildTyped, ShutdownServer, awaited' = awaited \/ awaited' = stopping'
    PROVE  ChildTyped'
<1>1. child' \in [Children -> ChildProcesses]
    BY DEF ShutdownServer, ChildTyped, ChildProcesses
<1> QED
    BY <1>1 DEF ShutdownServer, ChildTyped

\* A restart begins, or is put off, with the types kept.
LEMMA RestartTyped ==
    ASSUME QueueTyped, ChildTyped, tracker \in Artifacts, disk \in Artifacts, Running,
           RestartBegins \/ RestartOrDefer
    PROVE  QueueTyped' /\ ChildTyped' /\ tracker' \in Artifacts
<1>1. CASE RestartBegins
    BY <1>1, ShutdownTyped DEF RestartBegins, QueueTyped, Steps
<1>2. CASE stopped /\ RestartOrDefer
    BY <1>2, EndTaskTyped DEF RestartOrDefer, ChildTyped
<1> QED
    BY <1>1, <1>2 DEF RestartOrDefer

\* A spawned child keeps the types.
LEMMA SpawnTyped ==
    ASSUME ChildTyped, disk \in Artifacts, env \in Versions, Spawn,
           stopping' \in {stopping, None}
    PROVE  ChildTyped' /\ step' \in Steps
<1>1. PICK c \in Children :
          /\ devServer' = c
          /\ child' = [child EXCEPT ![c] = [state |-> "booting", signalled |-> FALSE,
                                           killed |-> FALSE, art |-> disk.art, env |-> env]]
    BY DEF Spawn
<1>2. child' \in [Children -> ChildProcesses]
    BY <1>1 DEF ChildTyped, ChildProcesses, Artifacts
<1> QED
    BY <1>1, <1>2 DEF ChildTyped, Spawn, Steps

\* A build that is queued, and one that ends, keep the types of the builds.
BuildsTyped == builds \in Seq(Builders) /\ built \in Sources

LEMMA QueueBuildTyped ==
    ASSUME BuildsTyped, source \in Sources, NEW b \in Builders, QueueBuild(b)
    PROVE  BuildsTyped'
    BY DEF BuildsTyped, QueueBuild

LEMMA NextBuildTyped ==
    ASSUME BuildsTyped, source \in Sources, builds # <<>>, NextBuild
    PROVE  BuildsTyped' /\ Builder \in Builders
<1>1. NoSource \in Sources
    BY ManagerAssumption DEF NoSource, Sources, Versions
<1> QED
    BY <1>1 DEF BuildsTyped, NextBuild, Builder

\* A queued sync keeps the types of the queue.
LEMMA QueueSyncTyped ==
    ASSUME QueueTyped, NEW r \in BOOLEAN, NEW b \in Callers, QueueSync(r, b)
    PROVE  queue' \in Seq(Tasks)
<1>1. SyncTask(r, b) \in Tasks
    BY DEF SyncTask, Tasks
<1> QED
    BY <1>1 DEF QueueSync, QueueTyped

\* The rest of the type invariant.
PlainTyped == /\ BatchTypeOK
              /\ source \in Sources /\ disk \in Artifacts /\ tracker \in Artifacts
              /\ env \in Versions /\ lastBuildFailed \in BOOLEAN
              /\ installing \in SUBSET Packages /\ installed \in SUBSET Packages
              /\ stopped \in BOOLEAN /\ using \subseteq Requests /\ tab \in BOOLEAN
              /\ edits \in Versions /\ source.art <= edits /\ source.env <= edits

LEMMA TypeInvParts ==
    /\ TypeInv <=> QueueTyped /\ ChildTyped /\ BuildsTyped /\ PlainTyped
    /\ TypeInv' <=> QueueTyped' /\ ChildTyped' /\ BuildsTyped' /\ PlainTyped'
    BY DEF TypeInv, ManagerTypeOK, QueueTyped, ChildTyped, BuildsTyped, PlainTyped

\* An edit keeps the types: it moves one batch and makes one version newer.
LEMMA EditTyped ==
    ASSUME TypeInv, BatchTypeOK',
           \/ EditConfig \/ EditPage \/ EditEnv
           \/ \E p \in Packages : AddPlugin(p) \/ PageNeedsPackage(p)
    PROVE  TypeInv'
<1> USE ManagerAssumption
<1>1. QueueTyped /\ ChildTyped /\ BuildsTyped /\ PlainTyped
    BY TypeInvParts
<1>2. edits < MaxEdits /\ edits' = edits + 1
    <2>1. CASE EditConfig \/ EditPage \/ EditEnv
        BY <2>1 DEF EditConfig, EditPage, EditEnv, Edit
    <2>2. CASE \E p \in Packages : AddPlugin(p) \/ PageNeedsPackage(p)
        BY <2>2 DEF AddPlugin, PageNeedsPackage, Edit
    <2> QED
        BY <2>1, <2>2
<1>9. edits \in Nat /\ edits' \in Versions
    BY <1>1, <1>2 DEF PlainTyped, Versions
<1>3. CASE EditConfig \/ EditPage \/ EditEnv \/ \E p \in Packages : AddPlugin(p)
    <2>1. source' \in Sources /\ source'.art <= edits' /\ source'.env <= edits'
        <3>1. /\ source \in Sources /\ source.art <= edits /\ source.env <= edits
              /\ source.art + 1 \in Versions /\ source.env + 1 \in Versions
            BY <1>1, <1>2, <1>9 DEF PlainTyped, Sources, Versions
        <3>2. CASE EditConfig
            BY <1>2, <1>9, <3>1, <3>2 DEF EditConfig, Edit, Sources, Versions
        <3>3. CASE EditPage
            BY <1>2, <1>9, <3>1, <3>3 DEF EditPage, Edit, Sources, Versions
        <3>4. CASE EditEnv
            BY <1>2, <1>9, <3>1, <3>4 DEF EditEnv, Edit, Sources, Versions
        <3>5. CASE \E p \in Packages : AddPlugin(p)
            <4>1. PICK p \in Packages :
                      source' = [source EXCEPT !.art = @ + 1, !.pkgs = @ \cup {p}]
                BY <3>5 DEF AddPlugin, Edit
            <4>2. source' = [art |-> source.art + 1, env |-> source.env,
                             pkgs |-> source.pkgs \cup {p}]
                BY <3>1, <4>1 DEF Sources
            <4> QED
                BY <1>2, <1>9, <3>1, <4>2 DEF Sources, Versions
        <3> QED
            BY <1>3, <3>2, <3>3, <3>4, <3>5
    <2>2. UNCHANGED <<env, call, buildVars, serverVars, useVars, faults>>
        BY <1>3 DEF EditConfig, EditPage, EditEnv, AddPlugin, Edit
    <2>3. QueueTyped' /\ ChildTyped' /\ BuildsTyped'
        BY <1>1, <2>2 DEF serverVars, buildVars, QueueTyped, ChildTyped, BuildsTyped
    <2>4. PlainTyped'
        BY <1>1, <1>9, <2>1, <2>2 DEF serverVars, buildVars, useVars, PlainTyped
    <2> QED
        BY <2>3, <2>4, TypeInvParts
<1>4. CASE \E p \in Packages : PageNeedsPackage(p)
    <2>1. disk' \in Artifacts
        BY <1>1, <1>4 DEF PageNeedsPackage, PlainTyped, Artifacts
    <2>2. UNCHANGED <<source, env, call, lastBuildFailed, builds, built, serverVars, useVars>>
        BY <1>4 DEF PageNeedsPackage
    <2>3. QueueTyped' /\ ChildTyped' /\ BuildsTyped'
        BY <1>1, <2>2 DEF serverVars, QueueTyped, ChildTyped, BuildsTyped
    <2>4. PlainTyped'
        BY <1>1, <1>2, <1>9, <2>1, <2>2 DEF serverVars, useVars, PlainTyped, Versions, Sources
    <2> QED
        BY <2>3, <2>4, TypeInvParts
<1> QED
    BY <1>3, <1>4

\* The watchers' callbacks and the plugin check keep the types.
LEMMA CallbackTyped ==
    ASSUME TypeInv, BatchTypeOK',
           \/ ConfigBegins \/ EnvBegins \/ PackageBegins \/ PluginsCheck
           \/ \E w \in Watchers : CallbackEnds(w) \/ BatchIsCalled(w)
    PROVE  TypeInv'
<1> USE ManagerAssumption
<1>1. QueueTyped /\ ChildTyped /\ BuildsTyped /\ PlainTyped
    BY TypeInvParts
<1>2. CASE ConfigBegins
    <2>1. BuildsTyped'
        BY <1>1, <1>2, QueueBuildTyped DEF ConfigBegins, Builders, Callers, BuildsTyped, PlainTyped
    <2>2. QueueTyped' /\ ChildTyped' /\ PlainTyped'
        BY <1>1, <1>2 DEF ConfigBegins, serverVars, useVars, QueueTyped, ChildTyped, PlainTyped
    <2> QED
        BY <2>1, <2>2, TypeInvParts
<1>3. CASE EnvBegins
    <2>1. BuildsTyped'
        BY <1>1, <1>3, QueueBuildTyped DEF EnvBegins, Builders, Callers, PlainTyped
    <2>2. QueueTyped' /\ ChildTyped'
        BY <1>1, <1>3 DEF EnvBegins, serverVars, QueueTyped, ChildTyped
    <2>3. PlainTyped'
        BY <1>1, <1>3 DEF EnvBegins, serverVars, useVars, PlainTyped, Sources
    <2> QED
        BY <2>1, <2>2, <2>3, TypeInvParts
<1>4. CASE PackageBegins
    <2>1. queue' \in Seq(Tasks)
        BY <1>1, <1>4, QueueSyncTyped DEF PackageBegins, Callers
    <2>2. QueueTyped'
        BY <1>1, <1>4, <2>1 DEF PackageBegins, QueueTyped
    <2>3. ChildTyped' /\ BuildsTyped' /\ PlainTyped'
        BY <1>1, <1>4 DEF PackageBegins, buildVars, useVars, ChildTyped, BuildsTyped, PlainTyped
    <2> QED
        BY <2>2, <2>3, TypeInvParts
<1>5. CASE PluginsCheck
    <2>1. BuildsTyped'
        BY <1>1, <1>5, QueueBuildTyped DEF PluginsCheck, Builders, Callers, PlainTyped
    <2>2. QueueTyped' /\ ChildTyped' /\ PlainTyped'
        BY <1>1, <1>5 DEF PluginsCheck, serverVars, useVars, QueueTyped, ChildTyped, PlainTyped
    <2> QED
        BY <2>1, <2>2, TypeInvParts
<1>6. CASE \E w \in Watchers : CallbackEnds(w)
    <2>1. UNCHANGED <<source, env, buildVars, serverVars, useVars, edits, faults>>
        BY <1>6 DEF CallbackEnds
    <2>2. call' \in [Callers -> {"none", "build", "sync", "done"}]
        BY <1>1, <1>6 DEF CallbackEnds, QueueTyped
    <2>3. QueueTyped' /\ ChildTyped' /\ BuildsTyped'
        BY <1>1, <2>1, <2>2 DEF serverVars, buildVars, QueueTyped, ChildTyped, BuildsTyped
    <2>4. PlainTyped'
        BY <1>1, <2>1 DEF serverVars, useVars, buildVars, PlainTyped
    <2> QED
        BY <2>3, <2>4, TypeInvParts
<1>7. CASE \E w \in Watchers : BatchIsCalled(w)
    <2>1. UNCHANGED mvars
        BY <1>7 DEF BatchIsCalled
    <2>2. QueueTyped' /\ ChildTyped' /\ BuildsTyped'
        BY <1>1, <2>1 DEF mvars, serverVars, buildVars, QueueTyped, ChildTyped, BuildsTyped
    <2>3. PlainTyped'
        BY <1>1, <2>1 DEF mvars, serverVars, useVars, buildVars, PlainTyped
    <2> QED
        BY <2>2, <2>3, TypeInvParts
<1> QED
    BY <1>2, <1>3, <1>4, <1>5, <1>6, <1>7

\* Builds, and the tasks of the queue, keep the types.
LEMMA BuildTyped ==
    ASSUME TypeInv, BatchTypeOK', BuildSucceeds \/ BuildFails
    PROVE  TypeInv'
<1> USE ManagerAssumption
<1>1. QueueTyped /\ ChildTyped /\ BuildsTyped /\ PlainTyped
    BY TypeInvParts
<1>2. BuildsTyped' /\ Builder \in Builders
    BY <1>1, NextBuildTyped DEF BuildSucceeds, BuildFails, PlainTyped
<1>3. CASE BuildSucceeds
    <2>1. disk' \in Artifacts
        BY <1>1, <1>3 DEF BuildSucceeds, BuildsTyped, PlainTyped, Sources, Artifacts
    <2>2. PlainTyped'
        BY <1>1, <1>3, <2>1 DEF BuildSucceeds, useVars, PlainTyped
    <2>3. ChildTyped'
        BY <1>1, <1>3 DEF BuildSucceeds, ChildTyped
    <2>4. CASE Builder = "sync"
        BY <1>1, <1>2, <1>3, <2>2, <2>3, <2>4, TypeInvParts DEF BuildSucceeds, QueueTyped, Steps
    <2>5. CASE Builder # "sync"
        <3>1. Builder \in Callers
            BY <1>2, <2>5 DEF Builders
        <3>2. queue' \in Seq(Tasks)
            BY <1>1, <1>3, <2>5, <3>1, QueueSyncTyped DEF BuildSucceeds
        <3>3. QueueTyped'
            BY <1>1, <1>3, <2>5, <3>2 DEF BuildSucceeds, QueueTyped
        <3> QED
            BY <1>2, <2>2, <2>3, <3>3, TypeInvParts
    <2> QED
        BY <2>4, <2>5
<1>4. CASE BuildFails /\ Builder = "sync"
    <2>1. QueueTyped' /\ ChildTyped' /\ tracker' \in Artifacts
        BY <1>1, <1>4, RestartTyped DEF BuildFails, PlainTyped, AtStep
    <2>2. PlainTyped'
        BY <1>1, <1>4, <2>1 DEF BuildFails, taskUnchanged, PlainTyped
    <2> QED
        BY <1>2, <2>1, <2>2, TypeInvParts
<1>5. CASE BuildFails /\ Builder # "sync"
    <2>1. Builder \in Callers
        BY <1>2, <1>5 DEF Builders
    <2>2. queue' \in Seq(Tasks)
        BY <1>1, <1>5, <2>1, QueueSyncTyped DEF BuildFails, QueueTyped
    <2>3. QueueTyped' /\ ChildTyped' /\ PlainTyped'
        BY <1>1, <1>5, <2>1, <2>2 DEF BuildFails, taskUnchanged, QueueTyped, ChildTyped, PlainTyped
    <2> QED
        BY <1>2, <2>3, TypeInvParts
<1> QED
    BY <1>3, <1>4, <1>5

LEMMA SyncTyped ==
    ASSUME TypeInv, BatchTypeOK',
           SyncBegins \/ InstallSucceeds \/ InstallFails \/ SyncOptimised \/ AnswerWaitEnds
    PROVE  TypeInv'
<1> USE ManagerAssumption
<1>1. QueueTyped /\ ChildTyped /\ BuildsTyped /\ PlainTyped
    BY TypeInvParts
<1>2. tracker \in Artifacts /\ disk \in Artifacts /\ disk.pkgs \in SUBSET Packages
    BY <1>1 DEF PlainTyped, Artifacts
<1>3. CASE SyncBegins
    <2>1. BuildsTyped'
        BY <1>1, <1>3 DEF SyncBegins, BuildsTyped
    <2>2. CASE tracker.pkgs # disk.pkgs
        <3>1. ChildTyped'
            BY <1>1, <1>3, <2>2, ShutdownTyped DEF SyncBegins
        <3>2. QueueTyped' /\ PlainTyped'
            BY <1>1, <1>2, <1>3, <2>2 DEF SyncBegins, taskUnchanged, QueueTyped, PlainTyped, Steps
        <3> QED
            BY <2>1, <3>1, <3>2, TypeInvParts
    <2>3. CASE tracker.pkgs = disk.pkgs /\ (Task.restart \/ tracker.art # disk.art)
        <3>1. QueueTyped' /\ ChildTyped' /\ tracker' \in Artifacts
            BY <1>1, <1>2, <1>3, <2>3, RestartTyped DEF SyncBegins, AtStep
        <3>2. PlainTyped'
            BY <1>1, <1>3, <2>3, <3>1 DEF SyncBegins, taskUnchanged, PlainTyped
        <3> QED
            BY <2>1, <3>1, <3>2, TypeInvParts
    <2>4. CASE tracker.pkgs = disk.pkgs /\ ~(Task.restart \/ tracker.art # disk.art)
        <3>1. QueueTyped'
            BY <1>1, <1>3, <2>4, EndTaskTyped DEF SyncBegins, AtStep
        <3>2. ChildTyped' /\ PlainTyped'
            BY <1>1, <1>3, <2>4 DEF SyncBegins, taskUnchanged, ChildTyped, PlainTyped
        <3> QED
            BY <2>1, <3>1, <3>2, TypeInvParts
    <2> QED
        BY <2>2, <2>3, <2>4
<1>4. CASE InstallSucceeds
    <2>1. BuildsTyped'
        BY <1>1, <1>4, QueueBuildTyped DEF InstallSucceeds, Builders, PlainTyped
    <2>2. QueueTyped' /\ ChildTyped' /\ PlainTyped'
        BY <1>1, <1>4 DEF InstallSucceeds, useVars, QueueTyped, ChildTyped, PlainTyped, Steps
    <2> QED
        BY <2>1, <2>2, TypeInvParts
<1>5. CASE InstallFails \/ SyncOptimised
    <2>1. QueueTyped' /\ ChildTyped' /\ tracker' \in Artifacts
        BY <1>1, <1>2, <1>5, RestartTyped DEF InstallFails, SyncOptimised, AtStep
    <2>2. PlainTyped' /\ BuildsTyped'
        BY <1>1, <1>5, <2>1 DEF InstallFails, SyncOptimised, taskUnchanged, PlainTyped, BuildsTyped
    <2> QED
        BY <2>1, <2>2, TypeInvParts
<1>6. CASE AnswerWaitEnds
    <2>1. QueueTyped'
        BY <1>1, <1>6, EndTaskTyped DEF AnswerWaitEnds
    <2>2. ChildTyped' /\ PlainTyped' /\ BuildsTyped'
        BY <1>1, <1>6 DEF AnswerWaitEnds, taskUnchanged, ChildTyped, PlainTyped, BuildsTyped
    <2> QED
        BY <2>1, <2>2, TypeInvParts
<1> QED
    BY <1>3, <1>4, <1>5, <1>6

\* Starts, and the children themselves, keep the types.
LEMMA ChildStepTyped ==
    ASSUME TypeInv, BatchTypeOK',
           \/ FirstStart \/ RestartSpawns \/ KillOld
           \/ \E c \in Children : ChildAnswers(c) \/ ChildExits(c)
    PROVE  TypeInv'
<1> USE ManagerAssumption
<1>1. QueueTyped /\ ChildTyped /\ BuildsTyped /\ PlainTyped
    BY TypeInvParts
<1>2. CASE FirstStart \/ RestartSpawns
    <2>1. ChildTyped' /\ step' \in Steps
        BY <1>1, <1>2, SpawnTyped DEF FirstStart, RestartSpawns, PlainTyped
    <2>2. QueueTyped' /\ BuildsTyped' /\ PlainTyped'
        BY <1>1, <1>2, <2>1 DEF FirstStart, RestartSpawns, taskUnchanged, QueueTyped, BuildsTyped,
                                PlainTyped
    <2> QED
        BY <2>1, <2>2, TypeInvParts
<1>3. CASE KillOld
    <2>1. child' \in [Children -> ChildProcesses]
        BY <1>1, <1>3 DEF KillOld, ChildTyped, ChildProcesses
    <2>2. QueueTyped' /\ BuildsTyped' /\ PlainTyped' /\ ChildTyped'
        BY <1>1, <1>3, <2>1 DEF KillOld, taskUnchanged, QueueTyped, BuildsTyped, PlainTyped, ChildTyped
    <2> QED
        BY <2>2, TypeInvParts
<1>4. CASE \E c \in Children : ChildAnswers(c) \/ ChildExits(c)
    <2>1. child' \in [Children -> ChildProcesses]
        <3>1. NoChild \in ChildProcesses
            BY DEF NoChild, ChildProcesses, Versions
        <3> QED
            BY <1>1, <1>4, <3>1 DEF ChildAnswers, ChildExits, ChildTyped, ChildProcesses
    <2>2. UNCHANGED childUnchanged /\ tab' \in BOOLEAN
        BY <1>1, <1>4 DEF ChildAnswers, ChildExits, PlainTyped
    <2>3. QueueTyped' /\ BuildsTyped' /\ PlainTyped' /\ ChildTyped'
        BY <1>1, <2>1, <2>2 DEF childUnchanged, buildVars, QueueTyped, BuildsTyped, PlainTyped,
                                ChildTyped
    <2> QED
        BY <2>3, TypeInvParts
<1> QED
    BY <1>2, <1>3, <1>4

\* The stop of an unused child, its wake, and use keep the types.
LEMMA IdleTyped ==
    ASSUME TypeInv, BatchTypeOK',
           \/ IdleCheck \/ StopRuns \/ WakeRuns \/ TabOpens \/ TabCloses
           \/ \E r \in Requests : UseBegins(r) \/ UseEnds(r)
    PROVE  TypeInv'
<1> USE ManagerAssumption
<1>1. QueueTyped /\ ChildTyped /\ BuildsTyped /\ PlainTyped
    BY TypeInvParts
<1>2. [kind |-> "stop"] \in Tasks /\ [kind |-> "wake"] \in Tasks
    BY DEF Tasks
<1>3. CASE IdleCheck
    <2>1. QueueTyped' /\ ChildTyped' /\ BuildsTyped' /\ PlainTyped'
        BY <1>1, <1>2, <1>3 DEF IdleCheck, idleUnchanged, buildVars, useVars, QueueTyped, ChildTyped,
                                BuildsTyped, PlainTyped
    <2> QED
        BY <2>1, TypeInvParts
<1>4. CASE StopRuns
    <2>1. QueueTyped'
        BY <1>1, <1>4, EndTaskTyped DEF StopRuns, AtStep
    <2>2. ChildTyped'
        <3>1. CASE MayStop
            BY <1>1, <1>4, <3>1, ShutdownTyped DEF StopRuns
        <3>2. CASE ~MayStop
            BY <1>1, <1>4, <3>2 DEF StopRuns, ChildTyped
        <3> QED
            BY <3>1, <3>2
    <2>3. BuildsTyped' /\ PlainTyped'
        BY <1>1, <1>4 DEF StopRuns, idleUnchanged, buildVars, useVars, BuildsTyped, PlainTyped
    <2> QED
        BY <2>1, <2>2, <2>3, TypeInvParts
<1>5. CASE WakeRuns
    <2>1. QueueTyped' /\ ChildTyped' /\ tracker' \in Artifacts
        <3>1. CASE devServer # None
            BY <1>1, <1>5, <3>1, EndTaskTyped DEF WakeRuns, AtStep, ChildTyped, PlainTyped
        <3>2. CASE devServer = None
            BY <1>1, <1>5, <3>2, RestartTyped DEF WakeRuns, AtStep, PlainTyped
        <3> QED
            BY <3>1, <3>2
    <2>2. BuildsTyped' /\ PlainTyped'
        BY <1>1, <1>5, <2>1 DEF WakeRuns, taskUnchanged, BuildsTyped, PlainTyped
    <2> QED
        BY <2>1, <2>2, TypeInvParts
<1>6. CASE TabOpens \/ TabCloses \/ \E r \in Requests : UseEnds(r)
    <2>1. QueueTyped' /\ ChildTyped' /\ BuildsTyped' /\ PlainTyped'
        BY <1>1, <1>6 DEF TabOpens, TabCloses, UseEnds, idleUnchanged, serverVars, buildVars,
                          QueueTyped, ChildTyped, BuildsTyped, PlainTyped
    <2> QED
        BY <2>1, TypeInvParts
<1>7. CASE \E r \in Requests : UseBegins(r)
    <2>1. queue' \in Seq(Tasks)
        BY <1>1, <1>2, <1>7 DEF UseBegins, QueueTyped
    <2>2. QueueTyped' /\ ChildTyped' /\ BuildsTyped' /\ PlainTyped'
        BY <1>1, <1>7, <2>1 DEF UseBegins, idleUnchanged, buildVars, QueueTyped, ChildTyped, BuildsTyped,
                                PlainTyped
    <2> QED
        BY <2>2, TypeInvParts
<1> QED
    BY <1>3, <1>4, <1>5, <1>6, <1>7

\* Every step keeps the types.
LEMMA StepTyped == TypeInv /\ [Next]_vars => TypeInv'
<1> SUFFICES ASSUME TypeInv, [Next]_vars PROVE TypeInv'
    OBVIOUS
<1>1. BatchTypeOK'
    BY NextMovesBatches, BatchStepTyped DEF TypeInv, ManagerTypeOK
<1>2. CASE UNCHANGED vars
    BY <1>1, <1>2 DEF vars, mvars, TypeInv, ManagerTypeOK
<1>3. CASE Next
    BY <1>1, <1>3, EditTyped, CallbackTyped, BuildTyped, SyncTyped, ChildStepTyped, IdleTyped
    DEF Next, QueueRuns
<1> QED
    BY <1>2, <1>3

\* The manager's state keeps its types.
THEOREM ManagerTypes == Spec => []ManagerTypeOK
<1>1. TypeInv => ManagerTypeOK
    BY DEF TypeInv
<1> QED
    BY <1>1, InitTypeInv, StepTyped, PTL DEF Spec

\* Every watcher of the manager batches its changes as BatchChanges promises.
THEOREM ManagerBatches == Spec => BatchSpec
<1>1. Init => BatchInit
    BY DEF Init
<1> QED
    BY <1>1, NextMovesBatches, PTL DEF Spec, BatchSpec

\* No change the manager is told of is left without a call to come, and a
\* watcher with work is busy (BatchChanges.mjs, as the manager uses it).
THEOREM ManagerHandlesBatches == Spec => []BatchesAreHandled
    BY ManagerBatches, BatchSafety, PTL
-----------------------------------------------------------------------------
(* One child at a time.  The queue runs one task, only a restart and the    *)
(* first start spawn, and a restart waits for the child it let go of.       *)

\* Only the first task of all is the first start, and no child runs before it.
FirstIsFirst ==
    /\ \A i \in 1..Len(queue) : queue[i].kind = "first" => i = 1 /\ ~stopped
    /\ AtStep("first", "optimise") => devServer = None /\ \A c \in Children : ~Alive(c)
    /\ Running /\ Task.kind = "first" => step \in {"optimise", "answer"}

\* While a restart waits, no child is current and the one it waits for is the
\* one last let go of.
RestartWaits == step = "exit" => devServer = None /\ awaited = stopping /\ ~stopped

\* A child that is not the current one is on its way out: signalled as the one
\* last let go of, or killed.
LetGo ==
    /\ \A c \in Children : Alive(c) /\ child[c].signalled => c = stopping \/ child[c].killed
    /\ devServer # None => \A c \in Children : Alive(c) /\ c # devServer => child[c].killed

\* A stopped child stays stopped: the wake that ends the stop is queued with it.
StopHolds ==
    /\ stopped => devServer = None /\ using = {} /\ ~waking
    /\ \A i \in 1..Len(queue) : queue[i].kind = "wake" => waking
    /\ \A i, j \in 1..Len(queue) : queue[i].kind = "wake" /\ queue[j].kind = "wake" => i = j

ChildInv == FirstIsFirst /\ RestartWaits /\ LetGo /\ NoOrphanChild /\ StopHolds

LEMMA InitChildInv == Init => ChildInv
<1> SUFFICES ASSUME Init PROVE ChildInv
    OBVIOUS
<1>1. queue = <<[kind |-> "first"]>> /\ Len(queue) = 1 /\ queue[1].kind = "first" /\ Task.kind = "first"
    BY DEF Init, Task
<1>2. FirstIsFirst
    BY <1>1 DEF Init, FirstIsFirst, AtStep, Alive, NoChild
<1>3. RestartWaits /\ LetGo /\ NoOrphanChild
    BY DEF Init, RestartWaits, LetGo, NoOrphanChild, Alive, NoChild
<1>4. StopHolds
    BY <1>1 DEF Init, StopHolds
<1> QED
    BY <1>2, <1>3, <1>4 DEF ChildInv

\* What the end of a task, or a longer queue, leaves of the facts on the queue.
QueueFacts(q, s, w) ==
    /\ \A i \in 1..Len(q) : q[i].kind = "first" => i = 1 /\ ~s
    /\ \A i \in 1..Len(q) : q[i].kind = "wake" => w
    /\ \A i, j \in 1..Len(q) : q[i].kind = "wake" /\ q[j].kind = "wake" => i = j

LEMMA TailFacts ==
    ASSUME NEW q \in Seq(Tasks), q # <<>>, NEW s \in BOOLEAN, NEW w \in BOOLEAN, NEW t \in BOOLEAN,
           QueueFacts(q, s, w)
    PROVE  /\ QueueFacts(Tail(q), t, w /\ Head(q).kind # "wake")
           /\ \A i \in 1..Len(Tail(q)) : Tail(q)[i].kind # "first"
<1>1. Tail(q) \in Seq(Tasks) /\ Len(Tail(q)) = Len(q) - 1 /\ Len(q) \in Nat /\ Len(q) >= 1
    OBVIOUS
<1>2. \A i \in 1..Len(Tail(q)) : i + 1 \in 1..Len(q) /\ i + 1 # 1 /\ Tail(q)[i] = q[i + 1]
    BY <1>1
<1>3. Head(q) = q[1] /\ 1 \in 1..Len(q)
    BY <1>1
<1>4. \A i \in 1..Len(Tail(q)) : Tail(q)[i].kind # "first"
    BY <1>2 DEF QueueFacts
<1>5. \A i \in 1..Len(Tail(q)) : Tail(q)[i].kind = "wake" => w /\ Head(q).kind # "wake"
    BY <1>2, <1>3 DEF QueueFacts
<1>6. \A i, j \in 1..Len(Tail(q)) : Tail(q)[i].kind = "wake" /\ Tail(q)[j].kind = "wake" => i = j
    <2> TAKE i, j \in 1..Len(Tail(q))
    <2>1. i + 1 \in 1..Len(q) /\ j + 1 \in 1..Len(q) /\ Tail(q)[i] = q[i + 1] /\ Tail(q)[j] = q[j + 1]
        BY <1>2
    <2>2. Tail(q)[i].kind = "wake" /\ Tail(q)[j].kind = "wake" => i + 1 = j + 1
        BY <2>1 DEF QueueFacts
    <2> QED
        BY <1>1, <2>2
<1> QED
    BY <1>4, <1>5, <1>6 DEF QueueFacts

LEMMA AppendFacts ==
    ASSUME NEW q \in Seq(Tasks), NEW s \in BOOLEAN, NEW w \in BOOLEAN, NEW t \in Tasks,
           QueueFacts(q, s, w), t.kind # "first", t.kind = "wake" => s /\ ~w,
           NEW u \in BOOLEAN, NEW v \in BOOLEAN, u => s, v <=> w \/ t.kind = "wake"
    PROVE  QueueFacts(Append(q, t), u, v)
<1>1. Len(Append(q, t)) = Len(q) + 1 /\ Len(q) \in Nat
    OBVIOUS
<1>2. \A i \in 1..Len(Append(q, t)) :
          \/ i \in 1..Len(q) /\ Append(q, t)[i] = q[i]
          \/ i = Len(q) + 1 /\ Append(q, t)[i] = t
    BY <1>1
<1>3. t.kind = "wake" => \A i \in 1..Len(q) : q[i].kind # "wake"
    BY DEF QueueFacts
<1> QED
    BY <1>1, <1>2, <1>3 DEF QueueFacts
\* The typing the steps of this part rely on.
ChildTypes == /\ queue \in Seq(Tasks) /\ stopped \in BOOLEAN /\ waking \in BOOLEAN
              /\ child \in [Children -> ChildProcesses]
              /\ {devServer, stopping, awaited} \subseteq Children \cup {None}

LEMMA ChildTypesHold == TypeInv => ChildTypes /\ None \notin Children
    BY ManagerAssumption DEF TypeInv, ManagerTypeOK, ChildTypes

QueueInv == QueueFacts(queue, stopped, waking)

LEMMA ChildInvParts ==
    /\ ChildInv => QueueInv
    /\ ChildInv' <=> /\ QueueInv'
                     /\ (AtStep("first", "optimise") => devServer = None /\ \A c \in Children : ~Alive(c))'
                     /\ (Running /\ Task.kind = "first" => step \in {"optimise", "answer"})'
                     /\ (stopped => devServer = None /\ using = {} /\ ~waking)'
                     /\ RestartWaits' /\ LetGo' /\ NoOrphanChild'
    BY DEF ChildInv, QueueInv, QueueFacts, FirstIsFirst, StopHolds

\* Steps that touch neither the queue nor the children.
childVars == <<child, devServer, stopping, awaited>>

LEMMA OthersKeep ==
    ASSUME ChildInv, UNCHANGED <<queue, step, childVars, stopped, waking>>, using' \subseteq using
    PROVE  ChildInv'
    BY DEF ChildInv, FirstIsFirst, RestartWaits, LetGo, NoOrphanChild, StopHolds, childVars, AtStep,
           Running, Task, Alive

\* A task that joins the queue leaves the running one where it is.
LEMMA HeadStays ==
    ASSUME queue \in Seq(Tasks), NEW t \in Tasks, t.kind # "first", queue' = Append(queue, t)
    PROVE  /\ Running' /\ Task'.kind = "first" => Running /\ Task' = Task
           /\ Running => Task' = Task
<1>1. CASE queue = <<>>
    <2>1. queue'[1] = t
        BY <1>1
    <2> QED
        BY <1>1, <2>1 DEF Running, Task
<1>2. CASE queue # <<>>
    BY <1>2 DEF Running, Task
<1> QED
    BY <1>1, <1>2

LEMMA AppendKeeps ==
    ASSUME ChildInv, ChildTypes, NEW t \in Tasks, t.kind \notin {"first", "wake"},
           queue' = Append(queue, t), UNCHANGED <<step, childVars, stopped, waking, using>>
    PROVE  ChildInv'
<1>1. QueueInv'
    BY AppendFacts, ChildInvParts DEF QueueInv, ChildTypes
<1>2. /\ (AtStep("first", "optimise") => devServer = None /\ \A c \in Children : ~Alive(c))'
      /\ (Running /\ Task.kind = "first" => step \in {"optimise", "answer"})'
    BY HeadStays DEF ChildTypes, ChildInv, FirstIsFirst, AtStep, childVars, Alive
<1>3. RestartWaits' /\ LetGo' /\ NoOrphanChild'
    BY DEF ChildInv, RestartWaits, LetGo, NoOrphanChild, childVars, Alive
<1>4. (stopped => devServer = None /\ using = {} /\ ~waking)'
    BY DEF ChildInv, StopHolds, childVars
<1> QED
    BY <1>1, <1>2, <1>3, <1>4, ChildInvParts

\* The task that ends gives way to one that is not the first start.
LEMMA EndTaskKeeps ==
    ASSUME ChildInv, ChildTypes, Running, EndTask, stopped' \in BOOLEAN
    PROVE  /\ QueueInv' /\ step' = "begin"
           /\ Running' => Task'.kind # "first"
<1>1. queue' = Tail(queue) /\ waking' = (waking /\ Head(queue).kind # "wake") /\ queue # <<>>
    BY DEF EndTask, Running, Task
<1>2. /\ QueueFacts(queue', stopped', waking')
      /\ \A i \in 1..Len(queue') : queue'[i].kind # "first"
    BY <1>1, TailFacts, ChildInvParts DEF QueueInv, ChildTypes
<1>3. Running' => Task' = queue'[1] /\ 1 \in 1..Len(queue')
    BY <1>1 DEF Running, Task, ChildTypes
<1> QED
    BY <1>2, <1>3 DEF QueueInv, EndTask

LEMMA EndKeeps ==
    ASSUME ChildInv, ChildTypes, Running, EndTask, UNCHANGED <<childVars, stopped, using>>
    PROVE  ChildInv'
<1>1. QueueInv' /\ step' = "begin" /\ (Running' => Task'.kind # "first")
    BY EndTaskKeeps DEF ChildTypes
<1>2. RestartWaits' /\ LetGo' /\ NoOrphanChild'
    BY <1>1 DEF ChildInv, RestartWaits, LetGo, NoOrphanChild, childVars, Alive
<1>3. (stopped => devServer = None /\ using = {} /\ ~waking)'
    BY DEF ChildInv, StopHolds, childVars, EndTask
<1> QED
    BY <1>1, <1>2, <1>3, ChildInvParts DEF AtStep

\* Letting go of the current child leaves none current, and every live child
\* signalled as the one last let go of, or killed.
LEMMA ShutdownKeeps ==
    ASSUME ChildInv, ChildTypes, None \notin Children, ShutdownServer
    PROVE  devServer' = None /\ LetGo' /\ NoOrphanChild'
<1>1. CASE devServer = None
    BY <1>1 DEF ShutdownServer, ChildInv, LetGo, NoOrphanChild, Alive
<1>2. CASE devServer # None
    <2>1. /\ child' = [child EXCEPT ![devServer].signalled = TRUE]
          /\ devServer \in Children /\ stopping' = devServer /\ devServer' = None
        BY <1>2 DEF ShutdownServer, ChildTypes
    <2>2. \A c \in Children : /\ child'[c].state = child[c].state
                              /\ child'[c].killed = child[c].killed
                              /\ c # devServer => child'[c].signalled = child[c].signalled
        BY <2>1 DEF ChildTypes, ChildProcesses
    <2>3. child'[devServer].signalled
        BY <2>1 DEF ChildTypes, ChildProcesses
    <2>4. \A c \in Children : Alive(c)' <=> Alive(c)
        BY <2>2 DEF Alive
    <2>5. \A c \in Children : Alive(c) /\ c # devServer => child'[c].killed /\ child'[c].signalled
        BY <1>2, <2>2 DEF ChildInv, LetGo, NoOrphanChild
    <2>6. LetGo' /\ NoOrphanChild'
        BY <2>1, <2>3, <2>4, <2>5 DEF LetGo, NoOrphanChild
    <2> QED
        BY <2>1, <2>6
<1> QED
    BY <1>1, <1>2

\* A sync or a wake lets the child go: to install, or to restart it.
LEMMA LetGoKeeps ==
    ASSUME ChildInv, ChildTypes, None \notin Children, ShutdownServer, Task.kind # "first",
           UNCHANGED <<queue, stopped, waking, using>>,
           step' = "exit" => awaited' = stopping' /\ ~stopped
    PROVE  ChildInv'
<1>1. devServer' = None /\ LetGo' /\ NoOrphanChild'
    BY ShutdownKeeps
<1>2. QueueInv' /\ Task' = Task
    BY ChildInvParts DEF QueueInv, Task
<1> QED
    BY <1>1, <1>2, ChildInvParts DEF AtStep, RestartWaits, ChildInv, StopHolds

LEMMA RestartKeeps ==
    ASSUME ChildInv, ChildTypes, None \notin Children, Running, Task.kind # "first",
           UNCHANGED <<stopped, using>>,
           RestartOrDefer \/ (RestartBegins /\ ~stopped)
    PROVE  ChildInv'
<1>1. CASE RestartBegins /\ ~stopped
    BY <1>1, LetGoKeeps DEF RestartBegins
<1>2. CASE RestartOrDefer /\ stopped
    BY <1>2, EndKeeps DEF RestartOrDefer, childVars
<1> QED
    BY <1>1, <1>2 DEF RestartOrDefer
\* Nothing lives on when a child is spawned, but what was killed in vain.
NoOther == devServer = None /\ ~stopped /\ \A c \in Children : Alive(c) => child[c].killed

LEMMA NoOtherAtSpawn ==
    ASSUME ChildInv, ChildTypes, FirstStart \/ RestartSpawns
    PROVE  NoOther
<1>1. CASE FirstStart
    <2>1. 1 \in 1..Len(queue) /\ queue[1].kind = "first"
        BY <1>1 DEF FirstStart, AtStep, Running, Task, ChildTypes
    <2> QED
        BY <1>1, <2>1 DEF FirstStart, ChildInv, FirstIsFirst, NoOther
<1>2. CASE RestartSpawns
    <2>1. devServer = None /\ awaited = stopping /\ ~stopped
        BY <1>2 DEF RestartSpawns, ChildInv, RestartWaits
    <2>2. None \notin Children
        BY ManagerAssumption
    <2>3. \A c \in Children : Alive(c) => c = awaited \/ child[c].killed
        BY <2>1, <2>2 DEF ChildInv, LetGo, NoOrphanChild
    <2>4. awaited = None \/ ~Alive(awaited) \/ child[awaited].killed
        BY <1>2 DEF RestartSpawns, OldIsGone
    <2> QED
        BY <2>1, <2>2, <2>3, <2>4 DEF NoOther
<1> QED
    BY <1>1, <1>2

LEMMA SpawnKeeps ==
    ASSUME ChildInv, ChildTypes, None \notin Children, FirstStart \/ RestartSpawns
    PROVE  ChildInv'
<1>1. NoOther
    BY NoOtherAtSpawn
<1>2. PICK c \in Children :
          /\ ~Alive(c) /\ devServer' = c
          /\ child' = [child EXCEPT ![c] = [state |-> "booting", signalled |-> FALSE,
                                           killed |-> FALSE, art |-> disk.art, env |-> env]]
    BY DEF FirstStart, RestartSpawns, Spawn
<1>3. /\ step' = "answer" /\ UNCHANGED <<queue, stopped, waking, using>>
    BY DEF FirstStart, RestartSpawns, Spawn, taskUnchanged
<1>4. /\ ~child'[c].signalled
      /\ \A d \in Children \ {c} : child'[d] = child[d]
    BY <1>2 DEF ChildTypes
<1>5. \A d \in Children \ {c} : Alive(d)' => child'[d].killed /\ child'[d].signalled
    BY <1>1, <1>4 DEF Alive, NoOther, ChildInv, NoOrphanChild
<1>6. LetGo' /\ NoOrphanChild'
    BY <1>2, <1>4, <1>5 DEF LetGo, NoOrphanChild
<1>7. QueueInv' /\ Task' = Task
    BY <1>3, ChildInvParts DEF QueueInv, Task
<1>8. ~stopped'
    BY <1>1, <1>3 DEF NoOther
<1> QED
    BY <1>3, <1>6, <1>7, <1>8, ChildInvParts DEF AtStep, RestartWaits

\* A child answers, exits, or is killed.
LEMMA ChildStepKeeps ==
    ASSUME ChildInv, ChildTypes, None \notin Children,
           KillOld \/ \E c \in Children : ChildAnswers(c) \/ ChildExits(c)
    PROVE  ChildInv'
<1>1. /\ UNCHANGED <<queue, step, devServer, stopping, awaited, stopped, waking, using>>
      /\ \A c \in Children : /\ Alive(c)' => Alive(c)
                             /\ Alive(c)' => child'[c].signalled = child[c].signalled
                             /\ Alive(c)' /\ child[c].killed => child'[c].killed
    <2>1. CASE KillOld
        BY <2>1 DEF KillOld, taskUnchanged, ChildTypes, ChildProcesses, Alive
    <2>2. CASE \E c \in Children : ChildAnswers(c) \/ ChildExits(c)
        BY <2>2 DEF ChildAnswers, ChildExits, childUnchanged, ChildTypes, ChildProcesses, Alive, NoChild
    <2> QED
        BY <2>1, <2>2
<1>2. LetGo' /\ NoOrphanChild' /\ RestartWaits'
    BY <1>1 DEF ChildInv, LetGo, NoOrphanChild, RestartWaits
<1>3. QueueInv' /\ Task' = Task /\ (Running' <=> Running)
    BY <1>1, ChildInvParts DEF QueueInv, Task, Running
<1>4. (AtStep("first", "optimise") => devServer = None /\ \A c \in Children : ~Alive(c))'
    BY <1>1, <1>3 DEF ChildInv, FirstIsFirst, AtStep
<1> QED
    BY <1>1, <1>2, <1>3, <1>4, ChildInvParts DEF ChildInv, FirstIsFirst, StopHolds

\* The stop and the wake.
LEMMA StopKeeps ==
    ASSUME ChildInv, ChildTypes, None \notin Children, StopRuns
    PROVE  ChildInv'
<1>1. Running /\ EndTask /\ UNCHANGED <<awaited, using>> /\ stopped' \in BOOLEAN
    BY DEF StopRuns, AtStep, useVars, ChildTypes
<1>2. CASE MayStop
    <2>1. devServer' = None /\ LetGo' /\ NoOrphanChild'
        BY <1>2, ShutdownKeeps DEF StopRuns
    <2>2. QueueInv' /\ step' = "begin" /\ (Running' => Task'.kind # "first")
        BY <1>1, EndTaskKeeps
    <2>3. using' = {} /\ ~waking'
        BY <1>1, <1>2 DEF MayStop, Unused, EndTask
    <2> QED
        BY <2>1, <2>2, <2>3, ChildInvParts DEF AtStep, RestartWaits
<1>3. CASE ~MayStop
    BY <1>1, <1>3, EndKeeps DEF StopRuns, childVars
<1> QED
    BY <1>2, <1>3

LEMMA WakeKeeps ==
    ASSUME ChildInv, ChildTypes, None \notin Children, WakeRuns
    PROVE  ChildInv'
<1>1. Running /\ Task.kind = "wake" /\ UNCHANGED <<stopped, using>>
    BY DEF WakeRuns, AtStep, taskUnchanged
<1>2. ~stopped
    <2>1. 1 \in 1..Len(queue) /\ queue[1].kind = "wake"
        BY <1>1 DEF Running, Task, ChildTypes
    <2> QED
        BY <2>1 DEF ChildInv, StopHolds
<1>3. CASE devServer # None
    BY <1>1, <1>3, EndKeeps DEF WakeRuns, childVars
<1>4. CASE devServer = None
    BY <1>1, <1>2, <1>4, RestartKeeps DEF WakeRuns
<1> QED
    BY <1>3, <1>4

LEMMA UseKeeps ==
    ASSUME ChildInv, ChildTypes, NEW r \in Requests, UseBegins(r)
    PROVE  ChildInv'
<1>1. CASE stopped
    <2> DEFINE t == [kind |-> "wake"]
    <2>1. /\ queue' = Append(queue, t) /\ ~stopped' /\ waking' /\ stopped' \in BOOLEAN
          /\ UNCHANGED <<step, childVars>>
        BY <1>1 DEF UseBegins, childVars
    <2>2. t \in Tasks /\ t.kind = "wake" /\ t.kind # "first"
        BY DEF Tasks
    <2>3. QueueInv /\ ~waking
        BY <1>1, ChildInvParts DEF ChildInv, StopHolds
    <2>4. QueueInv'
        BY <1>1, <2>1, <2>2, <2>3, AppendFacts DEF QueueInv, ChildTypes
    <2>5. /\ (AtStep("first", "optimise") => devServer = None /\ \A c \in Children : ~Alive(c))'
          /\ (Running /\ Task.kind = "first" => step \in {"optimise", "answer"})'
        BY <2>1, <2>2, HeadStays DEF ChildTypes, ChildInv, FirstIsFirst, AtStep, childVars, Alive
    <2>6. RestartWaits' /\ LetGo' /\ NoOrphanChild'
        BY <1>1, <2>1 DEF ChildInv, RestartWaits, LetGo, NoOrphanChild, childVars, Alive
    <2> QED
        BY <2>1, <2>4, <2>5, <2>6, ChildInvParts
<1>2. CASE ~stopped
    <2>1. UNCHANGED <<queue, step, childVars, stopped, waking>> /\ ~stopped
        BY <1>2 DEF UseBegins, childVars
    <2>2. QueueInv' /\ Task' = Task /\ (Running' <=> Running)
        BY <2>1, ChildInvParts DEF QueueInv, Task, Running
    <2> QED
        BY <2>1, <2>2, ChildInvParts DEF ChildInv, FirstIsFirst, RestartWaits, LetGo, NoOrphanChild,
                                     childVars, AtStep, Alive
<1> QED
    BY <1>1, <1>2

\* Syncs, and builds.
LEMMA SyncKeeps ==
    ASSUME ChildInv, ChildTypes, None \notin Children,
           SyncBegins \/ InstallSucceeds \/ InstallFails \/ SyncOptimised \/ AnswerWaitEnds
    PROVE  ChildInv'
<1>1. CASE SyncBegins
    <2>1. Running /\ Task.kind = "sync" /\ UNCHANGED <<stopped, using>>
        BY <1>1 DEF SyncBegins, AtStep, taskUnchanged
    <2>2. CASE tracker.pkgs # disk.pkgs
        BY <1>1, <2>1, <2>2, LetGoKeeps DEF SyncBegins
    <2>3. CASE tracker.pkgs = disk.pkgs /\ (Task.restart \/ tracker.art # disk.art)
        BY <1>1, <2>1, <2>3, RestartKeeps DEF SyncBegins
    <2>4. CASE tracker.pkgs = disk.pkgs /\ ~(Task.restart \/ tracker.art # disk.art)
        BY <1>1, <2>1, <2>4, EndKeeps DEF SyncBegins, childVars
    <2> QED
        BY <2>2, <2>3, <2>4
<1>2. CASE InstallSucceeds
    <2>1. /\ Task.kind = "sync" /\ step' = "build"
          /\ UNCHANGED <<queue, childVars, stopped, waking, using>>
        BY <1>2 DEF InstallSucceeds, AtStep, childVars, useVars
    <2>2. QueueInv' /\ Task' = Task
        BY <2>1, ChildInvParts DEF QueueInv, Task
    <2> QED
        BY <2>1, <2>2, ChildInvParts DEF ChildInv, StopHolds, RestartWaits, LetGo, NoOrphanChild,
                                     childVars, AtStep, Alive
<1>3. CASE InstallFails \/ SyncOptimised
    <2>1. Running /\ Task.kind = "sync" /\ UNCHANGED <<stopped, using>> /\ RestartOrDefer
        BY <1>3 DEF InstallFails, SyncOptimised, AtStep, taskUnchanged
    <2> QED
        BY <2>1, RestartKeeps
<1>4. CASE AnswerWaitEnds
    BY <1>4, EndKeeps DEF AnswerWaitEnds, taskUnchanged, childVars
<1> QED
    BY <1>1, <1>2, <1>3, <1>4

LEMMA BuildKeeps ==
    ASSUME ChildInv, ChildTypes, TypeInv, None \notin Children, BuildSucceeds \/ BuildFails
    PROVE  ChildInv'
<1>1. Builder \in Builders
    BY NextBuildTyped, TypeInvParts DEF BuildSucceeds, BuildFails, PlainTyped
<1>2. CASE BuildSucceeds /\ Builder = "sync"
    <2>1. /\ Task.kind = "sync" /\ step' = "optimise"
          /\ UNCHANGED <<queue, childVars, stopped, waking, using>>
        BY <1>2 DEF BuildSucceeds, AtStep, childVars, useVars
    <2>2. QueueInv' /\ Task' = Task
        BY <2>1, ChildInvParts DEF QueueInv, Task
    <2> QED
        BY <2>1, <2>2, ChildInvParts DEF ChildInv, StopHolds, RestartWaits, LetGo, NoOrphanChild,
                                     childVars, AtStep, Alive
<1>3. CASE BuildFails /\ Builder = "sync"
    <2>1. Running /\ Task.kind = "sync" /\ UNCHANGED <<stopped, using>> /\ RestartOrDefer
        BY <1>3 DEF BuildFails, AtStep, taskUnchanged
    <2> QED
        BY <2>1, RestartKeeps
<1>4. CASE Builder # "sync" /\ \E r \in BOOLEAN, b \in Callers : QueueSync(r, b)
    <2>1. PICK t \in Tasks : t.kind \notin {"first", "wake"} /\ queue' = Append(queue, t)
        BY <1>4 DEF QueueSync, SyncTask, Tasks
    <2>2. UNCHANGED <<step, childVars, stopped, waking, using>>
        BY <1>4 DEF BuildSucceeds, BuildFails, taskUnchanged, childVars, useVars
    <2> QED
        BY <2>1, <2>2, AppendKeeps
<1>5. CASE BuildFails /\ Builder \in {"config", "plugins"}
    BY <1>5, OthersKeep DEF BuildFails, taskUnchanged, childVars
<1>6. Builder # "sync" => \/ \E r \in BOOLEAN, b \in Callers : QueueSync(r, b)
                          \/ BuildFails /\ Builder \in {"config", "plugins"}
    <2>1. ASSUME Builder # "sync" PROVE Builder \in Callers /\ (Builder = "env") \in BOOLEAN
        BY <1>1, <2>1 DEF Builders
    <2> QED
        BY <2>1 DEF BuildSucceeds, BuildFails
<1> QED
    BY <1>2, <1>3, <1>4, <1>5, <1>6

\* Every step keeps one child at a time.
LEMMA StepKeepsChildInv == TypeInv /\ ChildInv /\ [Next]_vars => ChildInv'
<1> SUFFICES ASSUME TypeInv, ChildInv, [Next]_vars PROVE ChildInv'
    OBVIOUS
<1>1. ChildTypes /\ None \notin Children
    BY ChildTypesHold
<1>2. CASE UNCHANGED vars
    BY <1>2, OthersKeep DEF vars, mvars, childVars
<1>3. CASE \/ ConfigBegins \/ EnvBegins \/ PluginsCheck \/ EditConfig \/ EditPage \/ EditEnv
           \/ TabOpens \/ TabCloses
           \/ \E w \in Watchers : BatchIsCalled(w) \/ CallbackEnds(w)
           \/ \E p \in Packages : AddPlugin(p) \/ PageNeedsPackage(p)
           \/ \E r \in Requests : UseEnds(r)
    <2>1. CASE ConfigBegins \/ EnvBegins \/ PluginsCheck \/ EditConfig \/ EditPage \/ EditEnv
        BY <2>1, OthersKeep DEF ConfigBegins, EnvBegins, PluginsCheck, EditConfig, EditPage, EditEnv,
                                Edit, serverVars, useVars, childVars
    <2>2. CASE TabOpens \/ TabCloses \/ \E r \in Requests : UseEnds(r)
        BY <2>2, OthersKeep DEF TabOpens, TabCloses, UseEnds, serverVars, childVars
    <2>3. CASE \E w \in Watchers : BatchIsCalled(w) \/ CallbackEnds(w)
        BY <2>3, OthersKeep DEF BatchIsCalled, CallbackEnds, mvars, serverVars, useVars, childVars
    <2>4. CASE \E p \in Packages : AddPlugin(p) \/ PageNeedsPackage(p)
        BY <2>4, OthersKeep DEF AddPlugin, PageNeedsPackage, Edit, serverVars, useVars, childVars
    <2> QED
        BY <1>3, <2>1, <2>2, <2>3, <2>4
<1>4. CASE PackageBegins
    <2>1. SyncTask(FALSE, "package") \in Tasks /\ SyncTask(FALSE, "package").kind = "sync"
        BY ManagerAssumption DEF SyncTask, Tasks, Callers
    <2> QED
        BY <1>1, <1>4, <2>1, AppendKeeps DEF PackageBegins, QueueSync, useVars, childVars
<1>5. CASE IdleCheck
    <2>1. [kind |-> "stop"] \in Tasks
        BY DEF Tasks
    <2> QED
        BY <1>1, <1>5, <2>1, AppendKeeps DEF IdleCheck, useVars, childVars
<1>6. CASE QueueRuns \/ InstallFails
    BY <1>1, <1>6, SyncKeeps, SpawnKeeps, StopKeeps, WakeKeeps DEF QueueRuns
<1>7. CASE BuildSucceeds \/ BuildFails
    BY <1>1, <1>7, BuildKeeps
<1>8. CASE KillOld \/ \E c \in Children : ChildAnswers(c) \/ ChildExits(c)
    BY <1>1, <1>8, ChildStepKeeps
<1>9. CASE \E r \in Requests : UseBegins(r)
    BY <1>1, <1>9, UseKeeps
<1> QED
    BY <1>2, <1>3, <1>4, <1>5, <1>6, <1>7, <1>8, <1>9 DEF Next

LEMMA ChildSafety == Spec => [](TypeInv /\ ChildInv)
    BY InitTypeInv, InitChildInv, StepTyped, StepKeepsChildInv, PTL DEF Spec

\* No restart, install, stop or wake of the manager loses a child.
THEOREM ManagerKeepsItsChild == Spec => []NoOrphanChild
<1>1. ChildInv => NoOrphanChild
    BY DEF ChildInv
<1> QED
    BY <1>1, ChildSafety, PTL

\* A child stopped as unused stays down until it is asked for.
THEOREM ManagerKeepsStops == Spec => []StoppedIsUnused
<1>1. ChildInv => StoppedIsUnused
    BY DEF ChildInv, StopHolds, StoppedIsUnused
<1> QED
    BY <1>1, ChildSafety, PTL

\* Only the first start and a restart bring a child to life.
LEMMA OnlySpawnsStart ==
    ASSUME TypeInv, [Next]_vars, ~FirstStart, ~RestartSpawns, NEW c \in Children, Alive(c)'
    PROVE  Alive(c)
<1>1. ChildTypes
    BY ChildTypesHold
<1>2. CASE child' = child
    BY <1>2 DEF Alive
<1>3. CASE ShutdownServer
    BY <1>1, <1>3 DEF ShutdownServer, ChildTypes, ChildProcesses, Alive
<1>4. CASE KillOld \/ \E d \in Children : ChildAnswers(d) \/ ChildExits(d)
    BY <1>1, <1>4 DEF KillOld, ChildAnswers, ChildExits, ChildTypes, ChildProcesses, Alive, NoChild
<1>5. child' = child \/ ShutdownServer \/ KillOld
      \/ \E d \in Children : ChildAnswers(d) \/ ChildExits(d)
    <2>1. CASE UNCHANGED vars
        BY <2>1 DEF vars, mvars
    <2>2. CASE ConfigBegins \/ EnvBegins \/ PackageBegins \/ PluginsCheck
        BY <2>2 DEF ConfigBegins, EnvBegins, PackageBegins, PluginsCheck, serverVars
    <2>3. CASE EditConfig \/ EditPage \/ EditEnv
        BY <2>3 DEF EditConfig, EditPage, EditEnv, Edit, serverVars
    <2>4. CASE TabOpens \/ TabCloses \/ \E r \in Requests : UseBegins(r) \/ UseEnds(r)
        BY <2>4 DEF TabOpens, TabCloses, UseBegins, UseEnds, serverVars
    <2>5. CASE \E w \in Watchers : BatchIsCalled(w) \/ CallbackEnds(w)
        BY <2>5 DEF BatchIsCalled, CallbackEnds, mvars, serverVars
    <2>6. CASE \E p \in Packages : AddPlugin(p) \/ PageNeedsPackage(p)
        BY <2>6 DEF AddPlugin, PageNeedsPackage, Edit, serverVars
    <2>7. CASE QueueRuns \/ InstallFails
        BY <2>7 DEF QueueRuns, SyncBegins, InstallSucceeds, InstallFails, SyncOptimised, AnswerWaitEnds,
                    StopRuns, WakeRuns, RestartOrDefer, RestartBegins
    <2>8. CASE BuildSucceeds \/ BuildFails \/ IdleCheck
        BY <2>8 DEF BuildSucceeds, BuildFails, IdleCheck, RestartOrDefer, RestartBegins
    <2> QED
        BY <2>1, <2>2, <2>3, <2>4, <2>5, <2>6, <2>7, <2>8 DEF Next
<1> QED
    BY <1>2, <1>3, <1>4, <1>5

\* A new child never starts beside one that was not at least killed: the port
\* is free for it, and no two children serve the app.
THEOREM ManagerStartsAlone == Spec => StartsAlone
<1> DEFINE Starts == \A c \in Children :
              ~Alive(c) /\ child'[c].state = "booting"
                 => \A d \in Children \ {c} : Alive(d) => child[d].killed
<1>1. TypeInv /\ ChildInv /\ [Next]_vars => [Starts]_vars
    <2> SUFFICES ASSUME TypeInv, ChildInv, [Next]_vars,
                        NEW c \in Children, ~Alive(c), child'[c].state = "booting",
                        NEW d \in Children \ {c}, Alive(d)
                 PROVE  child[d].killed
        OBVIOUS
    <2>1. Alive(c)'
        BY DEF Alive
    <2>2. FirstStart \/ RestartSpawns
        BY <2>1, OnlySpawnsStart
    <2> QED
        BY <2>2, NoOtherAtSpawn, ChildTypesHold DEF NoOther
<1> QED
    BY <1>1, ChildSafety, PTL DEF Spec, StartsAlone
-----------------------------------------------------------------------------
(* What keeps a manager that is not busy up to date: whatever is not served yet is on  *)
(* its way, and what is on its way keeps the manager busy.                             *)

\* A watcher is handling its changes, or has yet to begin.
WatchersHandle ==
    \A w \in Watchers : /\ Handled(batch[w])
                        /\ call[w] # "none" => batch[w].running
                        /\ batch[w].taken # {} => batch[w].running
ToHandle(w, c) == c \in batch[w].args \/ (c \in batch[w].taken /\ call[w] = "none")

\* Each build, and each sync that is queued, is waited for by its own caller.
AwaitBuild == {b \in Builders : IF b = "sync" THEN AtStep("sync", "build") ELSE call[b] = "build"}
AwaitSync == {c \in Callers : call[c] = "sync"}
EachOnce(bs, callers) ==
    /\ \A i \in 1..Len(bs) : bs[i] \in callers
    /\ \A i, j \in 1..Len(bs) : bs[i] = bs[j] => i = j
SyncsOnce(q, callers) ==
    /\ \A i \in 1..Len(q) : q[i].kind = "sync" => q[i].by \in callers
    /\ \A i, j \in 1..Len(q) :
          q[i].kind = "sync" /\ q[j].kind = "sync" /\ q[i].by = q[j].by => i = j
CallersWait == EachOnce(builds, AwaitBuild) /\ SyncsOnce(queue, AwaitSync)

\* A task begins at its beginning, and an install has let go of the child.
StepsFit == /\ queue = <<>> => step = "begin"
            /\ step \in {"install", "build", "optimise"} => devServer = None

\* What is read of the config is never older than what was published.
VersionsGrow ==
    /\ tracker.art <= disk.art /\ disk.art <= source.art
    /\ builds # <<>> => disk.art <= built.art /\ built.art <= source.art

\* Of the last config is the build, the running build, or one to come.
BuildCatchesUp ==
    /\ lastBuildFailed \/ disk.art = source.art \/ ToHandle("config", "skeleton") \/ builds # <<>>
    /\ Len(builds) = 1 => built.art = source.art \/ ToHandle("config", "skeleton")
EnvCatchesUp == env = source.env \/ ToHandle("env", "env")

\* The running child is of what is published, or a sync that will replace it is queued.
ToCome(q, s, restarts) ==
    \E i \in 1..Len(q) : q[i].kind = "sync" /\ q[i].restart \in restarts /\ (i = 1 => s = "begin")
SyncToCome == ToCome(queue, step, BOOLEAN)
RestartToCome == ToCome(queue, step, {TRUE})
ChildIsCurrent(c) ==
    /\ tracker.art <= child[c].art /\ child[c].art <= disk.art
    /\ child[c].art = disk.art \/ SyncToCome
    /\ child[c].env = env \/ call["env"] = "build" \/ RestartToCome
ChildCatchesUp == devServer # None /\ Alive(devServer) => ChildIsCurrent(devServer)

IdleInv == /\ WatchersHandle /\ CallersWait /\ StepsFit /\ VersionsGrow
           /\ BuildCatchesUp /\ EnvCatchesUp /\ ChildCatchesUp

\* Builds and syncs that are queued, taken or left where they are.
LEMMA OnceKept ==
    ASSUME NEW q, NEW s, NEW t, s \subseteq t
    PROVE  /\ EachOnce(q, s) => EachOnce(q, t)
           /\ SyncsOnce(q, s) => SyncsOnce(q, t)
    BY DEF EachOnce, SyncsOnce

LEMMA OnceQueued ==
    ASSUME NEW S, NEW q \in Seq(S), NEW x \in S, NEW s, NEW t, s \subseteq t
    PROVE  /\ EachOnce(q, s) /\ x \notin s /\ x \in t => EachOnce(Append(q, x), t)
           /\ SyncsOnce(q, s) /\ x.kind # "sync" => SyncsOnce(Append(q, x), t)
           /\ SyncsOnce(q, s) /\ x.by \notin s /\ x.by \in t => SyncsOnce(Append(q, x), t)
<1>1. Len(Append(q, x)) = Len(q) + 1 /\ Len(q) \in Nat
    OBVIOUS
<1>2. \A i \in 1..Len(Append(q, x)) :
          \/ i \in 1..Len(q) /\ Append(q, x)[i] = q[i]
          \/ i = Len(q) + 1 /\ Append(q, x)[i] = x
    BY <1>1
<1> HIDE <1>1
<1>3. ASSUME EachOnce(q, s), x \notin s, x \in t PROVE EachOnce(Append(q, x), t)
    BY <1>2, <1>3 DEF EachOnce
<1>4. ASSUME SyncsOnce(q, s), x.kind # "sync" PROVE SyncsOnce(Append(q, x), t)
    BY <1>2, <1>4 DEF SyncsOnce
<1>5. ASSUME SyncsOnce(q, s), x.by \notin s, x.by \in t PROVE SyncsOnce(Append(q, x), t)
    BY <1>2, <1>5 DEF SyncsOnce
<1> QED
    BY <1>3, <1>4, <1>5

LEMMA OnceTaken ==
    ASSUME NEW S, NEW q \in Seq(S), q # <<>>, NEW s, NEW t
    PROVE  /\ EachOnce(q, s) /\ s \ {Head(q)} \subseteq t => EachOnce(Tail(q), t)
           /\ SyncsOnce(q, s) /\ s \subseteq t => SyncsOnce(Tail(q), t)
           /\ SyncsOnce(q, s) /\ Head(q).kind = "sync" /\ s \ {Head(q).by} \subseteq t
                 => SyncsOnce(Tail(q), t)
<1>1. \A i \in 1..Len(Tail(q)) : i + 1 \in 1..Len(q) /\ Tail(q)[i] = q[i + 1] /\ i + 1 # 1 /\ i \in Nat
    OBVIOUS
<1>2. Head(q) = q[1] /\ 1 \in 1..Len(q)
    OBVIOUS
<1>3. ASSUME EachOnce(q, s), s \ {Head(q)} \subseteq t PROVE EachOnce(Tail(q), t)
    <2>1. \A i \in 1..Len(Tail(q)) : Tail(q)[i] \in t
        BY <1>1, <1>2, <1>3 DEF EachOnce
    <2>2. \A i, j \in 1..Len(Tail(q)) : Tail(q)[i] = Tail(q)[j] => i + 1 = j + 1
        BY <1>1, <1>3 DEF EachOnce
    <2> QED
        BY <1>1, <2>1, <2>2 DEF EachOnce
<1>4. ASSUME SyncsOnce(q, s)
      PROVE  \A i, j \in 1..Len(Tail(q)) :
                 Tail(q)[i].kind = "sync" /\ Tail(q)[j].kind = "sync" /\ Tail(q)[i].by = Tail(q)[j].by
                     => i = j
    <2>1. \A i, j \in 1..Len(Tail(q)) :
                 Tail(q)[i].kind = "sync" /\ Tail(q)[j].kind = "sync" /\ Tail(q)[i].by = Tail(q)[j].by
                     => i + 1 = j + 1
        BY <1>1, <1>4 DEF SyncsOnce
    <2> QED
        BY <1>1, <2>1
<1>5. ASSUME SyncsOnce(q, s), s \subseteq t PROVE SyncsOnce(Tail(q), t)
    BY <1>1, <1>4, <1>5 DEF SyncsOnce
<1>6. ASSUME SyncsOnce(q, s), Head(q).kind = "sync", s \ {Head(q).by} \subseteq t
      PROVE  SyncsOnce(Tail(q), t)
    <2>1. \A i \in 1..Len(Tail(q)) : Tail(q)[i].kind = "sync" => Tail(q)[i].by \in t
        BY <1>1, <1>2, <1>6 DEF SyncsOnce
    <2> QED
        BY <1>4, <1>6, <2>1 DEF SyncsOnce
<1> QED
    BY <1>3, <1>5, <1>6

\* A sync that is to come stays so while tasks are queued, and while tasks before it run.
LEMMA ComesQueued ==
    ASSUME NEW q \in Seq(Tasks), NEW x \in Tasks, NEW s, NEW r, q = <<>> => s = "begin"
    PROVE  /\ ToCome(q, s, r) => ToCome(Append(q, x), s, r)
           /\ x.kind = "sync" /\ x.restart \in r => ToCome(Append(q, x), s, r)
<1>1. /\ \A i \in 1..Len(q) : i \in 1..Len(Append(q, x)) /\ Append(q, x)[i] = q[i]
      /\ Len(q) + 1 \in 1..Len(Append(q, x)) /\ Append(q, x)[Len(q) + 1] = x
      /\ Len(q) + 1 = 1 => q = <<>>
    OBVIOUS
<1>2. ASSUME ToCome(q, s, r) PROVE ToCome(Append(q, x), s, r)
    BY <1>1, <1>2 DEF ToCome
<1>3. ASSUME x.kind = "sync", x.restart \in r PROVE ToCome(Append(q, x), s, r)
    BY <1>1, <1>3 DEF ToCome
<1> QED
    BY <1>2, <1>3

LEMMA ComesTaken ==
    ASSUME NEW q \in Seq(Tasks), NEW s, NEW r, q # <<>>, ToCome(q, s, r),
           s = "begin" => Head(q).kind # "sync" \/ Head(q).restart \notin r
    PROVE  ToCome(Tail(q), "begin", r) /\ \A u : ToCome(q, u, r)
<1>1. PICK i \in 1..Len(q) : q[i].kind = "sync" /\ q[i].restart \in r /\ (i = 1 => s = "begin")
    BY DEF ToCome
<1>2. i # 1
    BY <1>1
<1>3. i - 1 \in 1..Len(Tail(q)) /\ Tail(q)[i - 1] = q[i]
    BY <1>2
<1> QED
    BY <1>1, <1>2, <1>3 DEF ToCome

-----------------------------------------------------------------------------
(* The steps, by what they do to who is called.                                        *)

\* A change comes or a timer fires, or the batches stay.
QuietBatches ==
    \/ UNCHANGED batch
    \/ \E w \in Watchers, c \in Changes : NewChange(w, c)
    \/ \E w \in Watchers : TimerFires(w)

\* The callbacks of watchers that run are those that ran.
SameRun == \A c \in Watchers : call'[c] = "none" <=> call[c] = "none"

\* A callback begins, and nothing else is called.
CallBegins(w) == Begins(w) /\ UNCHANGED batch /\ \E s \in {"build", "sync", "done"} :
                     call' = [call EXCEPT ![w] = s]

LEMMA EndTaskKeepsRun ==
    ASSUME TypeInv, CallersWait, Running, EndTask
    PROVE  SameRun
<1>1. 1 \in 1..Len(queue) /\ Task = queue[1] /\ Task \in Tasks
    BY DEF Running, Task, TypeInv, ManagerTypeOK
<1>2. Task.kind = "sync" => Task.by \in Callers /\ call[Task.by] = "sync"
    BY <1>1 DEF CallersWait, SyncsOnce, AwaitSync
<1>3. call \in [Callers -> {"none", "build", "sync", "done"}]
    BY DEF TypeInv, ManagerTypeOK
<1> QED
    BY <1>2, <1>3 DEF EndTask, SameRun, Callers

LEMMA BuildIsAwaited ==
    ASSUME TypeInv, CallersWait, builds # <<>>
    PROVE  /\ Builder \in AwaitBuild
           /\ Builder \in Builders /\ (Builder # "sync" => Builder \in Callers)
<1>1. 1 \in 1..Len(builds) /\ Builder = builds[1]
    BY DEF Builder, TypeInv, ManagerTypeOK
<1>2. Builder \in AwaitBuild
    BY <1>1 DEF CallersWait, EachOnce
<1> QED
    BY <1>2 DEF AwaitBuild, Builders

LEMMA BuildKeepsRun ==
    ASSUME TypeInv, CallersWait, BuildSucceeds \/ BuildFails
    PROVE  SameRun
<1>1. call \in [Callers -> {"none", "build", "sync", "done"}]
    BY DEF TypeInv, ManagerTypeOK
<1>2. builds # <<>>
    BY DEF BuildSucceeds, BuildFails
<1>3. Builder # "sync" => Builder \in Callers /\ call[Builder] = "build"
    BY <1>2, BuildIsAwaited DEF AwaitBuild
<1>4. CASE UNCHANGED call
    BY <1>4 DEF SameRun, Callers
<1>5. CASE Running /\ EndTask
    BY <1>5, EndTaskKeepsRun
<1>6. CASE Builder # "sync" /\ \E s \in {"sync", "done"} : call' = [call EXCEPT ![Builder] = s]
    BY <1>1, <1>3, <1>6 DEF SameRun, Callers
<1>7. CASE BuildSucceeds
    BY <1>4, <1>6, <1>7 DEF BuildSucceeds
<1>8. CASE BuildFails
    <2>1. CASE Builder = "sync" /\ AtStep("sync", "build") /\ RestartOrDefer
        BY <1>4, <1>5, <2>1 DEF RestartOrDefer, RestartBegins, AtStep
    <2>2. CASE Builder = "env" /\ call' = [call EXCEPT !["env"] = "sync"]
        BY <1>6, <2>2
    <2>3. CASE Builder \in {"config", "plugins"} /\ call' = [call EXCEPT ![Builder] = "done"]
        BY <1>6, <2>3
    <2> QED
        BY <1>8, <2>1, <2>2, <2>3 DEF BuildFails
<1> QED
    BY <1>7, <1>8

\* What a task of the queue does beside the child: it ends, or goes on to another step.
TaskMoves ==
    /\ Running /\ UNCHANGED <<batch, source, env, disk, lastBuildFailed>>
    /\ EndTask \/ UNCHANGED <<queue, call>>

LEMMA TasksMove ==
    ASSUME QueueRuns \/ InstallFails
    PROVE  TaskMoves
<1>1. CASE SyncBegins
    BY <1>1 DEF SyncBegins, AtStep, taskUnchanged, TaskMoves, RestartOrDefer, RestartBegins
<1>2. CASE InstallSucceeds
    BY <1>2 DEF InstallSucceeds, AtStep, TaskMoves
<1>3. CASE InstallFails \/ SyncOptimised
    BY <1>3 DEF InstallFails, SyncOptimised, AtStep, taskUnchanged, TaskMoves, RestartOrDefer, RestartBegins
<1>4. CASE FirstStart \/ RestartSpawns
    BY <1>4 DEF FirstStart, RestartSpawns, AtStep, taskUnchanged, TaskMoves
<1>5. CASE AnswerWaitEnds
    BY <1>5 DEF AnswerWaitEnds, taskUnchanged, TaskMoves
<1>6. CASE StopRuns
    BY <1>6 DEF StopRuns, AtStep, idleUnchanged, buildVars, TaskMoves
<1>7. CASE WakeRuns
    BY <1>7 DEF WakeRuns, AtStep, taskUnchanged, TaskMoves, RestartBegins
<1> QED
    BY <1>1, <1>2, <1>3, <1>4, <1>5, <1>6, <1>7 DEF QueueRuns

\* Every step lets a callback of a watcher begin, or end, or leaves who runs.
LEMMA StepsByRun ==
    ASSUME TypeInv, CallersWait, [Next]_vars
    PROVE  \/ QuietBatches /\ SameRun
           \/ ConfigBegins /\ CallBegins("config")
           \/ EnvBegins /\ CallBegins("env")
           \/ PackageBegins /\ CallBegins("package")
           \/ \E w \in Watchers : CallbackEnds(w)
<1> USE ManagerAssumption
<1>1. CASE UNCHANGED vars
    BY <1>1 DEF vars, mvars, QuietBatches, SameRun
<1>2. CASE ConfigBegins
    <2>1. \E s \in {"build", "sync", "done"} : call' = [call EXCEPT !["config"] = s]
        BY <1>2 DEF ConfigBegins
    <2> QED
        BY <1>2, <2>1 DEF ConfigBegins, CallBegins
<1>3. CASE EnvBegins
    BY <1>3 DEF EnvBegins, CallBegins
<1>4. CASE PackageBegins
    BY <1>4 DEF PackageBegins, CallBegins
<1>5. CASE PluginsCheck
    <2>1. \A w \in Watchers : call'[w] = call[w]
        BY <1>5 DEF PluginsCheck, TypeInv, ManagerTypeOK, Callers
    <2> QED
        BY <1>5, <2>1 DEF PluginsCheck, QuietBatches, SameRun
<1>6. CASE EditConfig \/ EditPage \/ EditEnv \/ \E p \in Packages : AddPlugin(p) \/ PageNeedsPackage(p)
    BY <1>6 DEF EditConfig, EditPage, EditEnv, AddPlugin, PageNeedsPackage, Edit, QuietBatches, SameRun
<1>7. CASE \E w \in Watchers : BatchIsCalled(w)
    BY <1>7 DEF BatchIsCalled, mvars, QuietBatches, SameRun
<1>8. CASE BuildSucceeds \/ BuildFails
    <2>1. SameRun
        BY <1>8, BuildKeepsRun
    <2>2. QuietBatches
        BY <1>8 DEF BuildSucceeds, BuildFails, QuietBatches
    <2> QED
        BY <2>1, <2>2
<1>9. CASE QueueRuns \/ InstallFails
    <2>1. TaskMoves
        BY <1>9, TasksMove
    <2>2. SameRun
        BY <2>1, EndTaskKeepsRun DEF TaskMoves, SameRun
    <2> QED
        BY <2>1, <2>2 DEF TaskMoves, QuietBatches
<1>10. CASE IdleCheck \/ TabOpens \/ TabCloses \/ \E r \in Requests : UseBegins(r) \/ UseEnds(r)
    BY <1>10 DEF IdleCheck, TabOpens, TabCloses, UseBegins, UseEnds, idleUnchanged, QuietBatches, SameRun
<1>11. CASE KillOld \/ \E c \in Children : ChildAnswers(c) \/ ChildExits(c)
    BY <1>11 DEF KillOld, ChildAnswers, ChildExits, childUnchanged, QuietBatches, SameRun
<1> QED
    BY <1>1, <1>2, <1>3, <1>4, <1>5, <1>6, <1>7, <1>8, <1>9, <1>10, <1>11 DEF Next

\* A watcher's batch after a quiet step: whatever waits for its callback still does.
LEMMA QuietRun ==
    ASSUME TypeInv, WatchersHandle, QuietBatches, SameRun
    PROVE  /\ WatchersHandle'
           /\ \A w \in Watchers : \A c : ToHandle(w, c) => ToHandle(w, c)'
<1>1. batch \in [Watchers -> Batches]
    BY DEF TypeInv, ManagerTypeOK, BatchTypeOK
<1>2. ASSUME NEW w \in Watchers
      PROVE  \/ batch'[w] = batch[w]
             \/ \E c \in Changes : batch'[w] = Notified(batch[w], c)
             \/ batch[w].timer /\ batch'[w] = Called(batch[w])
    BY <1>1 DEF QuietBatches, NewChange, TimerFires
<1>3. ASSUME NEW w \in Watchers
      PROVE  /\ Handled(batch'[w])
             /\ call'[w] # "none" => batch'[w].running
             /\ batch'[w].taken # {} => batch'[w].running
             /\ \A c : ToHandle(w, c) => ToHandle(w, c)'
    <2> DEFINE b == batch[w]
    <2>1. /\ b \in Batches /\ Handled(b)
          /\ call[w] # "none" => b.running
          /\ b.taken # {} => b.running
          /\ call'[w] = "none" <=> call[w] = "none"
        BY <1>1 DEF WatchersHandle, SameRun
    <2>2. CASE batch'[w] = b
        BY <2>1, <2>2 DEF ToHandle
    <2>3. CASE \E c \in Changes : batch'[w] = Notified(b, c)
        BY <2>1, <2>3 DEF ToHandle, Notified, Handled, Batches
    <2>4. CASE b.timer /\ batch'[w] = Called(b)
        BY <2>1, <2>4 DEF ToHandle, Called, Handled, Batches
    <2> QED
        BY <1>2, <2>2, <2>3, <2>4
<1> QED
    BY <1>3 DEF WatchersHandle

\* A new change is to be handled.
LEMMA ChangeIsToHandle ==
    ASSUME TypeInv, NEW w \in Watchers, NEW c \in Changes, NewChange(w, c)
    PROVE  ToHandle(w, c)'
    BY DEF TypeInv, ManagerTypeOK, BatchTypeOK, Batches, NewChange, Notified, ToHandle

\* A callback that begins handles what was taken for it; the others' changes wait.
LEMMA BeginsRun ==
    ASSUME TypeInv, WatchersHandle, NEW w \in Watchers, CallBegins(w)
    PROVE  /\ WatchersHandle'
           /\ \A v \in Watchers : \A c :
                 ToHandle(v, c) /\ (v # w \/ c \notin batch[w].taken) => ToHandle(v, c)'
<1>1. /\ batch' = batch /\ batch[w].running
      /\ call'[w] # "none"
      /\ \A v \in Watchers \ {w} : call'[v] = call[v]
    BY DEF CallBegins, Begins, TypeInv, ManagerTypeOK, Callers
<1> QED
    BY <1>1 DEF WatchersHandle, ToHandle

\* A callback that ends leaves what came during it to the next one.
LEMMA EndsRun ==
    ASSUME TypeInv, WatchersHandle, NEW w \in Watchers, CallbackEnds(w)
    PROVE  /\ WatchersHandle'
           /\ \A v \in Watchers : \A c : ToHandle(v, c) => ToHandle(v, c)'
<1>1. /\ batch' = [batch EXCEPT ![w] = Settled(@)] /\ batch[w].running
      /\ call[w] = "done" /\ call' = [call EXCEPT ![w] = "none"]
    BY DEF CallbackEnds, CallEnds
<1>2. batch \in [Watchers -> Batches] /\ w \in Callers /\ Watchers \subseteq Callers
    BY DEF TypeInv, ManagerTypeOK, BatchTypeOK, Callers
<1>3. \A v \in Watchers \ {w} : call'[v] = call[v] /\ batch'[v] = batch[v]
    BY <1>1, <1>2 DEF TypeInv, ManagerTypeOK
<1>4. call'[w] = "none" /\ batch'[w] = Settled(batch[w])
    BY <1>1, <1>2 DEF TypeInv, ManagerTypeOK
<1> DEFINE b == batch[w]
<1>5. b \in Batches /\ Handled(b) /\ b.running
    BY <1>1, <1>2 DEF WatchersHandle
<1>6. /\ Handled(Settled(b))
      /\ Settled(b).taken # {} => Settled(b).running
      /\ \A c \in b.args : c \in Settled(b).taken
    BY <1>5 DEF Settled, Called, Handled, Batches
<1>7. \A c : ToHandle(w, c) => ToHandle(w, c)'
    BY <1>1, <1>4, <1>6 DEF ToHandle
<1>8. \A v \in Watchers \ {w} : \A c : ToHandle(v, c) => ToHandle(v, c)'
    BY <1>3 DEF ToHandle
<1>9. ASSUME NEW v \in Watchers
      PROVE  /\ Handled(batch'[v])
             /\ call'[v] # "none" => batch'[v].running
             /\ batch'[v].taken # {} => batch'[v].running
    BY <1>3, <1>4, <1>6 DEF WatchersHandle
<1> QED
    BY <1>7, <1>8, <1>9 DEF WatchersHandle

\* Only the beginning of its own callback takes a change out of what is to be handled.
LEMMA RunKept ==
    ASSUME TypeInv, WatchersHandle, CallersWait, [Next]_vars
    PROVE  /\ WatchersHandle'
           /\ ~ConfigBegins => (ToHandle("config", "skeleton") => ToHandle("config", "skeleton")')
           /\ ~EnvBegins => (ToHandle("env", "env") => ToHandle("env", "env")')
<1> USE ManagerAssumption
<1>1. CASE QuietBatches /\ SameRun
    BY <1>1, QuietRun
<1>2. CASE \E w \in Watchers : CallbackEnds(w)
    BY <1>2, EndsRun
<1>3. CASE ConfigBegins /\ CallBegins("config")
    BY <1>3, BeginsRun
<1>4. CASE EnvBegins /\ CallBegins("env")
    BY <1>4, BeginsRun
<1>5. CASE PackageBegins /\ CallBegins("package")
    BY <1>5, BeginsRun
<1> QED
    BY <1>1, <1>2, <1>3, <1>4, <1>5, StepsByRun

-----------------------------------------------------------------------------
(* Who waits for a build or a sync.                                                    *)

SyncBuilds == AtStep("sync", "build")

\* One caller moves from one place to another.
CallerMoves(c, s, t) == call[c] = s /\ call' = [call EXCEPT ![c] = t]

LEMMA CallerMoved ==
    ASSUME TypeInv, NEW c \in Callers, NEW s, NEW t \in {"none", "build", "sync", "done"},
           CallerMoves(c, s, t), SyncBuilds => SyncBuilds'
    PROVE  /\ AwaitBuild \ {c} \subseteq AwaitBuild' /\ AwaitSync \ {c} \subseteq AwaitSync'
           /\ s # "build" => c \notin AwaitBuild /\ AwaitBuild \subseteq AwaitBuild'
           /\ s # "sync" => c \notin AwaitSync /\ AwaitSync \subseteq AwaitSync'
           /\ t = "build" => c \in AwaitBuild'
           /\ t = "sync" => c \in AwaitSync'
<1>1. /\ call'[c] = t /\ call[c] = s
      /\ \A d \in Callers \ {c} : call'[d] = call[d]
    BY DEF CallerMoves, TypeInv, ManagerTypeOK
<1>2. c # "sync" /\ c \in Builders /\ Callers \subseteq Builders
    BY ManagerAssumption DEF Callers, Builders
<1>3. /\ AwaitBuild = {b \in Builders : IF b = "sync" THEN SyncBuilds ELSE call[b] = "build"}
      /\ AwaitBuild' = {b \in Builders : IF b = "sync" THEN SyncBuilds' ELSE call'[b] = "build"}
    BY DEF AwaitBuild, SyncBuilds
<1>4. \A b \in Builders : b # "sync" => b \in Callers
    BY DEF Builders
<1>5. AwaitSync \ {c} \subseteq AwaitSync'
    BY <1>1 DEF AwaitSync
<1>6. AwaitBuild \ {c} \subseteq AwaitBuild'
    BY <1>1, <1>3, <1>4
<1>7. s # "build" => c \notin AwaitBuild
    BY <1>1, <1>2, <1>3
<1>8. s # "sync" => c \notin AwaitSync
    BY <1>1 DEF AwaitSync
<1>9. (t = "build" => c \in AwaitBuild') /\ (t = "sync" => c \in AwaitSync')
    BY <1>1, <1>2, <1>3 DEF AwaitSync
<1> QED
    BY <1>5, <1>6, <1>7, <1>8, <1>9

LEMMA CallersStay ==
    ASSUME UNCHANGED call, SyncBuilds => SyncBuilds'
    PROVE  AwaitBuild \subseteq AwaitBuild' /\ AwaitSync \subseteq AwaitSync'
<1>1. /\ AwaitBuild = {b \in Builders : IF b = "sync" THEN SyncBuilds ELSE call[b] = "build"}
      /\ AwaitBuild' = {b \in Builders : IF b = "sync" THEN SyncBuilds' ELSE call'[b] = "build"}
    BY DEF AwaitBuild, SyncBuilds
<1> QED
    BY <1>1 DEF AwaitSync

\* A step that leaves both queues.
LEMMA WaitStays ==
    ASSUME CallersWait, UNCHANGED <<builds, queue>>,
           AwaitBuild \subseteq AwaitBuild', AwaitSync \subseteq AwaitSync'
    PROVE  CallersWait'
    BY OnceKept DEF CallersWait

\* A task other than a sync is queued.
LEMMA WaitQueued ==
    ASSUME TypeInv, CallersWait, NEW x \in Tasks, queue' = Append(queue, x), x.kind \notin {"sync", "first"},
           UNCHANGED <<builds, call, step>>
    PROVE  CallersWait'
<1>1. queue \in Seq(Tasks)
    BY DEF TypeInv, ManagerTypeOK
<1>2. SyncBuilds => SyncBuilds'
    <2>1. Running => Task' = Task /\ Running'
        BY <1>1, HeadStays DEF Running
    <2> QED
        BY <2>1 DEF SyncBuilds, AtStep
<1>3. AwaitBuild \subseteq AwaitBuild' /\ AwaitSync \subseteq AwaitSync'
    BY <1>2, CallersStay
<1>4. SyncsOnce(queue', AwaitSync')
    BY <1>1, <1>3, OnceQueued DEF CallersWait
<1>5. EachOnce(builds', AwaitBuild')
    BY <1>3, OnceKept DEF CallersWait
<1> QED
    BY <1>4, <1>5 DEF CallersWait

\* A caller queues its sync.
LEMMA SyncQueued ==
    ASSUME TypeInv, CallersWait, StepsFit, NEW c \in Callers, NEW r \in BOOLEAN,
           QueueSync(r, c), UNCHANGED step
    PROVE  /\ queue \in Seq(Tasks) /\ SyncTask(r, c) \in Tasks
           /\ SyncBuilds => SyncBuilds'
           /\ c \notin AwaitSync /\ AwaitSync \subseteq AwaitSync' /\ c \in AwaitSync'
                 => SyncsOnce(queue', AwaitSync')
<1>1. queue \in Seq(Tasks)
    BY DEF TypeInv, ManagerTypeOK
<1>2. SyncTask(r, c) \in Tasks /\ SyncTask(r, c).kind = "sync" /\ SyncTask(r, c).by = c
    BY DEF SyncTask, Tasks
<1>3. SyncBuilds => SyncBuilds'
    <2>1. Running => Task' = Task /\ Running'
        BY <1>1, <1>2, HeadStays DEF QueueSync, Running
    <2> QED
        BY <2>1 DEF SyncBuilds, AtStep
<1>4. ASSUME c \notin AwaitSync, AwaitSync \subseteq AwaitSync', c \in AwaitSync'
      PROVE  SyncsOnce(queue', AwaitSync')
    BY <1>1, <1>2, <1>4, OnceQueued DEF CallersWait, QueueSync
<1> QED
    BY <1>1, <1>2, <1>3, <1>4

\* A callback begins: it returns at once, or queues its build.
LEMMA BuildAsked ==
    ASSUME TypeInv, CallersWait, NEW c \in Callers, UNCHANGED <<queue, step>>,
           \/ QueueBuild(c) /\ CallerMoves(c, "none", "build")
           \/ UNCHANGED builds /\ \E s \in {"none", "done"}, t \in {"none", "done"} : CallerMoves(c, s, t)
    PROVE  CallersWait'
<1>1. SyncBuilds => SyncBuilds'
    BY DEF SyncBuilds, AtStep, Running, Task
<1>2. CASE QueueBuild(c) /\ CallerMoves(c, "none", "build")
    <2>1. /\ c \notin AwaitBuild /\ AwaitBuild \subseteq AwaitBuild' /\ c \in AwaitBuild'
          /\ AwaitSync \subseteq AwaitSync'
        BY <1>1, <1>2, CallerMoved
    <2>2. builds \in Seq(Builders) /\ c \in Builders
        BY DEF TypeInv, ManagerTypeOK, Builders
    <2>3. EachOnce(builds', AwaitBuild')
        BY <1>2, <2>1, <2>2, OnceQueued DEF CallersWait, QueueBuild
    <2>4. SyncsOnce(queue', AwaitSync')
        BY <2>1, OnceKept DEF CallersWait
    <2> QED
        BY <2>3, <2>4 DEF CallersWait
<1>3. CASE UNCHANGED builds /\ \E s \in {"none", "done"}, t \in {"none", "done"} : CallerMoves(c, s, t)
    <2>1. AwaitBuild \subseteq AwaitBuild' /\ AwaitSync \subseteq AwaitSync'
        BY <1>1, <1>3, CallerMoved
    <2> QED
        BY <1>3, <2>1, WaitStays
<1> QED
    BY <1>2, <1>3

LEMMA PackageWaits ==
    ASSUME TypeInv, CallersWait, StepsFit, PackageBegins
    PROVE  CallersWait'
<1>1. "package" \in Callers /\ CallerMoves("package", "none", "sync") /\ QueueSync(FALSE, "package")
    BY ManagerAssumption DEF PackageBegins, Begins, CallerMoves, Callers
<1>2. UNCHANGED <<step, builds>>
    BY DEF PackageBegins, buildVars
<1>3. SyncBuilds => SyncBuilds'
    BY <1>1, <1>2, SyncQueued
<1>4. /\ AwaitBuild \subseteq AwaitBuild' /\ AwaitSync \subseteq AwaitSync'
      /\ "package" \notin AwaitSync /\ "package" \in AwaitSync'
    BY <1>1, <1>3, CallerMoved
<1>5. SyncsOnce(queue', AwaitSync')
    BY <1>1, <1>2, <1>4, SyncQueued
<1>6. EachOnce(builds', AwaitBuild')
    BY <1>2, <1>4, OnceKept DEF CallersWait
<1> QED
    BY <1>5, <1>6 DEF CallersWait

\* A task ends: its caller waits no longer.
LEMMA TaskEnds ==
    ASSUME TypeInv, CallersWait, Running, EndTask
    PROVE  /\ SyncsOnce(queue', AwaitSync')
           /\ AwaitBuild \ {"sync"} \subseteq AwaitBuild'
<1>1. queue \in Seq(Tasks) /\ queue # <<>> /\ queue' = Tail(queue)
    BY DEF TypeInv, ManagerTypeOK, Running, EndTask
<1>2. Task = Head(queue) /\ Task = queue[1] /\ 1 \in 1..Len(queue) /\ Task \in Tasks
    BY <1>1 DEF Task
<1>3. CASE Task.kind = "sync"
    <2>1. Task.by \in Callers /\ call[Task.by] = "sync" /\ call' = [call EXCEPT ![Task.by] = "done"]
        BY <1>2, <1>3 DEF CallersWait, SyncsOnce, AwaitSync, EndTask
    <2>2. /\ call'[Task.by] = "done"
          /\ \A d \in Callers \ {Task.by} : call'[d] = call[d]
        BY <2>1 DEF TypeInv, ManagerTypeOK
    <2>3. AwaitSync \ {Task.by} \subseteq AwaitSync'
        BY <2>2 DEF AwaitSync
    <2>4. AwaitBuild \ {"sync"} \subseteq AwaitBuild'
        BY <2>1, <2>2 DEF AwaitBuild, Builders
    <2> QED
        BY <1>1, <1>2, <1>3, <2>3, <2>4, OnceTaken DEF CallersWait
<1>4. CASE Task.kind # "sync"
    <2>1. AwaitSync \subseteq AwaitSync' /\ AwaitBuild \ {"sync"} \subseteq AwaitBuild'
        BY <1>4 DEF EndTask, AwaitSync, AwaitBuild
    <2> QED
        BY <1>1, <2>1, OnceTaken DEF CallersWait
<1> QED
    BY <1>3, <1>4

\* A task of the queue that does not wait for its build ends or goes on.
LEMMA TaskWaits ==
    ASSUME TypeInv, CallersWait, TaskMoves, ~SyncBuilds, UNCHANGED builds
    PROVE  CallersWait'
<1>1. "sync" \notin AwaitBuild
    BY DEF AwaitBuild, SyncBuilds
<1>2. CASE EndTask
    <2>1. SyncsOnce(queue', AwaitSync') /\ AwaitBuild \subseteq AwaitBuild'
        BY <1>1, <1>2, TaskEnds DEF TaskMoves
    <2> QED
        BY <2>1, OnceKept DEF CallersWait
<1>3. CASE UNCHANGED <<queue, call>>
    BY <1>3, CallersStay, WaitStays
<1> QED
    BY <1>2, <1>3 DEF TaskMoves

LEMMA InstallWaits ==
    ASSUME TypeInv, CallersWait, InstallSucceeds
    PROVE  CallersWait'
<1>1. QueueBuild("sync") /\ UNCHANGED <<queue, call>>
    BY DEF InstallSucceeds
<1>2. "sync" \notin AwaitBuild /\ "sync" \in AwaitBuild'
    BY DEF InstallSucceeds, AwaitBuild, AtStep, Running, Task, Builders
<1>3. ~SyncBuilds
    BY DEF InstallSucceeds, SyncBuilds, AtStep
<1>4. AwaitBuild \subseteq AwaitBuild' /\ AwaitSync \subseteq AwaitSync'
    BY <1>1, <1>3, CallersStay
<1>5. builds \in Seq(Builders) /\ "sync" \in Builders
    BY DEF TypeInv, ManagerTypeOK, Builders
<1>6. EachOnce(builds', AwaitBuild')
    BY <1>1, <1>2, <1>4, <1>5, OnceQueued DEF CallersWait, QueueBuild
<1>7. SyncsOnce(queue', AwaitSync')
    BY <1>1, <1>4, OnceKept DEF CallersWait
<1> QED
    BY <1>6, <1>7 DEF CallersWait

LEMMA BuildWaits ==
    ASSUME TypeInv, CallersWait, StepsFit, BuildSucceeds \/ BuildFails
    PROVE  CallersWait'
<1>1. builds # <<>> /\ builds' = Tail(builds) /\ builds \in Seq(Builders) /\ Builder = Head(builds)
    BY DEF BuildSucceeds, BuildFails, NextBuild, TypeInv, ManagerTypeOK, Builder
<1>2. Builder \in AwaitBuild /\ (Builder # "sync" => Builder \in Callers)
    BY <1>1, BuildIsAwaited
<1>3. AwaitBuild \ {Builder} \subseteq AwaitBuild' => EachOnce(builds', AwaitBuild')
    BY <1>1, OnceTaken DEF CallersWait
<1>4. CASE Builder = "sync" /\ UNCHANGED <<queue, call>>
    <2>1. AwaitBuild \ {"sync"} \subseteq AwaitBuild' /\ AwaitSync \subseteq AwaitSync'
        BY <1>4 DEF AwaitBuild, AwaitSync
    <2> QED
        BY <1>3, <1>4, <2>1, OnceKept DEF CallersWait
<1>5. CASE Builder = "sync" /\ Running /\ EndTask
    BY <1>3, <1>5, TaskEnds DEF CallersWait
<1>6. CASE Builder # "sync" /\ UNCHANGED step /\ CallerMoves(Builder, "build", "sync")
           /\ \E r \in BOOLEAN : QueueSync(r, Builder)
    <2>1. SyncBuilds => SyncBuilds'
        BY <1>2, <1>6, SyncQueued
    <2>2. /\ AwaitBuild \ {Builder} \subseteq AwaitBuild' /\ AwaitSync \subseteq AwaitSync'
          /\ Builder \notin AwaitSync /\ Builder \in AwaitSync'
        BY <1>2, <1>6, <2>1, CallerMoved
    <2>3. SyncsOnce(queue', AwaitSync')
        BY <1>2, <1>6, <2>2, SyncQueued
    <2> QED
        BY <1>3, <2>2, <2>3 DEF CallersWait
<1>7. CASE Builder # "sync" /\ UNCHANGED <<step, queue>> /\ CallerMoves(Builder, "build", "done")
    <2>1. SyncBuilds => SyncBuilds'
        BY <1>7 DEF SyncBuilds, AtStep, Running, Task
    <2>2. AwaitBuild \ {Builder} \subseteq AwaitBuild' /\ AwaitSync \subseteq AwaitSync'
        BY <1>2, <1>7, <2>1, CallerMoved
    <2> QED
        BY <1>3, <1>7, <2>2, OnceKept DEF CallersWait
<1>8. Builder # "sync" => call[Builder] = "build"
    BY <1>2 DEF AwaitBuild
<1>9. CASE BuildSucceeds
    <2>1. (Builder = "env") \in BOOLEAN
        OBVIOUS
    <2> QED
        BY <1>4, <1>6, <1>8, <1>9, <2>1 DEF BuildSucceeds, CallerMoves
<1>10. CASE BuildFails
    <2>1. CASE Builder = "sync" /\ AtStep("sync", "build") /\ RestartOrDefer
        BY <1>4, <1>5, <2>1 DEF RestartOrDefer, RestartBegins, AtStep
    <2>2. CASE Builder = "env" /\ QueueSync(TRUE, "env") /\ call' = [call EXCEPT !["env"] = "sync"]
               /\ UNCHANGED step
        BY <1>6, <1>8, <2>2 DEF CallerMoves
    <2>3. CASE Builder \in {"config", "plugins"} /\ call' = [call EXCEPT ![Builder] = "done"]
               /\ UNCHANGED <<step, queue>>
        BY <1>7, <1>8, <2>3 DEF CallerMoves
    <2> QED
        BY <1>10, <2>1, <2>2, <2>3 DEF BuildFails
<1> QED
    BY <1>9, <1>10

LEMMA WaitKept ==
    ASSUME TypeInv, CallersWait, StepsFit, [Next]_vars
    PROVE  CallersWait'
<1> USE ManagerAssumption
<1>1. ASSUME UNCHANGED <<call, builds, queue, step>> PROVE CallersWait'
    <2>1. SyncBuilds => SyncBuilds'
        BY <1>1 DEF SyncBuilds, AtStep, Running, Task
    <2> QED
        BY <1>1, <2>1, CallersStay, WaitStays
<1>2. CASE UNCHANGED vars
    BY <1>1, <1>2 DEF vars, mvars
<1>3. CASE ConfigBegins \/ EnvBegins \/ PluginsCheck
    <2>1. {"config", "env", "plugins"} \subseteq Callers
        BY DEF Callers
    <2>2. CASE ConfigBegins
        BY <2>1, <2>2, BuildAsked DEF ConfigBegins, Begins, serverVars, CallerMoves
    <2>3. CASE EnvBegins
        BY <2>1, <2>3, BuildAsked DEF EnvBegins, Begins, serverVars, CallerMoves
    <2>4. CASE PluginsCheck
        BY <2>1, <2>4, BuildAsked DEF PluginsCheck, serverVars, CallerMoves
    <2> QED
        BY <1>3, <2>2, <2>3, <2>4
<1>4. CASE PackageBegins
    BY <1>4, PackageWaits
<1>5. CASE \E w \in Watchers : CallbackEnds(w)
    BY <1>5, BuildAsked DEF CallbackEnds, buildVars, serverVars, CallerMoves, Callers
<1>6. CASE \/ EditConfig \/ EditPage \/ EditEnv
           \/ \E p \in Packages : AddPlugin(p) \/ PageNeedsPackage(p)
    BY <1>1, <1>6 DEF EditConfig, EditPage, EditEnv, AddPlugin, PageNeedsPackage, Edit, buildVars, serverVars
<1>7. CASE TabOpens \/ TabCloses \/ \E r \in Requests : UseEnds(r)
    BY <1>1, <1>7 DEF TabOpens, TabCloses, UseEnds, idleUnchanged, buildVars, serverVars
<1>8. CASE \E w \in Watchers : BatchIsCalled(w)
    BY <1>1, <1>8 DEF BatchIsCalled, mvars
<1>9. CASE KillOld \/ \E c \in Children : ChildAnswers(c) \/ ChildExits(c)
    BY <1>1, <1>9 DEF KillOld, ChildAnswers, ChildExits, childUnchanged, buildVars, taskUnchanged
<1>10. CASE BuildSucceeds \/ BuildFails
    BY <1>10, BuildWaits
<1>11. CASE InstallSucceeds
    BY <1>11, InstallWaits
<1>12. ASSUME QueueRuns \/ InstallFails, ~InstallSucceeds PROVE CallersWait'
    <2>1. TaskMoves
        BY <1>12, TasksMove
    <2>2. ~SyncBuilds
        BY <1>12 DEF QueueRuns, InstallFails, SyncBegins, SyncOptimised, FirstStart, RestartSpawns,
                     AnswerWaitEnds, StopRuns, WakeRuns, AtStep, SyncBuilds
    <2>3. UNCHANGED builds
        BY <1>12 DEF QueueRuns, InstallFails, SyncBegins, SyncOptimised, FirstStart, RestartSpawns,
                     AnswerWaitEnds, StopRuns, WakeRuns, idleUnchanged, buildVars
    <2> QED
        BY <2>1, <2>2, <2>3, TaskWaits
<1>13. ASSUME NEW x \in Tasks, queue' = Append(queue, x), x.kind \notin {"sync", "first"},
              UNCHANGED <<builds, call, step>>
       PROVE  CallersWait'
    BY <1>13, WaitQueued
<1>14. CASE IdleCheck
    <2>1. [kind |-> "stop"] \in Tasks
        BY DEF Tasks
    <2> QED
        BY <1>13, <1>14, <2>1 DEF IdleCheck, idleUnchanged, buildVars
<1>15. CASE \E r \in Requests : UseBegins(r)
    <2>1. [kind |-> "wake"] \in Tasks
        BY DEF Tasks
    <2>2. CASE stopped
        BY <1>13, <1>15, <2>1, <2>2 DEF UseBegins, idleUnchanged, buildVars
    <2>3. CASE ~stopped
        BY <1>1, <1>15, <2>3 DEF UseBegins, idleUnchanged, buildVars
    <2> QED
        BY <2>2, <2>3
<1> QED
    BY <1>2, <1>3, <1>4, <1>5, <1>6, <1>7, <1>8, <1>9, <1>10, <1>11, <1>12, <1>14, <1>15 DEF Next

-----------------------------------------------------------------------------
(* Where a task stands.                                                                *)

LEMMA FitKept ==
    ASSUME TypeInv, ChildInv, StepsFit, [Next]_vars
    PROVE  StepsFit'
<1> USE ManagerAssumption
<1>1. ASSUME UNCHANGED <<step, devServer>>, queue = <<>> \/ queue' # <<>> PROVE StepsFit'
    BY <1>1 DEF StepsFit
<1>2. ASSUME EndTask PROVE StepsFit'
    BY <1>2 DEF StepsFit, EndTask
<1>3. ASSUME Running, RestartBegins PROVE StepsFit'
    BY <1>3 DEF StepsFit, RestartBegins, Running
<1>4. ASSUME Running, RestartOrDefer PROVE StepsFit'
    BY <1>2, <1>3, <1>4 DEF RestartOrDefer
<1>5. ASSUME Running, Spawn, UNCHANGED queue PROVE StepsFit'
    BY <1>5 DEF StepsFit, Spawn, Running
<1>6. queue \in Seq(Tasks)
    BY DEF TypeInv, ManagerTypeOK
<1>7. ASSUME NEW x, queue' = Append(queue, x), UNCHANGED <<step, devServer>> PROVE StepsFit'
    <2>1. queue' # <<>>
        BY <1>6, <1>7
    <2> QED
        BY <1>1, <1>7, <2>1
<1>8. CASE UNCHANGED vars
    BY <1>1, <1>8 DEF vars, mvars
<1>9. CASE ConfigBegins \/ EnvBegins \/ PluginsCheck \/ \E w \in Watchers : CallbackEnds(w)
    BY <1>1, <1>9 DEF ConfigBegins, EnvBegins, PluginsCheck, CallbackEnds, serverVars
<1>10. CASE PackageBegins
    BY <1>7, <1>10 DEF PackageBegins, QueueSync
<1>11. CASE \/ EditConfig \/ EditPage \/ EditEnv
            \/ \E p \in Packages : AddPlugin(p) \/ PageNeedsPackage(p)
    BY <1>1, <1>11 DEF EditConfig, EditPage, EditEnv, AddPlugin, PageNeedsPackage, Edit, serverVars
<1>12. CASE TabOpens \/ TabCloses \/ \E r \in Requests : UseEnds(r)
    BY <1>1, <1>12 DEF TabOpens, TabCloses, UseEnds, serverVars
<1>13. CASE \E w \in Watchers : BatchIsCalled(w)
    BY <1>1, <1>13 DEF BatchIsCalled, mvars
<1>14. CASE KillOld \/ \E c \in Children : ChildAnswers(c) \/ ChildExits(c)
    BY <1>1, <1>14 DEF KillOld, ChildAnswers, ChildExits, childUnchanged
<1>15. CASE IdleCheck
    BY <1>7, <1>15 DEF IdleCheck
<1>16. CASE \E r \in Requests : UseBegins(r)
    BY <1>1, <1>7, <1>16 DEF UseBegins
<1>17. CASE SyncBegins
    <2>1. CASE tracker.pkgs # disk.pkgs
        BY <1>17, <2>1 DEF SyncBegins, AtStep, Running, ShutdownServer, StepsFit
    <2>2. CASE tracker.pkgs = disk.pkgs
        BY <1>2, <1>4, <1>17, <2>2 DEF SyncBegins, AtStep
    <2> QED
        BY <2>1, <2>2
<1>18. CASE InstallSucceeds
    BY <1>18 DEF InstallSucceeds, AtStep, Running, StepsFit
<1>19. CASE InstallFails \/ SyncOptimised
    BY <1>4, <1>19 DEF InstallFails, SyncOptimised, AtStep
<1>20. CASE FirstStart \/ RestartSpawns
    BY <1>5, <1>20 DEF FirstStart, RestartSpawns, AtStep
<1>21. CASE AnswerWaitEnds \/ StopRuns
    BY <1>2, <1>21 DEF AnswerWaitEnds, StopRuns
<1>22. CASE WakeRuns
    BY <1>2, <1>3, <1>22 DEF WakeRuns, AtStep
<1>23. CASE BuildSucceeds
    BY <1>7, <1>23 DEF BuildSucceeds, AtStep, Running, StepsFit, QueueSync
<1>24. CASE BuildFails
    BY <1>1, <1>4, <1>7, <1>24 DEF BuildFails, AtStep, QueueSync
<1> QED
    BY <1>8, <1>9, <1>10, <1>11, <1>12, <1>13, <1>14, <1>15, <1>16, <1>17, <1>18, <1>19, <1>20,
       <1>21, <1>22, <1>23, <1>24 DEF Next, QueueRuns

-----------------------------------------------------------------------------
(* The versions: the builds read what is newest, or something newer is to be handled.  *)

\* What the builds are of.
LEMMA VersionsAreNumbers ==
    ASSUME TypeInv
    PROVE  /\ source.art \in Nat /\ disk.art \in Nat /\ tracker.art \in Nat /\ built.art \in Nat
           /\ builds \in Seq(Builders)
    BY DEF TypeInv, ManagerTypeOK, Sources, Artifacts, Versions

\* A build is queued: it reads the config when it begins.
LEMMA BuildQueued ==
    ASSUME TypeInv, VersionsGrow, NEW b \in Builders, QueueBuild(b),
           UNCHANGED <<source, disk, tracker, lastBuildFailed>>
    PROVE  /\ VersionsGrow'
           /\ builds' # <<>> /\ (Len(builds') = 1 => built'.art = source'.art)
<1>1. builds \in Seq(Builders) /\ (builds = <<>> \/ Len(builds) > 0)
    BY VersionsAreNumbers
<1>2. builds' # <<>> /\ (Len(builds') = 1 => builds = <<>>)
    BY <1>1 DEF QueueBuild
<1>3. VersionsGrow'
    <2>1. source.art \in Nat /\ disk.art \in Nat
        BY VersionsAreNumbers
    <2> QED
        BY <2>1 DEF VersionsGrow, QueueBuild
<1> QED
    BY <1>2, <1>3 DEF QueueBuild

LEMMA TailLength ==
    ASSUME NEW S, NEW q \in Seq(S), q # <<>>
    PROVE  /\ Len(Tail(q)) = 1 => Len(q) > 1
           /\ Tail(q) # <<>> => Len(q) > 1
           /\ Tail(q) = <<>> => Len(q) = 1
<1>1. Tail(q) \in Seq(S) /\ Len(Tail(q)) = Len(q) - 1
    BY HeadTailProperties
<1>2. /\ Len(q) \in Nat \ {0} /\ Len(<<>>) = 0
      /\ Tail(q) # <<>> => Len(Tail(q)) \in Nat \ {0}
    BY <1>1, EmptySeq
<1> DEFINE n == Len(q) m == Len(Tail(q))
<1>3. n \in Nat \ {0} /\ m = n - 1
    BY <1>1, <1>2
<1> HIDE DEF n, m
<1>4. (m = 1 => n > 1) /\ (m \in Nat \ {0} => n > 1) /\ (m = 0 => n = 1)
    BY <1>3
<1> QED
    BY <1>2, <1>4 DEF n, m

\* A build ends: the next one reads the config.
LEMMA BuildDone ==
    ASSUME TypeInv, VersionsGrow, BuildSucceeds \/ BuildFails
    PROVE  /\ VersionsGrow'
           /\ source' = source
           /\ BuildSucceeds => disk'.art = built.art
           /\ Len(builds') = 1 => built'.art = source'.art
           /\ builds' = <<>> => Len(builds) = 1
<1>1. /\ source.art \in Nat /\ disk.art \in Nat /\ tracker.art \in Nat /\ built.art \in Nat
      /\ builds \in Seq(Builders) /\ builds # <<>>
    BY VersionsAreNumbers DEF BuildSucceeds, BuildFails
<1>2. /\ NextBuild /\ source' = source
    BY DEF BuildSucceeds, BuildFails, taskUnchanged
<1>3. /\ builds' # <<>> => Len(builds) > 1 /\ built' = source
      /\ Len(builds') = 1 => Len(builds) > 1 /\ built' = source
      /\ builds' = <<>> => Len(builds) = 1
    BY <1>1, <1>2, TailLength DEF NextBuild
<1>4. /\ disk.art <= built.art /\ built.art <= source.art
      /\ tracker.art <= disk.art /\ disk.art <= source.art
    BY <1>1 DEF VersionsGrow
<1>5. CASE BuildSucceeds
    <2>1. disk'.art = built.art /\ tracker' = tracker
        BY <1>5 DEF BuildSucceeds
    <2>2. tracker.art <= built.art /\ source.art <= source.art
        BY <1>1, <1>4
    <2> QED
        BY <1>2, <1>3, <1>4, <2>1, <2>2 DEF VersionsGrow
<1>6. CASE BuildFails
    <2>1. disk' = disk /\ tracker' \in {tracker, disk}
        BY <1>6 DEF BuildFails, taskUnchanged, RestartOrDefer, RestartBegins
    <2>2. disk.art <= disk.art /\ source.art <= source.art
        BY <1>1
    <2>3. ~BuildSucceeds \/ disk'.art = built.art
        BY DEF BuildSucceeds
    <2> QED
        BY <1>2, <1>3, <1>4, <2>1, <2>2, <2>3 DEF VersionsGrow
<1> QED
    BY <1>5, <1>6

\* The steps that are neither of a build nor an edit.
LEMMA OthersKeepBuilds ==
    ASSUME UNCHANGED <<builds, built, source, lastBuildFailed>>, disk'.art = disk.art,
           tracker' = tracker \/ tracker' = disk, TypeInv, VersionsGrow
    PROVE  VersionsGrow'
<1>1. disk.art \in Nat
    BY VersionsAreNumbers
<1>2. disk.art <= disk.art
    BY <1>1
<1> QED
    BY <1>2 DEF VersionsGrow

LEMMA EditGrows ==
    ASSUME TypeInv, VersionsGrow,
           \/ EditConfig \/ EditPage \/ EditEnv
           \/ \E p \in Packages : AddPlugin(p) \/ PageNeedsPackage(p)
    PROVE  /\ VersionsGrow'
           /\ source'.art = source.art \/ ToHandle("config", "skeleton")'
           /\ source'.env = source.env \/ ToHandle("env", "env")'
           /\ UNCHANGED <<builds, built, lastBuildFailed, env, tracker>> /\ disk'.art = disk.art
<1> USE ManagerAssumption
<1>1. source \in Sources /\ disk \in Artifacts
    BY DEF TypeInv, ManagerTypeOK
<1>2. UNCHANGED <<builds, built, lastBuildFailed, env, tracker>> /\ disk'.art = disk.art
    <2>1. CASE EditConfig \/ EditPage \/ EditEnv \/ \E p \in Packages : AddPlugin(p)
        BY <2>1 DEF EditConfig, EditPage, EditEnv, AddPlugin, Edit, buildVars, serverVars
    <2>2. CASE \E p \in Packages : PageNeedsPackage(p)
        BY <1>1, <2>2 DEF PageNeedsPackage, serverVars, Artifacts
    <2> QED
        BY <2>1, <2>2
<1>3. /\ source'.art \in {source.art, source.art + 1}
      /\ source'.art = source.art \/ ToHandle("config", "skeleton")'
      /\ source'.env = source.env \/ ToHandle("env", "env")'
    <2>1. CASE EditConfig
        BY <1>1, <2>1, ChangeIsToHandle DEF EditConfig, Edit, Sources
    <2>2. CASE EditPage
        BY <1>1, <2>2 DEF EditPage, Edit
    <2>3. CASE EditEnv
        BY <1>1, <2>3, ChangeIsToHandle DEF EditEnv, Edit, Sources
    <2>4. CASE \E p \in Packages : AddPlugin(p)
        <3>1. PICK p \in Packages : /\ source' = [source EXCEPT !.art = @ + 1, !.pkgs = @ \cup {p}]
                                    /\ NewChange("config", "skeleton")
            BY <2>4 DEF AddPlugin, Edit
        <3>2. source' = [art |-> source.art + 1, env |-> source.env, pkgs |-> source.pkgs \cup {p}]
            BY <1>1, <3>1 DEF Sources
        <3> QED
            BY <3>1, <3>2, ChangeIsToHandle
    <2>5. CASE \E p \in Packages : PageNeedsPackage(p)
        BY <2>5 DEF PageNeedsPackage
    <2> QED
        BY <2>1, <2>2, <2>3, <2>4, <2>5
<1>4. source.art <= source'.art /\ source.art \in Nat /\ disk.art \in Nat /\ built.art \in Nat /\ source'.art \in Nat
    BY <1>3, VersionsAreNumbers
<1>5. VersionsGrow'
    <2>1. disk.art <= source.art => disk.art <= source'.art
        BY <1>4
    <2>2. built.art <= source.art => built.art <= source'.art
        BY <1>4
    <2> QED
        BY <1>2, <2>1, <2>2 DEF VersionsGrow
<1> QED
    BY <1>2, <1>3, <1>5

\* Steps that leave what is built and read, but for what a restart records of it.
BuildsStay == /\ UNCHANGED <<builds, built, source, lastBuildFailed, env>> /\ disk'.art = disk.art
              /\ tracker' = tracker \/ tracker' = disk

LEMMA OthersLeaveBuilds ==
    ASSUME [Next]_vars
    PROVE  \/ BuildsStay
           \/ ConfigBegins \/ EnvBegins \/ PluginsCheck \/ InstallSucceeds
           \/ BuildSucceeds \/ BuildFails
           \/ EditConfig \/ EditPage \/ EditEnv
           \/ \E p \in Packages : AddPlugin(p) \/ PageNeedsPackage(p)
<1>1. CASE UNCHANGED vars
    BY <1>1 DEF vars, mvars, BuildsStay
<1>2. CASE PackageBegins \/ \E w \in Watchers : BatchIsCalled(w) \/ CallbackEnds(w)
    BY <1>2 DEF PackageBegins, BatchIsCalled, CallbackEnds, mvars, buildVars, serverVars, BuildsStay
<1>3. CASE SyncBegins
    BY <1>3 DEF SyncBegins, RestartOrDefer, RestartBegins, taskUnchanged, BuildsStay
<1>4. CASE InstallFails \/ SyncOptimised
    BY <1>4 DEF InstallFails, SyncOptimised, RestartOrDefer, RestartBegins, taskUnchanged, BuildsStay
<1>5. CASE FirstStart \/ RestartSpawns \/ AnswerWaitEnds
    BY <1>5 DEF FirstStart, RestartSpawns, AnswerWaitEnds, taskUnchanged, BuildsStay
<1>6. CASE StopRuns \/ WakeRuns
    BY <1>6 DEF StopRuns, WakeRuns, RestartBegins, idleUnchanged, buildVars, taskUnchanged, BuildsStay
<1>7. CASE KillOld \/ \E c \in Children : ChildAnswers(c) \/ ChildExits(c)
    BY <1>7 DEF KillOld, ChildAnswers, ChildExits, childUnchanged, taskUnchanged, buildVars, BuildsStay
<1>8. CASE IdleCheck \/ TabOpens \/ TabCloses \/ \E r \in Requests : UseBegins(r) \/ UseEnds(r)
    BY <1>8 DEF IdleCheck, TabOpens, TabCloses, UseBegins, UseEnds, idleUnchanged, buildVars, BuildsStay
<1> QED
    BY <1>1, <1>2, <1>3, <1>4, <1>5, <1>6, <1>7, <1>8 DEF Next, QueueRuns

LEMMA CatchUpKept ==
    ASSUME TypeInv, WatchersHandle, CallersWait, VersionsGrow, BuildCatchesUp, EnvCatchesUp, [Next]_vars
    PROVE  VersionsGrow' /\ BuildCatchesUp' /\ EnvCatchesUp'
<1> USE ManagerAssumption
<1>1. /\ ~ConfigBegins => (ToHandle("config", "skeleton") => ToHandle("config", "skeleton")')
      /\ ~EnvBegins => (ToHandle("env", "env") => ToHandle("env", "env")')
    BY RunKept
<1>2. EnvBegins => env' = source'.env
    BY DEF EnvBegins
<1>3. UNCHANGED <<env, source>> => EnvCatchesUp'
    BY <1>1, <1>2 DEF EnvCatchesUp
<1>4. {"config", "env", "plugins", "sync"} \subseteq Builders /\ builds \in Seq(Builders)
    BY VersionsAreNumbers DEF Builders, Callers
<1>5. CASE ConfigBegins
    <2>1. UNCHANGED <<source, env, disk, tracker, lastBuildFailed>>
        BY <1>5 DEF ConfigBegins, serverVars
    <2>2. CASE QueueBuild("config")
        BY <1>3, <1>4, <2>1, <2>2, BuildQueued DEF BuildCatchesUp
    <2>3. CASE "skeleton" \notin batch["config"].taken /\ UNCHANGED <<builds, built>>
        <3>1. CallBegins("config")
            BY <1>5, <2>3 DEF ConfigBegins, CallBegins
        <3>2. ToHandle("config", "skeleton") => ToHandle("config", "skeleton")'
            BY <2>3, <3>1, BeginsRun
        <3>3. VersionsGrow'
            BY <2>1, <2>3, OthersKeepBuilds
        <3> QED
            BY <1>3, <2>1, <2>3, <3>2, <3>3 DEF BuildCatchesUp
    <2> QED
        BY <1>5, <2>2, <2>3 DEF ConfigBegins
<1>6. CASE EnvBegins
    <2>1. UNCHANGED <<source, disk, tracker, lastBuildFailed>> /\ QueueBuild("env")
        BY <1>6 DEF EnvBegins, serverVars
    <2> QED
        BY <1>2, <1>4, <1>6, <2>1, BuildQueued DEF BuildCatchesUp, EnvCatchesUp
<1>7. CASE PluginsCheck \/ InstallSucceeds
    <2>1. /\ UNCHANGED <<source, env, disk, tracker, lastBuildFailed>>
          /\ QueueBuild("plugins") \/ QueueBuild("sync")
        BY <1>7 DEF PluginsCheck, InstallSucceeds, serverVars
    <2> QED
        BY <1>3, <1>4, <2>1, BuildQueued DEF BuildCatchesUp
<1>8. ASSUME BuildSucceeds \/ BuildFails, ~ConfigBegins PROVE VersionsGrow' /\ BuildCatchesUp' /\ EnvCatchesUp'
    <2>1. /\ VersionsGrow' /\ source' = source
          /\ BuildSucceeds => disk'.art = built.art
          /\ Len(builds') = 1 => built'.art = source'.art
          /\ builds' = <<>> => Len(builds) = 1
        BY <1>8, BuildDone
    <2>2. env' = env /\ (~BuildSucceeds => lastBuildFailed')
        BY <1>8 DEF BuildSucceeds, BuildFails, taskUnchanged
    <2>3. BuildCatchesUp'
        BY <1>1, <1>8, <2>1, <2>2 DEF BuildCatchesUp
    <2> QED
        BY <1>3, <2>1, <2>2, <2>3
<1>9. ASSUME ~ConfigBegins, ~EnvBegins,
             \/ EditConfig \/ EditPage \/ EditEnv
             \/ \E p \in Packages : AddPlugin(p) \/ PageNeedsPackage(p)
      PROVE  VersionsGrow' /\ BuildCatchesUp' /\ EnvCatchesUp'
    <2>1. /\ VersionsGrow'
          /\ source'.art = source.art \/ ToHandle("config", "skeleton")'
          /\ source'.env = source.env \/ ToHandle("env", "env")'
          /\ UNCHANGED <<builds, built, lastBuildFailed, env, tracker>> /\ disk'.art = disk.art
        BY <1>9, EditGrows
    <2> QED
        BY <1>1, <1>9, <2>1 DEF BuildCatchesUp, EnvCatchesUp
<1>10. ASSUME ~ConfigBegins, BuildsStay PROVE VersionsGrow' /\ BuildCatchesUp' /\ EnvCatchesUp'
    <2>1. VersionsGrow'
        BY <1>10, OthersKeepBuilds DEF BuildsStay
    <2> QED
        BY <1>1, <1>3, <1>10, <2>1 DEF BuildsStay, BuildCatchesUp
<1> QED
    BY <1>5, <1>6, <1>7, <1>8, <1>9, <1>10, OthersLeaveBuilds

-----------------------------------------------------------------------------
(* The child runs what is published, or is to be replaced.                             *)

\* A sync that is to come, after a step.
Comes == SyncToCome => SyncToCome'
RestartComes == RestartToCome => RestartToCome'

\* The child that runs after a step ran before it, with what it was started on.
SameChild == devServer' # None /\ Alive(devServer)' =>
    /\ devServer' = devServer /\ Alive(devServer)
    /\ child'[devServer'].art = child[devServer].art
    /\ child'[devServer'].env = child[devServer].env

LEMMA CurrentKept ==
    ASSUME ChildCatchesUp, SameChild, Comes, RestartComes, disk'.art = disk.art,
           UNCHANGED <<tracker, env>>, call["env"] = "build" => call'["env"] = "build" \/ RestartToCome'
    PROVE  ChildCatchesUp'
    BY DEF ChildCatchesUp, ChildIsCurrent, SameChild, Comes, RestartComes

LEMMA NoChildNow ==
    ASSUME devServer' = None
    PROVE  ChildCatchesUp'
    BY DEF ChildCatchesUp

\* What the queue has to come is so after each of its moves.
LEMMA QueueStays ==
    ASSUME UNCHANGED <<queue, step>>
    PROVE  Comes /\ RestartComes
    BY DEF Comes, RestartComes, SyncToCome, RestartToCome

LEMMA QueueGrows ==
    ASSUME TypeInv, StepsFit, NEW x \in Tasks, queue' = Append(queue, x), UNCHANGED step
    PROVE  /\ Comes /\ RestartComes
           /\ x.kind = "sync" => SyncToCome' /\ (x.restart => RestartToCome')
<1>1. queue \in Seq(Tasks) /\ (queue = <<>> => step = "begin")
    BY DEF TypeInv, ManagerTypeOK, StepsFit
<1>2. /\ Comes /\ RestartComes
    BY <1>1, ComesQueued DEF Comes, RestartComes, SyncToCome, RestartToCome
<1>3. x.kind = "sync" => x.restart \in BOOLEAN
    BY DEF Tasks
<1>4. x.kind = "sync" => SyncToCome'
    BY <1>1, <1>3, ComesQueued DEF SyncToCome
<1>5. x.kind = "sync" /\ x.restart => RestartToCome'
    <2>1. ASSUME x.kind = "sync", x.restart PROVE x.restart \in {TRUE}
        BY <1>3, <2>1
    <2> QED
        BY <1>1, <2>1, ComesQueued DEF RestartToCome
<1> QED
    BY <1>2, <1>4, <1>5

\* A task that is not a sync at its beginning ends, or goes on.
LEMMA TaskLeavesComing ==
    ASSUME TypeInv, Running, ~AtStep("sync", "begin"), EndTask \/ UNCHANGED queue
    PROVE  Comes /\ RestartComes
<1>1. queue \in Seq(Tasks) /\ queue # <<>> /\ (step = "begin" => Head(queue).kind # "sync")
    BY DEF TypeInv, ManagerTypeOK, Running, AtStep, Task
<1>2. ASSUME NEW r, ToCome(queue, step, r)
      PROVE  ToCome(Tail(queue), "begin", r) /\ ToCome(queue, step', r)
    BY <1>1, <1>2, ComesTaken
<1>3. \/ queue' = Tail(queue) /\ step' = "begin"
      \/ queue' = queue
    BY DEF EndTask
<1> QED
    BY <1>2, <1>3 DEF Comes, RestartComes, SyncToCome, RestartToCome

\* A task's end leaves a build of the environment under way.
LEMMA EndLeavesEnv ==
    ASSUME TypeInv, CallersWait, Running, EndTask \/ UNCHANGED call
    PROVE  call["env"] = "build" => call'["env"] = "build"
<1>1. CASE UNCHANGED call
    BY <1>1
<1>2. CASE EndTask
    <2>1. 1 \in 1..Len(queue) /\ Task = queue[1] /\ Task \in Tasks
        BY DEF Running, Task, TypeInv, ManagerTypeOK
    <2>2. Task.kind = "sync" => call[Task.by] = "sync"
        BY <2>1 DEF CallersWait, SyncsOnce, AwaitSync
    <2> QED
        BY <1>2, <2>2 DEF EndTask, TypeInv, ManagerTypeOK
<1> QED
    BY <1>1, <1>2

LEMMA SpawnIsCurrent ==
    ASSUME TypeInv, VersionsGrow, FirstStart \/ RestartSpawns
    PROVE  ChildCatchesUp'
<1>1. PICK c \in Children :
          /\ devServer' = c
          /\ child' = [child EXCEPT ![c] = [state |-> "booting", signalled |-> FALSE,
                                           killed |-> FALSE, art |-> disk.art, env |-> env]]
    BY DEF FirstStart, RestartSpawns, Spawn
<1>2. child'[c].art = disk.art /\ child'[c].env = env
    BY <1>1 DEF TypeInv, ManagerTypeOK
<1>3. UNCHANGED <<disk, env>> /\ tracker' \in {tracker, disk}
    BY DEF FirstStart, RestartSpawns, taskUnchanged
<1>4. disk.art <= disk.art /\ tracker.art <= disk.art
    BY VersionsAreNumbers DEF VersionsGrow
<1> QED
    BY <1>1, <1>2, <1>3, <1>4 DEF ChildCatchesUp, ChildIsCurrent

LEMMA BuildIsToCome ==
    ASSUME TypeInv, CallersWait, StepsFit, VersionsGrow, ChildCatchesUp, BuildSucceeds \/ BuildFails
    PROVE  ChildCatchesUp'
<1>1. builds # <<>>
    BY DEF BuildSucceeds, BuildFails
<1>2. Builder \in Builders /\ (Builder # "sync" => Builder \in Callers) /\ {"env"} \subseteq Callers
    BY <1>1, BuildIsAwaited, ManagerAssumption DEF Callers
<1>3. CASE Builder = "sync"
    <2>1. AtStep("sync", "build") /\ (UNCHANGED devServer \/ devServer' = None)
        BY <1>3 DEF BuildSucceeds, BuildFails, RestartOrDefer, RestartBegins, ShutdownServer
    <2>2. devServer' = None
        BY <2>1 DEF StepsFit, AtStep
    <2> QED
        BY <2>2, NoChildNow
<1>4. ASSUME Builder # "sync", BuildSucceeds PROVE ChildCatchesUp'
    <2>1. /\ UNCHANGED <<child, devServer, tracker, env, step>> /\ disk'.art = built.art
          /\ QueueSync(Builder = "env", Builder) /\ call' = [call EXCEPT ![Builder] = "sync"]
        BY <1>4 DEF BuildSucceeds
    <2>2. /\ SyncTask(Builder = "env", Builder) \in Tasks
          /\ SyncTask(Builder = "env", Builder).kind = "sync"
          /\ Builder = "env" => SyncTask(Builder = "env", Builder).restart
        BY <1>2, <1>4 DEF SyncTask, Tasks
    <2>3. Comes /\ RestartComes /\ SyncToCome' /\ (Builder = "env" => RestartToCome')
        BY <2>1, <2>2, QueueGrows DEF QueueSync
    <2>4. Builder # "env" => call'["env"] = call["env"]
        BY <1>2, <2>1 DEF TypeInv, ManagerTypeOK
    <2>5. disk.art <= built.art
        BY <1>1 DEF VersionsGrow
    <2>6. ASSUME devServer # None, Alive(devServer), ChildIsCurrent(devServer)
          PROVE  ChildIsCurrent(devServer)'
        <3>1. devServer \in Children
            BY <2>6 DEF TypeInv, ManagerTypeOK
        <3>2. child[devServer].art \in Nat /\ disk.art \in Nat /\ built.art \in Nat
            BY <3>1, VersionsAreNumbers DEF TypeInv, ManagerTypeOK, ChildProcesses, Versions
        <3>3. tracker.art <= child[devServer].art /\ child[devServer].art <= disk.art
            BY <2>6 DEF ChildIsCurrent
        <3>4. child[devServer].art <= built.art
            BY <2>5, <3>2, <3>3
        <3>5. child[devServer].env = env \/ call'["env"] = "build" \/ RestartToCome'
            BY <2>3, <2>4, <2>6 DEF ChildIsCurrent, RestartComes
        <3> QED
            BY <2>1, <2>3, <3>3, <3>4, <3>5 DEF ChildIsCurrent
    <2> QED
        BY <2>1, <2>6 DEF ChildCatchesUp, Alive
<1>5. ASSUME BuildFails, Builder = "env" PROVE ChildCatchesUp'
    <2>1. /\ UNCHANGED <<child, devServer, tracker, env, step, disk>> /\ QueueSync(TRUE, "env")
        BY <1>5 DEF BuildFails, taskUnchanged
    <2>2. SyncTask(TRUE, "env") \in Tasks /\ SyncTask(TRUE, "env").kind = "sync" /\ SyncTask(TRUE, "env").restart
        BY <1>2 DEF SyncTask, Tasks
    <2>3. Comes /\ RestartComes /\ RestartToCome'
        BY <2>1, <2>2, QueueGrows DEF QueueSync
    <2> QED
        BY <2>1, <2>3, CurrentKept DEF SameChild, Alive
<1>6. ASSUME BuildFails, Builder \in {"config", "plugins"} PROVE ChildCatchesUp'
    <2>1. /\ UNCHANGED <<child, devServer, tracker, env, step, disk, queue>>
          /\ call' = [call EXCEPT ![Builder] = "done"]
        BY <1>6 DEF BuildFails, taskUnchanged
    <2>2. call'["env"] = call["env"]
        BY <1>2, <1>6, <2>1 DEF TypeInv, ManagerTypeOK
    <2> QED
        BY <2>1, <2>2, QueueStays, CurrentKept DEF SameChild, Alive
<1>7. BuildSucceeds \/ Builder \in {"sync", "env", "config", "plugins"}
    BY DEF BuildFails
<1> QED
    BY <1>3, <1>4, <1>5, <1>6, <1>7

LEMMA TasksLeaveCurrent ==
    ASSUME TypeInv, ChildInv, CallersWait, StepsFit, VersionsGrow, ChildCatchesUp, QueueRuns \/ InstallFails
    PROVE  ChildCatchesUp'
<1>1. CASE SyncBegins
    <2>1. CASE tracker.pkgs # disk.pkgs
        BY <1>1, <2>1, NoChildNow DEF SyncBegins, ShutdownServer
    <2>2. CASE RestartOrDefer
        <3>1. devServer' = None
            BY <2>2 DEF RestartOrDefer, RestartBegins, ShutdownServer, ChildInv, StopHolds
        <3> QED
            BY <3>1, NoChildNow
    <2>3. CASE ~Task.restart /\ tracker.art = disk.art /\ EndTask /\ UNCHANGED <<tracker, child, devServer>>
        <3>1. UNCHANGED <<disk, env>> /\ AtStep("sync", "begin")
            BY <1>1 DEF SyncBegins, taskUnchanged
        <3>2. RestartComes
            <4>1. queue \in Seq(Tasks) /\ queue # <<>> /\ Head(queue).restart \notin {TRUE}
                BY <2>3, <3>1 DEF TypeInv, ManagerTypeOK, AtStep, Running, Task
            <4> QED
                BY <2>3, <4>1, ComesTaken DEF RestartComes, RestartToCome, EndTask
        <3>3. call["env"] = "build" => call'["env"] = "build"
            BY <2>3, <3>1, EndLeavesEnv DEF AtStep
        <3>4. ASSUME devServer # None, Alive(devServer), ChildIsCurrent(devServer)
              PROVE  ChildIsCurrent(devServer)'
            <4>1. devServer \in Children
                BY <3>4 DEF TypeInv, ManagerTypeOK
            <4>2. child[devServer].art \in Nat /\ disk.art \in Nat
                BY <4>1, VersionsAreNumbers DEF TypeInv, ManagerTypeOK, ChildProcesses, Versions
            <4>3. tracker.art <= child[devServer].art /\ child[devServer].art <= disk.art
                BY <3>4 DEF ChildIsCurrent
            <4>4. child[devServer].art = disk.art
                BY <2>3, <4>2, <4>3
            <4> QED
                BY <2>3, <3>1, <3>2, <3>3, <3>4, <4>3, <4>4 DEF ChildIsCurrent, RestartComes
        <3> QED
            BY <2>3, <3>4 DEF ChildCatchesUp, Alive
    <2> QED
        BY <1>1, <2>1, <2>2, <2>3 DEF SyncBegins
<1>2. CASE InstallSucceeds
    BY <1>2, NoChildNow DEF InstallSucceeds, AtStep, StepsFit
<1>3. CASE InstallFails \/ SyncOptimised
    <2>1. devServer' = None
        BY <1>3 DEF InstallFails, SyncOptimised, AtStep, StepsFit, RestartOrDefer, RestartBegins, ShutdownServer
    <2> QED
        BY <2>1, NoChildNow
<1>4. CASE FirstStart \/ RestartSpawns
    BY <1>4, SpawnIsCurrent
<1>5. ASSUME Running, ~AtStep("sync", "begin"), EndTask, UNCHANGED <<tracker, child, devServer, disk, env>>
      PROVE  ChildCatchesUp'
    <2>1. Comes /\ RestartComes /\ (call["env"] = "build" => call'["env"] = "build")
        BY <1>5, TaskLeavesComing, EndLeavesEnv
    <2> QED
        BY <1>5, <2>1, CurrentKept DEF SameChild, Alive
<1>6. CASE AnswerWaitEnds
    BY <1>5, <1>6 DEF AnswerWaitEnds, AtStep, taskUnchanged
<1>7. CASE StopRuns
    <2>1. CASE MayStop
        BY <1>7, <2>1, NoChildNow DEF StopRuns, ShutdownServer
    <2>2. CASE ~MayStop
        BY <1>5, <1>7, <2>2 DEF StopRuns, AtStep, idleUnchanged, buildVars
    <2> QED
        BY <2>1, <2>2
<1>8. CASE WakeRuns
    <2>1. CASE devServer # None
        BY <1>5, <1>8, <2>1 DEF WakeRuns, AtStep, taskUnchanged
    <2>2. CASE devServer = None
        BY <1>8, <2>2, NoChildNow DEF WakeRuns, RestartBegins, ShutdownServer
    <2> QED
        BY <2>1, <2>2
<1> QED
    BY <1>1, <1>2, <1>3, <1>4, <1>6, <1>7, <1>8 DEF QueueRuns

LEMMA CurrentIsKept ==
    ASSUME TypeInv, ChildInv, CallersWait, StepsFit, VersionsGrow, ChildCatchesUp, [Next]_vars
    PROVE  ChildCatchesUp'
<1> USE ManagerAssumption
<1>1. ASSUME UNCHANGED <<queue, step, child, devServer, tracker, env>>, disk'.art = disk.art,
             call["env"] = "build" => call'["env"] = "build"
      PROVE  ChildCatchesUp'
    BY <1>1, QueueStays, CurrentKept DEF SameChild, Alive
<1>2. ASSUME NEW x \in Tasks, queue' = Append(queue, x),
             UNCHANGED <<step, child, devServer, tracker, env, disk>>,
             call["env"] = "build" => call'["env"] = "build"
      PROVE  ChildCatchesUp'
    BY <1>2, QueueGrows, CurrentKept DEF SameChild, Alive
<1>3. /\ call \in [Callers -> {"none", "build", "sync", "done"}] /\ "env" \in Callers
      /\ child \in [Children -> ChildProcesses]
    BY DEF TypeInv, ManagerTypeOK, Callers
<1>4. CASE UNCHANGED vars
    BY <1>1, <1>4 DEF vars, mvars
<1>5. CASE ConfigBegins \/ PluginsCheck \/ \E w \in Watchers : CallbackEnds(w)
    <2>1. UNCHANGED <<queue, step, child, devServer, tracker, env, disk>>
        BY <1>5 DEF ConfigBegins, PluginsCheck, CallbackEnds, serverVars, buildVars
    <2>2. call["env"] = "build" => call'["env"] = "build"
        BY <1>3, <1>5 DEF ConfigBegins, PluginsCheck, CallbackEnds
    <2> QED
        BY <1>1, <2>1, <2>2
<1>6. CASE EnvBegins
    <2>1. UNCHANGED <<queue, step, child, devServer, tracker, disk>> /\ call'["env"] = "build"
        BY <1>3, <1>6 DEF EnvBegins, serverVars
    <2>2. Comes
        BY <2>1, QueueStays
    <2> QED
        BY <2>1, <2>2 DEF ChildCatchesUp, ChildIsCurrent, Alive, Comes
<1>7. CASE PackageBegins
    <2>1. SyncTask(FALSE, "package") \in Tasks
        BY DEF SyncTask, Tasks, Callers
    <2>2. call'["env"] = call["env"]
        BY <1>3, <1>7 DEF PackageBegins
    <2> QED
        BY <1>2, <1>7, <2>1, <2>2 DEF PackageBegins, QueueSync, buildVars
<1>8. CASE \/ EditConfig \/ EditPage \/ EditEnv
           \/ \E p \in Packages : AddPlugin(p) \/ PageNeedsPackage(p)
    <2>1. CASE EditConfig \/ EditPage \/ EditEnv \/ \E p \in Packages : AddPlugin(p)
        BY <1>1, <2>1 DEF EditConfig, EditPage, EditEnv, AddPlugin, Edit, buildVars, serverVars
    <2>2. CASE \E p \in Packages : PageNeedsPackage(p)
        BY <1>1, <2>2 DEF PageNeedsPackage, serverVars, TypeInv, ManagerTypeOK, Artifacts
    <2> QED
        BY <1>8, <2>1, <2>2
<1>9. CASE TabOpens \/ TabCloses \/ \E r \in Requests : UseEnds(r)
    BY <1>1, <1>9 DEF TabOpens, TabCloses, UseEnds, idleUnchanged, serverVars, buildVars
<1>10. CASE \E w \in Watchers : BatchIsCalled(w)
    BY <1>1, <1>10 DEF BatchIsCalled, mvars
<1>11. CASE IdleCheck
    <2>1. [kind |-> "stop"] \in Tasks
        BY DEF Tasks
    <2> QED
        BY <1>2, <1>11, <2>1 DEF IdleCheck, idleUnchanged, buildVars
<1>12. CASE \E r \in Requests : UseBegins(r)
    <2>1. [kind |-> "wake"] \in Tasks
        BY DEF Tasks
    <2>2. CASE stopped
        BY <1>2, <1>12, <2>1, <2>2 DEF UseBegins, idleUnchanged, buildVars
    <2>3. CASE ~stopped
        BY <1>1, <1>12, <2>3 DEF UseBegins, idleUnchanged, buildVars
    <2> QED
        BY <2>2, <2>3
<1>13. CASE KillOld \/ \E c \in Children : ChildAnswers(c) \/ ChildExits(c)
    <2>1. UNCHANGED <<queue, step, devServer, tracker, env, disk, call>>
        BY <1>13 DEF KillOld, ChildAnswers, ChildExits, childUnchanged, taskUnchanged, buildVars
    <2>2. \A d \in Children : Alive(d)' => /\ Alive(d)
                                           /\ child'[d].art = child[d].art /\ child'[d].env = child[d].env
        BY <1>3, <1>13 DEF KillOld, ChildAnswers, ChildExits, ChildProcesses, Alive, NoChild
    <2>3. devServer # None => devServer \in Children
        BY DEF TypeInv, ManagerTypeOK
    <2>4. SameChild
        BY <2>1, <2>2, <2>3 DEF SameChild
    <2> QED
        BY <2>1, <2>4, QueueStays, CurrentKept
<1>14. CASE BuildSucceeds \/ BuildFails
    BY <1>14, BuildIsToCome
<1>15. CASE QueueRuns \/ InstallFails
    BY <1>15, TasksLeaveCurrent
<1> QED
    BY <1>4, <1>5, <1>6, <1>7, <1>8, <1>9, <1>10, <1>11, <1>12, <1>13, <1>14, <1>15 DEF Next

-----------------------------------------------------------------------------
LEMMA InitIdleInv == Init => IdleInv
<1> USE ManagerAssumption
<1> SUFFICES ASSUME Init PROVE IdleInv
    OBVIOUS
<1>1. /\ queue = <<[kind |-> "first"]>> /\ builds = <<>> /\ devServer = None /\ step = "optimise"
      /\ source.art = 0 /\ disk.art = 0 /\ tracker.art = 0 /\ env = 0 /\ source.env = 0
    BY DEF Init, NoSource
<1>2. WatchersHandle
    BY DEF Init, BatchInit, WatchersHandle, Handled, Callers
<1>3. Len(queue) = 1 /\ queue[1].kind = "first" /\ Len(builds) = 0
    BY <1>1
<1>4. CallersWait
    BY <1>3 DEF CallersWait, EachOnce, SyncsOnce
<1>5. StepsFit /\ VersionsGrow /\ BuildCatchesUp /\ EnvCatchesUp /\ ChildCatchesUp
    BY <1>1, <1>3 DEF StepsFit, VersionsGrow, BuildCatchesUp, EnvCatchesUp, ChildCatchesUp
<1> QED
    BY <1>2, <1>4, <1>5 DEF IdleInv

LEMMA IdleSafety == Spec => [](TypeInv /\ ChildInv /\ IdleInv)
<1>1. TypeInv /\ ChildInv /\ IdleInv /\ [Next]_vars => IdleInv'
    BY RunKept, WaitKept, FitKept, CatchUpKept, CurrentIsKept DEF IdleInv
<1> QED
    BY <1>1, InitTypeInv, InitChildInv, InitIdleInv, StepTyped, StepKeepsChildInv, PTL DEF Spec

\* What is on its way keeps the manager busy.
LEMMA IdleAwaitsNothing ==
    ASSUME TypeInv, IdleInv, ~Busy
    PROVE  /\ builds = <<>> /\ ~SyncToCome /\ ~RestartToCome /\ call["env"] # "build"
           /\ ~ToHandle("config", "skeleton") /\ ~ToHandle("env", "env")
<1> USE ManagerAssumption
<1>1. ASSUME NEW w \in Watchers
      PROVE  call[w] = "none" /\ batch[w].args = {} /\ batch[w].taken = {}
    BY DEF Busy, IdleInv, WatchersHandle, Handled
<1>2. \A c \in Callers : call[c] \notin {"build", "sync"}
    BY <1>1 DEF Callers, Busy
<1>3. queue \in Seq(Tasks) /\ builds \in Seq(Builders)
    BY DEF TypeInv, ManagerTypeOK
<1>4. \A i \in 1..Len(queue) : queue[i].kind # "sync"
    BY <1>2 DEF IdleInv, CallersWait, SyncsOnce, AwaitSync
<1>5. ~SyncBuilds
    <2>1. Running => Task = queue[1] /\ 1 \in 1..Len(queue)
        BY <1>3 DEF Running, Task
    <2> QED
        BY <1>4, <2>1 DEF SyncBuilds, AtStep
<1>6. builds = <<>>
    <2>1. ASSUME builds # <<>> PROVE FALSE
        <3>1. Builder \in AwaitBuild /\ (Builder # "sync" => Builder \in Callers)
            BY <2>1, BuildIsAwaited DEF IdleInv
        <3> QED
            BY <1>2, <1>5, <3>1 DEF AwaitBuild, SyncBuilds
    <2> QED
        BY <2>1
<1>7. ~SyncToCome /\ ~RestartToCome
    BY <1>4 DEF SyncToCome, RestartToCome, ToCome
<1> QED
    BY <1>1, <1>2, <1>6, <1>7 DEF ToHandle, Callers

\* A manager that is not busy has built the last config, unless its build failed, has
\* read the last environment, and a child that runs was started on both: what a
\* build-status wait of the manager tells whoever waits.
THEOREM ManagerServesTheLastEdit == Spec => []IdleServesTheLastEdit
<1>1. TypeInv /\ IdleInv => IdleServesTheLastEdit
    BY IdleAwaitsNothing DEF IdleInv, IdleServesTheLastEdit, BuildCatchesUp, EnvCatchesUp,
                             ChildCatchesUp, ChildIsCurrent
<1> QED
    BY <1>1, IdleSafety, PTL
=============================================================================
