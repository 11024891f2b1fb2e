------------------------------ MODULE StartSlots ------------------------------
(***************************************************************************)
(* The slots for launching development servers                             *)
(* (packages/cli/src/commands/hub/createStartSlots.js).                    *)
(*                                                                         *)
(* An app holds at most one slot: taken before its server is launched, and *)
(* held by the server until it is ready or gone, or for holdMs.  Apps that *)
(* find no slot wait in order.  The slots learn from the hub which servers *)
(* are on their way to ready: `starting` is that set of servers.  How long *)
(* a slot has been held is left open: any that is held may be overdue.     *)
(***************************************************************************)
EXTENDS Naturals, Sequences, FiniteSets, SequencesExt

CONSTANTS
    App, Server,
    Slots,       \* slots, one at critical memory pressure
    Free, Taken  \* a slot holder that is no server: none, or none yet

VARIABLES
    holders,     \* app -> who holds its slot
    waiting      \* the apps waiting for one, in order

Held(h) == {a \in App : h[a] # Free}
Queued(a) == \E i \in DOMAIN waiting : waiting[i] = a

(* The holders h after releaseFinished, with the slots of `late` overdue      *)
releaseFinished(h, late, starting) ==
    [a \in App |-> IF a \in late \/ h[a] \notin starting \cup {Taken} THEN Free ELSE h[a]]

Limit == {1, Slots}
HasSlot(h, a, limit) == h[a] # Free \/ Cardinality(Held(h)) < limit
WithSlot(h, a) == IF h[a] = Free THEN [h EXCEPT ![a] = Taken] ELSE h

(* tryTake, from the holders h0                                               *)
TakesSlot(h0, a, late, starting, limit) ==
    LET h == releaseFinished(h0, late, starting) IN
    /\ HasSlot(h, a, limit)
    /\ holders' = WithSlot(h, a)
    /\ UNCHANGED waiting

(* tryTake finds none, and the app is enqueued.                               *)
Enqueues(h0, a, late, starting, limit) ==
    LET h == releaseFinished(h0, late, starting) IN
    /\ ~HasSlot(h, a, limit)
    /\ holders' = h
    /\ waiting' = IF Queued(a) THEN waiting ELSE Append(waiting, a)

hold(a, server) == holders' = [holders EXCEPT ![a] = server]
release(a) == holders' = [holders EXCEPT ![a] = Free]

(* The app's first entry is spliced out of the line.                          *)
dequeue(a) ==
    \E i \in DOMAIN waiting :
        /\ waiting[i] = a /\ \A j \in 1 .. i - 1 : waiting[j] # a
        /\ waiting' = RemoveAt(waiting, i)

(* The slots with the first k waiting apps served                             *)
Serving(h, k) ==
    [a \in App |-> IF \E i \in 1 .. k : waiting[i] = a /\ h[a] = Free THEN Taken ELSE h[a]]

(* takeNext, again and again: how many of the waiting apps get a slot         *)
TakenFrom(h, limit) ==
    CHOOSE k \in 0 .. Len(waiting) :
        /\ \A i \in 1 .. k : HasSlot(Serving(h, i - 1), waiting[i], limit)
        /\ k < Len(waiting) => ~HasSlot(Serving(h, k), waiting[k + 1], limit)

(* tick, with what onFree takes: the first k waiting apps                     *)
tick(k, late, starting, limit) ==
    LET h == releaseFinished(holders, late, starting) IN
    /\ k = TakenFrom(h, limit)
    /\ holders' = Serving(h, k)
    /\ waiting' = SubSeq(waiting, k + 1, Len(waiting))

SlotsInit == holders = [a \in App |-> Free] /\ waiting = <<>>

SlotsTypeOK ==
    /\ holders \in [App -> Server \cup {Free, Taken}]
    /\ waiting \in Seq(App)

=============================================================================
