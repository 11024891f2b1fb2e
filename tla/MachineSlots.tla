---------------------------- MODULE MachineSlots ----------------------------
(***************************************************************************)
(* The slots that bound a kind of work over every process of a machine     *)
(* (acquireMachineSlot): a slot is a file that names its holder.  Each     *)
(* file operation is a step, so that the processes interleave between      *)
(* them; processes die, and the pid of a dead one is used again.           *)
(*                                                                         *)
(* A process takes one slot at a time, so its pid and start time stand for *)
(* the token of its slot file.                                             *)
(***************************************************************************)
EXTENDS Naturals, FiniteSets

CONSTANTS
    Pids,
    Limits,     \* the limits a caller may ask for; the machine's may change
    MaxStarts,  \* bound: processes that run under one pid in turn
    MaxTakes,   \* bound: slots taken under one pid
    MaxDeaths   \* bound: processes that die

ASSUME SlotsAssumption ==
    /\ Limits \subseteq Nat \ {0}
    /\ \E l \in Limits : \A k \in Limits : k <= l
    /\ MaxStarts \in Nat \ {0} /\ MaxTakes \in Nat /\ MaxDeaths \in Nat

VARIABLES
    start,    \* the start time of the process of each pid: 0 is never, then 1, 2, ...
    alive,    \* the pids with a process
    slot,     \* the slot files: the holder, or NoHolder
    at,       \* where each process is in acquireMachineSlot
    index,    \* the slot its loop is at
    limit,    \* the limit it asked for
    seen,     \* the slot files it counts as held
    known,    \* the start times of others it has cached
    takes,    \* slots it has taken
    deaths,
    before    \* history: who has held a slot since each process began to count

vars == <<start, alive, slot, at, index, limit, seen, known, takes, deaths, before>>
others == <<start, alive, limit, takes, deaths>>

MaxLimit == CHOOSE l \in Limits : \A k \in Limits : k <= l
Slots == 0..MaxLimit-1
NoHolder == [pid |-> "none", start |-> 0]
Holder(p) == [pid |-> p, start |-> start[p]]
Holders == [pid : Pids, start : 1..MaxStarts]

Places == {"idle", "count", "countLook", "recount", "try", "judge", "look", "reclaim", "retry",
           "wait", "hold", "leave"}
Taking == {"try", "judge", "look", "reclaim", "retry"}

Init ==
    /\ start = [p \in Pids |-> 1]
    /\ alive = Pids
    /\ slot = [i \in Slots |-> NoHolder]
    /\ at = [p \in Pids |-> "idle"]
    /\ index = [p \in Pids |-> 0]
    /\ limit \in [Pids -> Limits]
    /\ seen = [p \in Pids |-> {}]
    /\ known = [p \in Pids |-> [q \in Pids |-> 0]]
    /\ takes = [p \in Pids |-> 0]
    /\ deaths = 0
    /\ before = [p \in Pids |-> {}]

-----------------------------------------------------------------------------
At(p, place) == p \in alive /\ at[p] = place
Goes(p, place) == at' = [at EXCEPT ![p] = place]

Holds(p) == p \in alive /\ at[p] \in {"hold", "leave"}
GivesUp(p) == before' = [q \in Pids |-> before[q] \ {p}]

\* The start time p reads of the process q: a cached one, or the present one.
ReadStart(p, q) == IF known[p][q] # 0 THEN known[p][q] ELSE start[q]

\* mutant: a start time that is not known is taken for another process's
StaleUnlessKnown(p, h) == h # NoHolder /\ (h.pid \notin alive \/ known[p][h.pid] # h.start)

\* mutant: a slot of a pid that is alive is never stale
StaleByPid(p, h) == h # NoHolder /\ h.pid \notin alive

\* isStale, of a file with holder h.  The start time it reads is cached.
Stale(p, h) ==
    /\ h # NoHolder
    /\ h.pid \notin alive \/ ReadStart(p, h.pid) # h.start

Judges(p, h) ==
    known' = IF h = NoHolder \/ h.pid \notin alive \/ h.pid = p THEN known
             ELSE [known EXCEPT ![p][h.pid] = ReadStart(p, h.pid)]

\* The cached start time is dropped after a few seconds.
Forgets(p, q) ==
    /\ known[p][q] # 0
    /\ known' = [known EXCEPT ![p][q] = 0]
    /\ UNCHANGED <<others, slot, at, index, seen, before>>

\* mutant: slots past the caller's limit are not counted
ListedBelow(p) == {i \in 0..limit[p]-1 : slot[i] # NoHolder}

\* The slot files readdirSync lists, those past the caller's own limit too.
Listed(p) == {i \in Slots : slot[i] # NoHolder}

\* The start time p may read of r is that of the process that has the pid.
Knows(p, r) == known[p][r] \in {0, start[r]}

\* tryTake begins: a first time, or again after an interval.
Asks(p) ==
    /\ (At(p, "idle") /\ takes[p] < MaxTakes) \/ At(p, "wait")
    /\ Goes(p, "count")
    /\ index' = [index EXCEPT ![p] = 0]
    /\ seen' = [seen EXCEPT ![p] = Listed(p)]
    /\ before' = [before EXCEPT ![p] = {r \in Pids : Holds(r) /\ Knows(p, r)}]
    /\ UNCHANGED <<others, slot, known>>

GoesOn(p) == index' = [index EXCEPT ![p] = @ + 1]
Uncounted(p) == seen' = [seen EXCEPT ![p] = @ \ {index[p]}]

\* readLiveHolders drops the stale files of its listing, one after the other.
Counts(p) ==
    /\ At(p, "count") /\ index[p] \in Slots
    /\ LET h == slot[index[p]]
       IN  \/ /\ index[p] \notin seen[p]
              /\ GoesOn(p)
              /\ UNCHANGED <<at, seen, known>>
           \/ /\ index[p] \in seen[p] /\ h # NoHolder
              /\ IF Stale(p, h) THEN Uncounted(p) ELSE UNCHANGED seen
              /\ Judges(p, h)
              /\ GoesOn(p)
              /\ UNCHANGED at
           \/ /\ index[p] \in seen[p] /\ h = NoHolder
              /\ Goes(p, "countLook")
              /\ UNCHANGED <<index, seen, known>>
    /\ UNCHANGED <<others, slot, before>>

\* isStale found no holder: a file that is there, now, is stale.
CountLooks(p) ==
    /\ At(p, "countLook")
    /\ IF slot[index[p]] # NoHolder THEN Uncounted(p) ELSE UNCHANGED seen
    /\ GoesOn(p)
    /\ Goes(p, "count")
    /\ UNCHANGED <<others, slot, known, before>>

CountEnds(p) ==
    /\ At(p, "count") /\ index[p] \notin Slots
    /\ Goes(p, "recount")
    /\ index' = [index EXCEPT ![p] = 0]
    /\ UNCHANGED <<others, slot, seen, known, before>>

\* The files that are left are read again, and those that are gone drop out;
\* then tryTake compares their number with the limit.
Recounts(p) ==
    /\ At(p, "recount")
    /\ \/ /\ index[p] \in Slots
          /\ IF slot[index[p]] = NoHolder THEN Uncounted(p) ELSE UNCHANGED seen
          /\ GoesOn(p)
          /\ UNCHANGED at
       \/ /\ index[p] \notin Slots
          /\ Goes(p, IF Cardinality(seen[p]) >= limit[p] THEN "wait" ELSE "try")
          /\ index' = [index EXCEPT ![p] = 0]
          /\ seen' = [seen EXCEPT ![p] = {}]
    /\ UNCHANGED <<others, slot, known, before>>

\* tryCreate: the link fails when the slot file is there.
Creates(p) ==
    /\ slot[index[p]] = NoHolder
    /\ slot' = [slot EXCEPT ![index[p]] = Holder(p)]
    /\ Goes(p, "hold")
    /\ takes' = [takes EXCEPT ![p] = @ + 1]
    /\ UNCHANGED <<start, alive, limit, deaths, index, seen, known, before>>

\* The next slot, or the end of tryTake without one.
Passes(p) ==
    /\ index' = [index EXCEPT ![p] = @ + 1]
    /\ Goes(p, IF index[p] + 1 < limit[p] THEN "try" ELSE "wait")

Tries(p) ==
    /\ At(p, "try")
    /\ \/ Creates(p)
       \/ /\ slot[index[p]] # NoHolder
          /\ Goes(p, "judge")
          /\ UNCHANGED <<others, slot, index, seen, known, before>>

\* isStale reads the holder, and if it finds none looks whether the file is there.
Checks(p) ==
    /\ At(p, "judge")
    /\ LET h == slot[index[p]]
       IN  /\ Judges(p, h)
           /\ \/ h = NoHolder /\ Goes(p, "look") /\ UNCHANGED index
              \/ Stale(p, h) /\ Goes(p, "reclaim") /\ UNCHANGED index
              \/ h # NoHolder /\ ~Stale(p, h) /\ Passes(p)
    /\ UNCHANGED <<others, slot, seen, before>>

Looks(p) ==
    /\ At(p, "look")
    /\ \/ slot[index[p]] # NoHolder /\ Goes(p, "reclaim") /\ UNCHANGED index
       \/ slot[index[p]] = NoHolder /\ Passes(p)
    /\ UNCHANGED <<others, slot, seen, known, before>>

\* The file that was judged stale is removed, whatever it holds now.
Reclaims(p) ==
    /\ At(p, "reclaim")
    /\ slot' = [slot EXCEPT ![index[p]] = NoHolder]
    /\ Goes(p, "retry")
    /\ UNCHANGED <<others, index, seen, known, before>>

TriesAgain(p) ==
    /\ At(p, "retry")
    /\ \/ Creates(p)
       \/ /\ slot[index[p]] # NoHolder
          /\ Passes(p)
          /\ UNCHANGED <<others, slot, seen, known, before>>

\* releaseSlot: the file is removed if it is found to be the caller's own.
Releases(p) ==
    /\ At(p, "hold")
    /\ IF slot[index[p]] = Holder(p)
       THEN Goes(p, "leave") /\ UNCHANGED before
       ELSE Goes(p, "idle") /\ GivesUp(p)
    /\ UNCHANGED <<others, slot, index, seen, known>>

Removes(p) ==
    /\ At(p, "leave")
    /\ slot' = [slot EXCEPT ![index[p]] = NoHolder]
    /\ Goes(p, "idle")
    /\ GivesUp(p)
    /\ UNCHANGED <<others, index, seen, known>>

\* MACHINE_SLOT_TIMEOUT.
TimesOut(p) ==
    /\ At(p, "wait")
    /\ Goes(p, "idle")
    /\ UNCHANGED <<others, slot, index, seen, known, before>>

\* A process dies, wherever it is; its pid may be used again.
Dies(p) ==
    /\ p \in alive
    /\ deaths < MaxDeaths
    /\ alive' = alive \ {p}
    /\ at' = [at EXCEPT ![p] = "idle"]
    /\ deaths' = deaths + 1
    /\ GivesUp(p)
    /\ UNCHANGED <<start, slot, index, limit, seen, known, takes>>

PidReused(p) ==
    /\ p \notin alive /\ start[p] < MaxStarts
    /\ alive' = alive \cup {p}
    /\ start' = [start EXCEPT ![p] = @ + 1]
    /\ known' = [known EXCEPT ![p] = [q \in Pids |-> 0]]
    /\ \E l \in Limits : limit' = [limit EXCEPT ![p] = l]
    /\ UNCHANGED <<slot, at, index, seen, takes, deaths, before>>

Runs(p) ==
    \/ Asks(p) \/ Counts(p) \/ CountLooks(p) \/ CountEnds(p) \/ Recounts(p)
    \/ Tries(p) \/ Checks(p) \/ Looks(p) \/ Reclaims(p) \/ TriesAgain(p)
    \/ Releases(p) \/ Removes(p)

Next == \E p \in Pids :
    \/ Runs(p) \/ TimesOut(p) \/ Dies(p) \/ PidReused(p)
    \/ \E q \in Pids : Forgets(p, q)

Spec == Init /\ [][Next]_vars

\* A process that lives goes on, its work ends, and a cached start time expires.
FairSpec == Spec /\ \A p \in Pids : /\ WF_vars(Runs(p))
                                    /\ \A q \in Pids : WF_vars(Forgets(p, q))

-----------------------------------------------------------------------------
SlotsTypeOK ==
    /\ start \in [Pids -> 1..MaxStarts] /\ alive \subseteq Pids
    /\ slot \in [Slots -> Holders \cup {NoHolder}]
    /\ at \in [Pids -> Places] /\ index \in [Pids -> 0..MaxLimit] /\ limit \in [Pids -> Limits]
    /\ seen \in [Pids -> SUBSET Slots]
    /\ known \in [Pids -> [Pids -> 0..MaxStarts]]
    /\ takes \in [Pids -> 0..MaxTakes] /\ deaths \in 0..MaxDeaths
    /\ before \in [Pids -> SUBSET Pids]
    /\ \A p \in Pids : at[p] \in Taking \cup {"hold", "leave"} => index[p] < limit[p]

\* Of the processes that hold a slot since p began to look, those whose slot file is
\* still there.  (Left out are those of whose pid p has cached an earlier start time.)
EarlierHolders(p) == {r \in before[p] : slot[index[r]] = Holder(r)}

\* A caller takes no slot while as many as its limit have held theirs since it
\* began to look, at whatever limit they took them.
EarlierHoldersCount ==
    \A p \in Pids : at[p] \in Taking => Cardinality(EarlierHolders(p)) < limit[p]

\* A reclaim removes no slot that was held before the caller began to look: the
\* races of two that reclaim one slot cost only those who took it meanwhile.
ReclaimSparesEarlierHolders ==
    [][\A p \in Pids : Reclaims(p) => \A r \in EarlierHolders(p) : slot'[index[r]] = Holder(r)]_vars

\* A process that dies frees its slots, also when its pid is used again: whoever
\* asks for a slot gets one, gives up, or dies.
WaitersAreServed == \A p \in Pids : p \in alive /\ at[p] # "idle" ~> Holds(p) \/ at[p] = "idle"
=============================================================================
