------------------------- MODULE MachineSlotsProofs -------------------------
(* What a slot is worth to its holder, for any processes and limits. *)
EXTENDS MachineSlots, FiniteSetTheorems, TLAPS

\* Who looks for a slot may take one more, lives, and looks into a slot that exists.
TakesInv == \A p \in Pids :
    /\ at[p] \notin {"idle", "hold", "leave"} => takes[p] < MaxTakes
    /\ at[p] # "idle" => p \in alive
    /\ at[p] = "countLook" => index[p] \in Slots
TypeInv == SlotsTypeOK /\ TakesInv

\* Whoever has held a slot since p began to look holds it still, and p cannot take its
\* pid for another process's.
BeforeInv == \A p \in Pids : \A r \in before[p] : Holds(r) /\ Knows(p, r)

\* While p looks at a slot it takes for free or stale, it is no earlier holder's.
Spares(p) == at[p] \in {"countLook", "look", "reclaim"} =>
    \A r \in EarlierHolders(p) : index[r] # index[p]

\* While p counts, no earlier holder has dropped out of its listing.
Lists(p) == at[p] \in {"count", "countLook", "recount"} =>
    \A r \in EarlierHolders(p) : index[r] \in seen[p]

Fewer(p) == at[p] \in Taking =>
    IsFiniteSet(EarlierHolders(p)) /\ Cardinality(EarlierHolders(p)) < limit[p]

Looking(p) == Spares(p) /\ Lists(p) /\ Fewer(p)
IInv == TypeInv /\ BeforeInv /\ \A p \in Pids : Looking(p)

LEMMA LimitsBound ==
    /\ MaxLimit \in Nat \ {0}
    /\ \A l \in Limits : l \in Nat \ {0} /\ l <= MaxLimit
    /\ IsFiniteSet(Slots)
<1>1. \E l \in Limits : \A k \in Limits : k <= l
    BY SlotsAssumption
<1>2. MaxLimit \in Limits /\ \A k \in Limits : k <= MaxLimit
    BY <1>1 DEF MaxLimit
<1>3. MaxLimit \in Nat \ {0}
    BY <1>2, SlotsAssumption
<1>4. IsFiniteSet(0..MaxLimit-1)
    BY <1>3, FS_Interval
<1> QED
    BY <1>2, <1>3, <1>4, SlotsAssumption DEF Slots

\* The types in two parts: where the processes are, and the rest.
PlaceInv ==
    /\ at \in [Pids -> Places] /\ index \in [Pids -> 0..MaxLimit] /\ limit \in [Pids -> Limits]
    /\ takes \in [Pids -> 0..MaxTakes]
    /\ \A p \in Pids : at[p] \in Taking \cup {"hold", "leave"} => index[p] < limit[p]
    /\ TakesInv
RestInv ==
    /\ start \in [Pids -> 1..MaxStarts] /\ alive \subseteq Pids
    /\ slot \in [Slots -> Holders \cup {NoHolder}]
    /\ seen \in [Pids -> SUBSET Slots]
    /\ known \in [Pids -> [Pids -> 0..MaxStarts]]
    /\ deaths \in 0..MaxDeaths
    /\ before \in [Pids -> SUBSET Pids]

LEMMA TypeParts == TypeInv <=> PlaceInv /\ RestInv
    BY DEF TypeInv, SlotsTypeOK, PlaceInv, RestInv

LEMMA TypeInit == Init => TypeInv
    BY LimitsBound, SlotsAssumption
    DEF Init, TypeInv, SlotsTypeOK, TakesInv, Places, Taking, Holders, NoHolder

\* A process goes to a place it may be at, with its index there.
LEMMA PlaceKept ==
    ASSUME PlaceInv, NEW p \in Pids, NEW a \in Places, NEW i \in 0..MaxLimit,
           at' = [at EXCEPT ![p] = a], index' = [index EXCEPT ![p] = i],
           p \in alive, UNCHANGED <<alive, limit, takes>>,
           a = "countLook" => i \in Slots,
           a \in Taking \cup {"hold", "leave"} => i < limit[p],
           a \notin {"idle", "hold", "leave"} => takes[p] < MaxTakes
    PROVE  PlaceInv'
<1>1. /\ at' \in [Pids -> Places] /\ index' \in [Pids -> 0..MaxLimit] /\ limit' = limit
      /\ takes' = takes
    BY DEF PlaceInv
<1>2. \A q \in Pids : at'[q] \in Taking \cup {"hold", "leave"} => index'[q] < limit[q]
    BY DEF PlaceInv
<1>3. TakesInv'
    BY DEF PlaceInv, TakesInv
<1> QED
    BY <1>1, <1>2, <1>3 DEF PlaceInv

LEMMA JudgesKeeps ==
    ASSUME RestInv, NEW p \in Pids, NEW i \in Slots, Judges(p, slot[i])
    PROVE  known' \in [Pids -> [Pids -> 0..MaxStarts]]
<1> SUFFICES ASSUME slot[i] # NoHolder, slot[i].pid \in alive, slot[i].pid # p
             PROVE  known' \in [Pids -> [Pids -> 0..MaxStarts]]
    BY DEF Judges, RestInv
<1>1. slot[i].pid \in Pids
    BY DEF RestInv
<1>2. ReadStart(p, slot[i].pid) \in 0..MaxStarts
    BY <1>1 DEF ReadStart, RestInv
<1> QED
    BY <1>1, <1>2 DEF Judges, RestInv

\* Types are kept, action by action.
LEMMA TypeKept == ASSUME TypeInv, [Next]_vars PROVE TypeInv'
<1> SUFFICES PlaceInv' /\ RestInv'
    BY DEF TypeInv, SlotsTypeOK, PlaceInv, RestInv
<1> PlaceInv /\ RestInv
    BY TypeParts
<1>0. \A p \in Pids : /\ limit[p] \in Nat \ {0} /\ limit[p] <= MaxLimit /\ index[p] \in 0..MaxLimit
                      /\ (at[p] = "count" \/ at[p] = "recount") /\ index[p] \in Slots => index[p] + 1 \in 0..MaxLimit
                      /\ at[p] \in Taking => index[p] + 1 \in 0..MaxLimit /\ index[p] \in Slots
                      /\ MaxLimit \in Nat \ {0} /\ 0 \in 0..MaxLimit /\ takes[p] \in 0..MaxTakes
    BY LimitsBound DEF PlaceInv, Slots
<1> USE DEF Taking, Places
<1>1. CASE UNCHANGED vars
    BY <1>1 DEF vars, PlaceInv, RestInv, TakesInv
<1>2. ASSUME NEW p \in Pids, Asks(p) PROVE PlaceInv' /\ RestInv'
    <2>1. Listed(p) \in SUBSET Slots /\ {r \in Pids : Holds(r) /\ Knows(p, r)} \in SUBSET Pids
        BY DEF Listed
    <2>2. takes[p] < MaxTakes /\ p \in alive
        BY <1>2 DEF Asks, At, PlaceInv, TakesInv
    <2>3. PlaceInv'
        BY <1>0, <1>2, <2>2, PlaceKept, "count" \in Places DEF Asks, Goes, others
    <2> QED
        BY <1>2, <2>1, <2>3 DEF Asks, others, RestInv
<1>3. ASSUME NEW p \in Pids, Counts(p) PROVE PlaceInv' /\ RestInv'
    <2>1. at[p] = "count" /\ index[p] \in Slots /\ takes[p] < MaxTakes /\ p \in alive
        BY <1>3 DEF Counts, At, PlaceInv, TakesInv
    <2>2. known' \in [Pids -> [Pids -> 0..MaxStarts]]
        BY <1>3, <2>1, JudgesKeeps DEF Counts, RestInv
    <2>3. RestInv'
        BY <1>3, <2>2 DEF Counts, Uncounted, others, RestInv
    <2>4. CASE GoesOn(p) /\ UNCHANGED at
        <3>1. at' = [at EXCEPT ![p] = "count"]
            BY <2>1, <2>4 DEF PlaceInv
        <3> QED
            BY <1>0, <1>3, <2>1, <2>3, <2>4, <3>1, PlaceKept, "count" \in Places DEF GoesOn, Counts, others
    <2>5. CASE Goes(p, "countLook") /\ UNCHANGED index
        <3>1. index' = [index EXCEPT ![p] = index[p]]
            BY <2>5 DEF PlaceInv
        <3> QED
            BY <1>0, <1>3, <2>1, <2>3, <2>5, <3>1, PlaceKept, "countLook" \in Places DEF Goes, Counts, others
    <2> QED
        BY <1>3, <2>4, <2>5 DEF Counts
<1>4. ASSUME NEW p \in Pids, CountLooks(p) PROVE PlaceInv' /\ RestInv'
    <2>1. p \in alive /\ index[p] \in Slots /\ takes[p] < MaxTakes
        BY <1>4 DEF CountLooks, At, PlaceInv, TakesInv
    <2>2. index[p] + 1 \in 0..MaxLimit
        BY <2>1, LimitsBound DEF Slots
    <2>3. PlaceInv'
        BY <1>4, <2>1, <2>2, PlaceKept, "count" \in Places DEF CountLooks, Goes, GoesOn, others
    <2> QED
        BY <1>4, <2>3 DEF CountLooks, Uncounted, others, RestInv
<1>5. ASSUME NEW p \in Pids, CountEnds(p) PROVE PlaceInv' /\ RestInv'
    <2>1. takes[p] < MaxTakes /\ p \in alive
        BY <1>5 DEF CountEnds, At, PlaceInv, TakesInv
    <2>2. PlaceInv'
        BY <1>0, <1>5, <2>1, PlaceKept, "recount" \in Places DEF CountEnds, Goes, others
    <2> QED
        BY <1>5, <2>2 DEF CountEnds, others, RestInv
<1>6. ASSUME NEW p \in Pids, Recounts(p) PROVE PlaceInv' /\ RestInv'
    <2>1. at[p] = "recount" /\ takes[p] < MaxTakes /\ p \in alive
        BY <1>6 DEF Recounts, At, PlaceInv, TakesInv
    <2>2. CASE index[p] \in Slots
        <3>1. at' = [at EXCEPT ![p] = "recount"] /\ index' = [index EXCEPT ![p] = index[p] + 1]
            BY <1>6, <2>1, <2>2 DEF Recounts, GoesOn, PlaceInv
        <3>2. PlaceInv'
            BY <1>0, <1>6, <2>1, <2>2, <3>1, PlaceKept, "recount" \in Places DEF Recounts, others
        <3> QED
            BY <1>6, <2>2, <3>2 DEF Recounts, Uncounted, others, RestInv
    <2>3. CASE index[p] \notin Slots
        <3>1. PICK a \in {"wait", "try"} : at' = [at EXCEPT ![p] = a]
            BY <1>6, <2>3 DEF Recounts, Goes
        <3>2. index' = [index EXCEPT ![p] = 0] /\ seen' = [seen EXCEPT ![p] = {}]
            BY <1>6, <2>3 DEF Recounts
        <3>. /\ a \in Places /\ a # "countLook" /\ 0 \in 0..MaxLimit /\ 0 < limit[p]
             /\ UNCHANGED <<alive, limit, takes>>
            BY <1>0, <1>6 DEF Recounts, others
        <3>3. PlaceInv'
            BY <2>1, <3>1, <3>2, PlaceKept
        <3>4. UNCHANGED <<others, slot, known, before>>
            BY <1>6 DEF Recounts
        <3>5. seen' \in [Pids -> SUBSET Slots]
            BY <3>2 DEF RestInv
        <3> QED
            BY <3>3, <3>4, <3>5 DEF others, RestInv
    <2> QED
        BY <2>2, <2>3
<1>7. ASSUME NEW p \in Pids, Creates(p), p \in alive, at[p] \in {"try", "retry"} PROVE PlaceInv' /\ RestInv'
    <2>1. Holder(p) \in Holders
        BY DEF Holder, Holders, RestInv
    <2>2. takes[p] < MaxTakes /\ index[p] < limit[p]
        BY <1>7 DEF PlaceInv, TakesInv
    <2>3. takes' \in [Pids -> 0..MaxTakes]
        BY <1>0, <1>7, <2>2, SlotsAssumption DEF Creates, PlaceInv
    <2>4. TakesInv'
        BY <1>7 DEF Creates, Goes, TakesInv, PlaceInv
    <2>5. PlaceInv'
        BY <1>7, <2>2, <2>3, <2>4 DEF Creates, Goes, PlaceInv
    <2> QED
        BY <1>7, <2>1, <2>5 DEF Creates, RestInv
<1>stay. ASSUME NEW p \in Pids, NEW a \in Places \ {"countLook"}, Goes(p, a),
                p \in alive, UNCHANGED <<alive, index, limit, takes>>,
                a \in Taking \cup {"hold", "leave"} => index[p] < limit[p],
                a \notin {"idle", "hold", "leave"} => takes[p] < MaxTakes
         PROVE  PlaceInv'
    <2>1. index' = [index EXCEPT ![p] = index[p]]
        BY <1>stay DEF PlaceInv
    <2> QED
        BY <1>0, <1>stay, <2>1, PlaceKept DEF Goes
<1>pass. ASSUME NEW p \in Pids, Passes(p), p \in alive, UNCHANGED <<alive, limit, takes>>, at[p] \in Taking
         PROVE  PlaceInv'
    <2>1. takes[p] < MaxTakes /\ index[p] + 1 \in 0..MaxLimit /\ limit[p] \in Nat
        BY <1>0, <1>pass DEF PlaceInv, TakesInv
    <2>2. index' = [index EXCEPT ![p] = index[p] + 1]
        BY <1>pass DEF Passes
    <2>3. CASE index[p] + 1 < limit[p]
        BY <1>pass, <2>1, <2>2, <2>3, PlaceKept, "try" \in Places DEF Passes, Goes
    <2>4. CASE ~(index[p] + 1 < limit[p])
        BY <1>pass, <2>1, <2>2, <2>4, PlaceKept, "wait" \in Places DEF Passes, Goes
    <2> QED
        BY <2>3, <2>4
<1>8. ASSUME NEW p \in Pids, Tries(p) PROVE PlaceInv' /\ RestInv'
    <2>1. at[p] = "try" /\ index[p] < limit[p] /\ takes[p] < MaxTakes /\ p \in alive
        BY <1>8 DEF Tries, At, PlaceInv, TakesInv
    <2>2. CASE Creates(p)
        BY <1>7, <2>1, <2>2
    <2>3. CASE ~Creates(p)
        BY <1>8, <1>stay, <2>1, <2>3, "judge" \in Places DEF Tries, others, RestInv
    <2> QED
        BY <2>2, <2>3
<1>9. ASSUME NEW p \in Pids, Checks(p) PROVE PlaceInv' /\ RestInv'
    <2>1. at[p] = "judge" /\ index[p] \in Slots /\ index[p] < limit[p] /\ takes[p] < MaxTakes /\ p \in alive
        BY <1>0, <1>9 DEF Checks, At, PlaceInv, TakesInv
    <2>2. known' \in [Pids -> [Pids -> 0..MaxStarts]]
        BY <1>9, <2>1, JudgesKeeps DEF Checks
    <2>3. RestInv' /\ UNCHANGED <<alive, limit, takes>>
        BY <1>9, <2>2 DEF Checks, others, RestInv
    <2>4. \/ Goes(p, "look") /\ UNCHANGED index
          \/ Goes(p, "reclaim") /\ UNCHANGED index
          \/ Passes(p)
        BY <1>9 DEF Checks
    <2> QED
        BY <1>stay, <1>pass, <2>1, <2>3, <2>4, "look" \in Places, "reclaim" \in Places
<1>10. ASSUME NEW p \in Pids, Looks(p) PROVE PlaceInv' /\ RestInv'
    <2>1. at[p] = "look" /\ index[p] < limit[p] /\ takes[p] < MaxTakes /\ p \in alive
        BY <1>10 DEF Looks, At, PlaceInv, TakesInv
    <2>2. RestInv' /\ UNCHANGED <<alive, limit, takes>>
        BY <1>10 DEF Looks, others, RestInv
    <2> QED
        BY <1>10, <1>stay, <1>pass, <2>1, <2>2, "reclaim" \in Places DEF Looks
<1>11. ASSUME NEW p \in Pids, Reclaims(p) PROVE PlaceInv' /\ RestInv'
    <2>1. at[p] = "reclaim" /\ index[p] < limit[p] /\ takes[p] < MaxTakes /\ p \in alive
        BY <1>11 DEF Reclaims, At, PlaceInv, TakesInv
    <2> QED
        BY <1>11, <1>stay, <2>1, "retry" \in Places DEF Reclaims, others, RestInv
<1>12. ASSUME NEW p \in Pids, TriesAgain(p) PROVE PlaceInv' /\ RestInv'
    <2>1. at[p] = "retry" /\ p \in alive
        BY <1>12 DEF TriesAgain, At
    <2>2. CASE Creates(p)
        BY <1>7, <2>1, <2>2
    <2>3. CASE ~Creates(p)
        BY <1>12, <1>pass, <2>1, <2>3 DEF TriesAgain, others, RestInv
    <2> QED
        BY <2>2, <2>3
<1>13. ASSUME NEW p \in Pids, Releases(p) PROVE PlaceInv' /\ RestInv'
    <2>1. at[p] = "hold" /\ p \in alive /\ index[p] < limit[p]
        BY <1>13 DEF Releases, At, PlaceInv
    <2>2. Goes(p, "leave") \/ Goes(p, "idle")
        BY <1>13 DEF Releases
    <2> QED
        BY <1>13, <1>stay, <2>1, <2>2, "leave" \in Places, "idle" \in Places
        DEF Releases, GivesUp, others, RestInv
<1>14. ASSUME NEW p \in Pids, Removes(p) PROVE PlaceInv' /\ RestInv'
    BY <1>14, <1>stay, "idle" \in Places DEF Removes, At, GivesUp, others, RestInv
<1>15. ASSUME NEW p \in Pids, TimesOut(p) PROVE PlaceInv' /\ RestInv'
    BY <1>15, <1>stay, "idle" \in Places DEF TimesOut, At, others, RestInv
<1>16. ASSUME NEW p \in Pids, Dies(p) PROVE PlaceInv' /\ RestInv'
    <2>1. PlaceInv'
        BY <1>16 DEF Dies, PlaceInv, TakesInv
    <2>2. deaths' \in 0..MaxDeaths
        BY <1>16, SlotsAssumption DEF Dies, RestInv
    <2> QED
        BY <1>16, <2>1, <2>2 DEF Dies, GivesUp, RestInv
<1>17. ASSUME NEW p \in Pids, PidReused(p) PROVE PlaceInv' /\ RestInv'
    <2>1. at[p] = "idle"
        BY <1>17 DEF PidReused, PlaceInv, TakesInv
    <2>2. PlaceInv'
        BY <1>17, <2>1 DEF PidReused, PlaceInv, TakesInv
    <2>3. start' \in [Pids -> 1..MaxStarts]
        BY <1>17, SlotsAssumption DEF PidReused, RestInv
    <2>4. known' \in [Pids -> [Pids -> 0..MaxStarts]]
        BY <1>17, SlotsAssumption DEF PidReused, RestInv
    <2> QED
        BY <1>17, <2>2, <2>3, <2>4 DEF PidReused, RestInv
<1>18. ASSUME NEW p \in Pids, NEW q \in Pids, Forgets(p, q) PROVE PlaceInv' /\ RestInv'
    BY <1>18, SlotsAssumption DEF Forgets, others, PlaceInv, RestInv, TakesInv
<1> QED
    BY <1>1, <1>2, <1>3, <1>4, <1>5, <1>6, <1>8, <1>9, <1>10, <1>11, <1>12, <1>13, <1>14,
       <1>15, <1>16, <1>17, <1>18 DEF Next, Runs

\* Who holds a slot through a step keeps its index, and gets no file back.
LEMMA HoldStays ==
    ASSUME TypeInv, [Next]_vars, NEW r \in Pids, Holds(r), Holds(r)'
    PROVE  /\ index'[r] = index[r] /\ start'[r] = start[r]
           /\ slot'[index[r]] = Holder(r) => slot[index[r]] = Holder(r)
<1> DEFINE Goal == /\ index'[r] = index[r] /\ start'[r] = start[r]
                   /\ slot'[index[r]] = Holder(r) => slot[index[r]] = Holder(r)
<1> SUFFICES Goal
    OBVIOUS
<1>0. /\ PlaceInv /\ RestInv /\ r \in alive /\ at[r] \in {"hold", "leave"}
      /\ r \in alive' /\ at'[r] \in {"hold", "leave"}
      /\ \A q \in Pids : Holder(q) = Holder(r) => q = r
      /\ NoHolder # Holder(r)
    BY TypeParts DEF Holds, Holder, NoHolder, RestInv
<1>s. index[r] \in Slots
    BY <1>0, LimitsBound DEF PlaceInv, Slots
<1> USE DEF Goal
<1>u. CASE UNCHANGED vars
    BY <1>u DEF vars
<1>1. ASSUME NEW p \in Pids, Asks(p) PROVE Goal
    BY <1>0, <1>1 DEF Asks, At, others, Goes, PlaceInv, RestInv
<1>2. ASSUME NEW p \in Pids, Counts(p) PROVE Goal
    BY <1>0, <1>2 DEF Counts, At, others, Uncounted, GoesOn, Goes, PlaceInv, RestInv
<1>3. ASSUME NEW p \in Pids, CountLooks(p) PROVE Goal
    BY <1>0, <1>3 DEF CountLooks, At, others, Goes, GoesOn, Uncounted, PlaceInv, RestInv
<1>4. ASSUME NEW p \in Pids, CountEnds(p) PROVE Goal
    BY <1>0, <1>4 DEF CountEnds, At, others, Goes, PlaceInv, RestInv
<1>5. ASSUME NEW p \in Pids, Recounts(p) PROVE Goal
    BY <1>0, <1>5 DEF Recounts, At, others, GoesOn, Goes, Uncounted, PlaceInv, RestInv
<1>6. ASSUME NEW p \in Pids, Tries(p) PROVE Goal
    <2>1. p # r
        BY <1>0, <1>6 DEF Tries, At
    <2>2. /\ UNCHANGED <<index, start>>
          /\ slot' = slot \/ slot' = [slot EXCEPT ![index[p]] = Holder(p)]
        BY <1>6 DEF Tries, Creates, others
    <2> QED
        BY <1>0, <1>s, <2>1, <2>2 DEF RestInv
<1>7. ASSUME NEW p \in Pids, Checks(p) PROVE Goal
    BY <1>0, <1>7 DEF Checks, At, others, Goes, Passes, PlaceInv, RestInv
<1>8. ASSUME NEW p \in Pids, Looks(p) PROVE Goal
    BY <1>0, <1>8 DEF Looks, At, others, Goes, Passes, PlaceInv, RestInv
<1>9. ASSUME NEW p \in Pids, Reclaims(p) PROVE Goal
    BY <1>0, <1>9 DEF Reclaims, At, others, Goes, PlaceInv, RestInv
<1>10. ASSUME NEW p \in Pids, TriesAgain(p) PROVE Goal
    <2>1. p # r
        BY <1>0, <1>10 DEF TriesAgain, At
    <2>2. /\ index'[r] = index[r] /\ UNCHANGED start
          /\ slot' = slot \/ slot' = [slot EXCEPT ![index[p]] = Holder(p)]
        BY <1>0, <1>10, <2>1 DEF TriesAgain, Creates, Passes, others, PlaceInv
    <2> QED
        BY <1>0, <1>s, <2>1, <2>2 DEF RestInv
<1>11. ASSUME NEW p \in Pids, Releases(p) PROVE Goal
    BY <1>0, <1>11 DEF Releases, At, others, Goes, GivesUp, PlaceInv, RestInv
<1>12. ASSUME NEW p \in Pids, Removes(p) PROVE Goal
    BY <1>0, <1>12 DEF Removes, At, others, Goes, GivesUp, PlaceInv, RestInv
<1>13. ASSUME NEW p \in Pids, TimesOut(p) PROVE Goal
    BY <1>0, <1>13 DEF TimesOut, At, others, Goes, PlaceInv, RestInv
<1>14. ASSUME NEW p \in Pids, Dies(p) PROVE Goal
    BY <1>0, <1>14 DEF Dies, At, others, GivesUp, PlaceInv, RestInv
<1>15. ASSUME NEW p \in Pids, PidReused(p) PROVE Goal
    BY <1>0, <1>15 DEF PidReused, At, others, PlaceInv, RestInv
<1>16. ASSUME NEW p \in Pids, NEW q \in Pids, Forgets(p, q) PROVE Goal
    BY <1>16 DEF Forgets, others
<1> QED
    BY <1>u, <1>1, <1>2, <1>3, <1>4, <1>5, <1>6, <1>7, <1>8, <1>9, <1>10, <1>11, <1>12, <1>13, <1>14, <1>15, <1>16 DEF Next, Runs

-----------------------------------------------------------------------------
\* Who is before p's look holds its slot until it gives it up or dies.
LEMMA BeforeKept == ASSUME TypeInv, BeforeInv, [Next]_vars PROVE BeforeInv'
<1>0. /\ PlaceInv /\ RestInv
      /\ \A p \in Pids : before[p] \subseteq Pids
      /\ \A p \in Pids : \A r \in before[p] : r \in alive /\ at[r] \in {"hold", "leave"} /\ Knows(p, r)
    BY TypeParts DEF BeforeInv, Holds, RestInv
<1> SUFFICES ASSUME NEW o \in Pids, NEW r \in before'[o]
             PROVE  r \in alive' /\ at'[r] \in {"hold", "leave"} /\ Knows(o, r)'
    BY DEF BeforeInv, Holds
<1> DEFINE Goal == r \in alive' /\ at'[r] \in {"hold", "leave"} /\ Knows(o, r)'
<1> SUFFICES Goal
    OBVIOUS
<1>j. ASSUME NEW p \in Pids, NEW i \in Slots, Judges(p, slot[i]), r \in before[o], UNCHANGED start
      PROVE  Knows(o, r)'
    <2>1. CASE UNCHANGED known
        BY <1>0, <1>j, <2>1 DEF Knows
    <2>2. CASE ~UNCHANGED known
        <3>1. slot[i] \in Holders /\ slot[i].pid \in Pids
            BY <1>0, <1>j, <2>2 DEF Judges, RestInv, Holders
        <3>2. known' = [known EXCEPT ![p][slot[i].pid] = ReadStart(p, slot[i].pid)]
            BY <1>j, <2>2 DEF Judges
        <3> QED
            BY <1>0, <1>j, <3>1, <3>2 DEF Knows, ReadStart, RestInv
    <2> QED
        BY <2>1, <2>2
<1> USE DEF Goal
<1>u. CASE UNCHANGED vars
    BY <1>0, <1>u DEF vars, Knows
<1>1. ASSUME NEW p \in Pids, Asks(p) PROVE Goal
    BY <1>0, <1>1 DEF Asks, At, others, Goes, PlaceInv, RestInv, Knows, Holds
<1>2. ASSUME NEW p \in Pids, Counts(p) PROVE Goal
    <2>1. r \in before[o] /\ r # p /\ UNCHANGED <<alive, start>>
        BY <1>0, <1>2 DEF Counts, At, others
    <2>2. at'[r] = at[r] /\ index[p] \in Slots
        BY <1>0, <1>2, <2>1, LimitsBound DEF Counts, At, others, Uncounted, GoesOn, Goes, PlaceInv, Slots, Taking
    <2>3. Knows(o, r)'
        BY <1>0, <1>2, <1>j, <2>1, <2>2 DEF Counts, Judges, Knows
    <2> QED
        BY <1>0, <2>1, <2>2, <2>3
<1>3. ASSUME NEW p \in Pids, CountLooks(p) PROVE Goal
    BY <1>0, <1>3 DEF CountLooks, At, others, Goes, GoesOn, Uncounted, PlaceInv, RestInv, Knows, Holds
<1>4. ASSUME NEW p \in Pids, CountEnds(p) PROVE Goal
    BY <1>0, <1>4 DEF CountEnds, At, others, Goes, PlaceInv, RestInv, Knows, Holds
<1>5. ASSUME NEW p \in Pids, Recounts(p) PROVE Goal
    BY <1>0, <1>5 DEF Recounts, At, others, GoesOn, Goes, Uncounted, PlaceInv, RestInv, Knows, Holds
<1>6. ASSUME NEW p \in Pids, Tries(p) PROVE Goal
    BY <1>0, <1>6 DEF Tries, At, others, Creates, Goes, PlaceInv, RestInv, Knows, Holds
<1>7. ASSUME NEW p \in Pids, Checks(p) PROVE Goal
    <2>1. r \in before[o] /\ r # p /\ UNCHANGED <<alive, start>>
        BY <1>0, <1>7 DEF Checks, At, others
    <2>2. at'[r] = at[r] /\ index[p] \in Slots
        BY <1>0, <1>7, <2>1, LimitsBound DEF Checks, At, others, Goes, Passes, PlaceInv, Slots, Taking
    <2>3. Knows(o, r)'
        BY <1>0, <1>7, <1>j, <2>1, <2>2 DEF Checks, Judges, Knows
    <2> QED
        BY <1>0, <2>1, <2>2, <2>3
<1>8. ASSUME NEW p \in Pids, Looks(p) PROVE Goal
    BY <1>0, <1>8 DEF Looks, At, others, Goes, Passes, PlaceInv, RestInv, Knows, Holds
<1>9. ASSUME NEW p \in Pids, Reclaims(p) PROVE Goal
    BY <1>0, <1>9 DEF Reclaims, At, others, Goes, PlaceInv, RestInv, Knows, Holds
<1>10. ASSUME NEW p \in Pids, TriesAgain(p) PROVE Goal
    BY <1>0, <1>10 DEF TriesAgain, At, others, Creates, Goes, Passes, PlaceInv, RestInv, Knows, Holds
<1>11. ASSUME NEW p \in Pids, Releases(p) PROVE Goal
    BY <1>0, <1>11 DEF Releases, At, others, Goes, GivesUp, PlaceInv, RestInv, Knows, Holds
<1>12. ASSUME NEW p \in Pids, Removes(p) PROVE Goal
    BY <1>0, <1>12 DEF Removes, At, others, Goes, GivesUp, PlaceInv, RestInv, Knows, Holds
<1>13. ASSUME NEW p \in Pids, TimesOut(p) PROVE Goal
    BY <1>0, <1>13 DEF TimesOut, At, others, Goes, PlaceInv, RestInv, Knows, Holds
<1>14. ASSUME NEW p \in Pids, Dies(p) PROVE Goal
    BY <1>0, <1>14 DEF Dies, At, others, GivesUp, PlaceInv, RestInv, Knows, Holds
<1>15. ASSUME NEW p \in Pids, PidReused(p) PROVE Goal
    BY <1>0, <1>15 DEF PidReused, At, others, PlaceInv, RestInv, Knows, Holds
<1>16. ASSUME NEW p \in Pids, NEW q \in Pids, Forgets(p, q) PROVE Goal
    BY <1>0, <1>16 DEF Forgets, others, Knows, RestInv
<1> QED
    BY <1>u, <1>1, <1>2, <1>3, <1>4, <1>5, <1>6, <1>7, <1>8,
       <1>9, <1>10, <1>11, <1>12, <1>13, <1>14, <1>15, <1>16 DEF Next, Runs
-----------------------------------------------------------------------------
\* The earlier holders of a look that goes on only become fewer, and stay where they are.
LEMMA EarlierShrinks ==
    ASSUME TypeInv, BeforeInv, [Next]_vars, NEW p \in Pids, ~Asks(p)
    PROVE  \A r \in EarlierHolders(p)' : r \in EarlierHolders(p) /\ index'[r] = index[r]
<1> SUFFICES ASSUME NEW r \in EarlierHolders(p)'
             PROVE  r \in EarlierHolders(p) /\ index'[r] = index[r]
    OBVIOUS
<1>1. before'[p] \subseteq before[p]
    <2>1. before \in [Pids -> SUBSET Pids]
        BY TypeParts DEF RestInv
    <2>2. CASE UNCHANGED before
        BY <2>2
    <2>3. ASSUME NEW q \in Pids, GivesUp(q) PROVE before'[p] \subseteq before[p]
        BY <2>3 DEF GivesUp
    <2>4. ASSUME NEW q \in Pids, Asks(q) PROVE before'[p] \subseteq before[p]
        BY <2>1, <2>4 DEF Asks
    <2> QED
        BY <2>2, <2>3, <2>4
        DEF Next, Runs, vars, Counts, CountLooks, CountEnds, Recounts, Tries, Creates, Checks, Looks,
            Reclaims, TriesAgain, Releases, Removes, TimesOut, Dies, PidReused, Forgets
<1>2. r \in before[p] /\ r \in Pids /\ Holds(r) /\ Holds(r)'
    <2>1. r \in before'[p] /\ r \in before[p]
        BY <1>1 DEF EarlierHolders
    <2>2. BeforeInv'
        BY BeforeKept
    <2>3. before[p] \subseteq Pids
        BY TypeParts DEF RestInv
    <2> QED
        BY <2>1, <2>2, <2>3 DEF BeforeInv
<1>3. /\ index'[r] = index[r] /\ start'[r] = start[r]
      /\ slot'[index[r]] = Holder(r) => slot[index[r]] = Holder(r)
    BY <1>2, HoldStays
<1> QED
    BY <1>2, <1>3 DEF EarlierHolders, Holder

\* The file of an earlier holder is its own, of a slot that exists, and not stale.
LEMMA EarlierIsNotStale ==
    ASSUME TypeInv, BeforeInv, NEW p \in Pids, NEW r \in EarlierHolders(p)
    PROVE  /\ r \in Pids /\ index[r] \in Slots
           /\ slot[index[r]] = Holder(r) /\ Holder(r) # NoHolder
           /\ ~Stale(p, slot[index[r]])
<1>1. /\ r \in Pids /\ r \in alive /\ at[r] \in {"hold", "leave"} /\ Knows(p, r)
      /\ slot[index[r]] = Holder(r)
    BY TypeParts DEF EarlierHolders, BeforeInv, Holds, RestInv
<1>2. index[r] \in Slots
    BY <1>1, TypeParts, LimitsBound DEF PlaceInv, Slots
<1>3. start[r] \in 1..MaxStarts /\ Holder(r) # NoHolder
    BY <1>1, TypeParts DEF RestInv, Holder, NoHolder
<1>4. ~Stale(p, Holder(r))
    BY <1>1, <1>3 DEF Stale, ReadStart, Knows, Holder
<1> QED
    BY <1>1, <1>2, <1>3, <1>4

\* Earlier holders have slots of their own.
LEMMA EarlierAreListed ==
    ASSUME TypeInv, BeforeInv, NEW p \in Pids,
           \A r \in EarlierHolders(p) : index[r] \in seen[p]
    PROVE  /\ IsFiniteSet(EarlierHolders(p)) /\ IsFiniteSet(seen[p])
           /\ Cardinality(EarlierHolders(p)) <= Cardinality(seen[p])
<1> DEFINE f == [r \in EarlierHolders(p) |-> index[r]]
<1>1. IsFiniteSet(seen[p])
    BY TypeParts, LimitsBound, FS_Subset DEF RestInv
<1>2. ASSUME NEW r \in EarlierHolders(p), NEW s \in EarlierHolders(p), f[r] = f[s] PROVE r = s
    <2>1. index[r] = index[s]
        BY <1>2
    <2>2. Holder(r) = Holder(s)
        BY <1>2, <2>1, EarlierIsNotStale
    <2> QED
        BY <2>2 DEF Holder
<1>3. f \in Injection(EarlierHolders(p), seen[p])
    BY <1>2 DEF Injection, IsInjective
<1> QED
    BY <1>1, <1>3, FS_Injection

LEMMA FewerStay ==
    ASSUME TypeInv, BeforeInv, [Next]_vars, NEW p \in Pids, ~Asks(p), Fewer(p), at[p] \in Taking,
           limit'[p] = limit[p]
    PROVE  Fewer(p)'
<1>1. IsFiniteSet(EarlierHolders(p)) /\ Cardinality(EarlierHolders(p)) < limit[p]
    BY DEF Fewer
<1>2. EarlierHolders(p)' \subseteq EarlierHolders(p)
    BY EarlierShrinks
<1>3. /\ IsFiniteSet(EarlierHolders(p)')
      /\ Cardinality(EarlierHolders(p)') <= Cardinality(EarlierHolders(p))
    BY <1>1, <1>2, FS_Subset
<1>4. Cardinality(EarlierHolders(p)) \in Nat /\ Cardinality(EarlierHolders(p)') \in Nat
    BY <1>1, <1>3, FS_CardinalityType
<1>5. limit[p] \in Nat
    BY LimitsBound, TypeParts DEF PlaceInv
<1> QED
    BY <1>1, <1>3, <1>4, <1>5 DEF Fewer

\* A step of one process does not disturb another's look.
LEMMA OthersLook ==
    ASSUME TypeInv, BeforeInv, [Next]_vars, NEW q \in Pids, Looking(q),
           at'[q] = at[q], index'[q] = index[q], seen'[q] = seen[q], limit'[q] = limit[q]
    PROVE  Looking(q)'
<1>0. ~Asks(q)
    BY TypeParts DEF Asks, At, Goes, PlaceInv
<1>1. \A r \in EarlierHolders(q)' : r \in EarlierHolders(q) /\ index'[r] = index[r]
    BY <1>0, EarlierShrinks
<1>2. Spares(q)' /\ Lists(q)'
    BY <1>1 DEF Looking, Spares, Lists
<1>3. CASE at[q] \in Taking
    BY <1>0, <1>2, <1>3, FewerStay DEF Looking
<1>4. CASE at[q] \notin Taking
    BY <1>2, <1>4 DEF Looking, Fewer
<1> QED
    BY <1>3, <1>4
-----------------------------------------------------------------------------
\* A look at slots spares their earlier holders, step by step.
LEMMA LookingKept ==
    ASSUME TypeInv, BeforeInv, \A p \in Pids : Looking(p), [Next]_vars
    PROVE  \A p \in Pids : Looking(p)'
<1>0. PlaceInv /\ RestInv
    BY TypeParts
<1>u. CASE UNCHANGED vars
    BY <1>u DEF vars, Looking, Spares, Lists, Fewer, EarlierHolders, Holder
<1>all. ASSUME NEW p \in Pids, Looking(p)',
               \A q \in Pids \ {p} : at'[q] = at[q] /\ index'[q] = index[q] /\ seen'[q] = seen[q]
                                     /\ limit'[q] = limit[q]
        PROVE  \A q \in Pids : Looking(q)'
    BY <1>all, OthersLook
<1>shrink. \A p \in Pids : ~Asks(p) => \A r \in EarlierHolders(p)' :
                /\ r \in EarlierHolders(p) /\ index'[r] = index[r]
                /\ r \in Pids /\ index[r] \in Slots
                /\ slot[index[r]] # NoHolder /\ ~Stale(p, slot[index[r]])
    BY EarlierShrinks, EarlierIsNotStale
<1>rest. ASSUME NEW p \in Pids, at'[p] \notin Taking \cup {"count", "countLook", "recount"}
         PROVE  Looking(p)'
    BY <1>rest DEF Looking, Spares, Lists, Fewer, Taking
<1>taking. ASSUME NEW p \in Pids, at[p] \in Taking, at'[p] \in Taking, limit'[p] = limit[p], ~Asks(p),
                  Spares(p)'
           PROVE  Looking(p)'
    <2>1. Fewer(p)'
        BY <1>taking, FewerStay DEF Looking
    <2>2. Lists(p)'
        BY <1>taking DEF Lists, Taking
    <2> QED
        BY <1>taking, <2>1, <2>2 DEF Looking
<1>1. ASSUME NEW p \in Pids, Asks(p) PROVE \A q \in Pids : Looking(q)'
    <2>o. \A q \in Pids \ {p} : at'[q] = at[q] /\ index'[q] = index[q] /\ seen'[q] = seen[q]
                                 /\ limit'[q] = limit[q]
        BY <1>0, <1>1 DEF Asks, others, PlaceInv, RestInv, Goes
    <2>1. /\ at'[p] = "count" /\ seen'[p] = Listed(p) /\ UNCHANGED <<slot, start>>
          /\ before'[p] = {r \in Pids : Holds(r) /\ Knows(p, r)}
        BY <1>0, <1>1 DEF Asks, Goes, others, PlaceInv, RestInv
    <2>2. ASSUME NEW r \in EarlierHolders(p)' PROVE index'[r] \in seen'[p]
        <3>1. r \in Pids /\ Holds(r) /\ slot[index'[r]] = Holder(r)
            BY <2>1 DEF EarlierHolders, Holder
        <3>2. r # p
            BY <1>1, <3>1 DEF Asks, At, Holds
        <3>3. index'[r] = index[r] /\ index[r] \in Slots
            BY <1>0, <1>1, <3>1, <3>2, LimitsBound DEF Asks, Holds, PlaceInv, Slots
        <3>4. Holder(r) # NoHolder
            BY <1>0, <3>1 DEF Holder, NoHolder, RestInv
        <3> QED
            BY <2>1, <3>1, <3>3, <3>4 DEF Listed
    <2>3. Looking(p)'
        BY <2>1, <2>2 DEF Looking, Spares, Lists, Fewer, Taking
    <2> QED
        BY <1>all, <2>o, <2>3
<1>2. ASSUME NEW p \in Pids, Counts(p) PROVE \A q \in Pids : Looking(q)'
    <2>o. \A q \in Pids \ {p} : at'[q] = at[q] /\ index'[q] = index[q] /\ seen'[q] = seen[q]
                                 /\ limit'[q] = limit[q]
        BY <1>0, <1>2 DEF Counts, others, PlaceInv, RestInv, Goes, GoesOn, Uncounted
    <2>1. ~Asks(p) /\ at[p] = "count"
        BY <1>2 DEF Counts, Asks, At
    <2>2. at'[p] \in {"count", "countLook"} /\ (at'[p] = "countLook" => slot[index[p]] = NoHolder /\ index'[p] = index[p])
        BY <1>0, <1>2, <2>1 DEF Counts, Goes, PlaceInv
    <2>3. seen'[p] = seen[p] \/ (seen'[p] = seen[p] \ {index[p]} /\ Stale(p, slot[index[p]]))
        BY <1>0, <1>2 DEF Counts, Uncounted, RestInv
    <2>4. Spares(p)'
        BY <1>shrink, <2>1, <2>2 DEF Spares
    <2>5. Lists(p)'
        BY <1>shrink, <2>1, <2>3 DEF Lists, Looking
    <2>6. Looking(p)'
        BY <2>2, <2>4, <2>5 DEF Looking, Fewer, Taking
    <2> QED
        BY <1>all, <2>o, <2>6
<1>3. ASSUME NEW p \in Pids, CountLooks(p) PROVE \A q \in Pids : Looking(q)'
    <2>o. \A q \in Pids \ {p} : at'[q] = at[q] /\ index'[q] = index[q] /\ seen'[q] = seen[q]
                                 /\ limit'[q] = limit[q]
        BY <1>0, <1>3 DEF CountLooks, others, PlaceInv, RestInv, Goes, GoesOn, Uncounted
    <2>1. ~Asks(p) /\ at[p] = "countLook" /\ at'[p] = "count"
        BY <1>0, <1>3 DEF CountLooks, Asks, At, Goes, PlaceInv
    <2>2. seen'[p] = seen[p] \/ seen'[p] = seen[p] \ {index[p]}
        BY <1>0, <1>3 DEF CountLooks, Uncounted, RestInv
    <2>3. Lists(p)'
        BY <1>shrink, <2>1, <2>2 DEF Lists, Spares, Looking
    <2>4. Looking(p)'
        BY <2>1, <2>3 DEF Looking, Spares, Fewer, Taking
    <2> QED
        BY <1>all, <2>o, <2>4
<1>4. ASSUME NEW p \in Pids, CountEnds(p) PROVE \A q \in Pids : Looking(q)'
    <2>o. \A q \in Pids \ {p} : at'[q] = at[q] /\ index'[q] = index[q] /\ seen'[q] = seen[q]
                                 /\ limit'[q] = limit[q]
        BY <1>0, <1>4 DEF CountEnds, others, PlaceInv, RestInv, Goes
    <2>1. ~Asks(p) /\ at[p] = "count" /\ at'[p] = "recount" /\ seen' = seen
        BY <1>0, <1>4 DEF CountEnds, Asks, At, Goes, PlaceInv
    <2>2. Lists(p)'
        BY <1>shrink, <2>1 DEF Lists, Looking
    <2>3. Looking(p)'
        BY <2>1, <2>2 DEF Looking, Spares, Fewer, Taking
    <2> QED
        BY <1>all, <2>o, <2>3
<1>5. ASSUME NEW p \in Pids, Recounts(p) PROVE \A q \in Pids : Looking(q)'
    <2>o. \A q \in Pids \ {p} : at'[q] = at[q] /\ index'[q] = index[q] /\ seen'[q] = seen[q]
                                 /\ limit'[q] = limit[q]
        BY <1>0, <1>5 DEF Recounts, others, PlaceInv, RestInv, Goes, GoesOn, Uncounted
    <2>1. ~Asks(p) /\ at[p] = "recount"
        BY <1>5 DEF Recounts, Asks, At
    <2>2. \A r \in EarlierHolders(p) : index[r] \in seen[p]
        BY <2>1 DEF Looking, Lists
    <2>3. ASSUME index[p] \in Slots PROVE Looking(p)'
        <3>1. at' = at /\ (seen'[p] = seen[p] \/ (seen'[p] = seen[p] \ {index[p]} /\ slot[index[p]] = NoHolder))
            BY <1>0, <1>5, <2>3 DEF Recounts, Uncounted, RestInv
        <3>2. Lists(p)'
            BY <1>shrink, <2>1, <2>2, <3>1 DEF Lists
        <3> QED
            BY <2>1, <3>1, <3>2 DEF Looking, Spares, Fewer, Taking
    <2>4. ASSUME index[p] \notin Slots, Cardinality(seen[p]) >= limit[p] PROVE Looking(p)'
        <3>1. at'[p] = "wait"
            BY <1>0, <1>5, <2>4 DEF Recounts, Goes, PlaceInv
        <3> QED
            BY <1>rest, <3>1 DEF Taking
    <2>5. ASSUME index[p] \notin Slots, ~(Cardinality(seen[p]) >= limit[p]) PROVE Looking(p)'
        <3>1. at'[p] = "try" /\ limit' = limit
            BY <1>0, <1>5, <2>5 DEF Recounts, Goes, PlaceInv, others
        <3>2. /\ IsFiniteSet(EarlierHolders(p)) /\ IsFiniteSet(seen[p])
              /\ Cardinality(EarlierHolders(p)) <= Cardinality(seen[p])
            BY <2>2, EarlierAreListed
        <3>3. EarlierHolders(p)' \subseteq EarlierHolders(p)
            BY <1>shrink, <2>1
        <3>4. /\ IsFiniteSet(EarlierHolders(p)')
              /\ Cardinality(EarlierHolders(p)') <= Cardinality(EarlierHolders(p))
            BY <3>2, <3>3, FS_Subset
        <3>5. /\ Cardinality(EarlierHolders(p)) \in Nat /\ Cardinality(EarlierHolders(p)') \in Nat
              /\ Cardinality(seen[p]) \in Nat /\ limit[p] \in Nat
            BY <1>0, <3>2, <3>4, FS_CardinalityType, LimitsBound DEF PlaceInv
        <3>6. Cardinality(EarlierHolders(p)') < limit[p]
            BY <2>5, <3>2, <3>4, <3>5
        <3>7. Fewer(p)'
            BY <3>1, <3>4, <3>6 DEF Fewer
        <3> QED
            BY <3>1, <3>7 DEF Looking, Spares, Lists, Taking
    <2>6. Looking(p)'
        BY <2>3, <2>4, <2>5
    <2> QED
        BY <1>all, <2>o, <2>6
<1>6. ASSUME NEW p \in Pids, Tries(p) PROVE \A q \in Pids : Looking(q)'
    <2>o. \A q \in Pids \ {p} : at'[q] = at[q] /\ index'[q] = index[q] /\ seen'[q] = seen[q]
                                 /\ limit'[q] = limit[q]
        BY <1>0, <1>6 DEF Tries, others, PlaceInv, RestInv, Goes, Creates
    <2>1. ~Asks(p) /\ at[p] = "try" /\ limit' = limit /\ at'[p] \in {"hold", "judge"}
        BY <1>0, <1>6 DEF Tries, Creates, Asks, At, Goes, PlaceInv, others
    <2>2. Spares(p)'
        BY <2>1 DEF Spares
    <2>3. Looking(p)'
        BY <1>rest, <1>taking, <2>1, <2>2 DEF Taking
    <2> QED
        BY <1>all, <2>o, <2>3
<1>7. ASSUME NEW p \in Pids, Checks(p) PROVE \A q \in Pids : Looking(q)'
    <2>o. \A q \in Pids \ {p} : at'[q] = at[q] /\ index'[q] = index[q] /\ seen'[q] = seen[q]
                                 /\ limit'[q] = limit[q]
        BY <1>0, <1>7 DEF Checks, others, PlaceInv, RestInv, Goes, Passes
    <2>1. ~Asks(p) /\ at[p] = "judge" /\ limit' = limit
        BY <1>7 DEF Checks, Asks, At, others
    <2>2. \/ at'[p] = "look" /\ index'[p] = index[p] /\ slot[index[p]] = NoHolder
          \/ at'[p] = "reclaim" /\ index'[p] = index[p] /\ Stale(p, slot[index[p]])
          \/ at'[p] \in {"try", "wait"}
        BY <1>0, <1>7 DEF Checks, Goes, Passes, PlaceInv
    <2>3. Spares(p)'
        BY <1>shrink, <2>1, <2>2 DEF Spares
    <2>4. Looking(p)'
        BY <1>rest, <1>taking, <2>1, <2>2, <2>3 DEF Taking
    <2> QED
        BY <1>all, <2>o, <2>4
<1>8. ASSUME NEW p \in Pids, Looks(p) PROVE \A q \in Pids : Looking(q)'
    <2>o. \A q \in Pids \ {p} : at'[q] = at[q] /\ index'[q] = index[q] /\ seen'[q] = seen[q]
                                 /\ limit'[q] = limit[q]
        BY <1>0, <1>8 DEF Looks, others, PlaceInv, RestInv, Goes, Passes
    <2>1. ~Asks(p) /\ at[p] = "look" /\ limit' = limit
        BY <1>8 DEF Looks, Asks, At, others
    <2>2. \/ at'[p] = "reclaim" /\ index'[p] = index[p]
          \/ at'[p] \in {"try", "wait"}
        BY <1>0, <1>8 DEF Looks, Goes, Passes, PlaceInv
    <2>3. Spares(p)'
        BY <1>shrink, <2>1, <2>2 DEF Spares, Looking
    <2>4. Looking(p)'
        BY <1>rest, <1>taking, <2>1, <2>2, <2>3 DEF Taking
    <2> QED
        BY <1>all, <2>o, <2>4
<1>9. ASSUME NEW p \in Pids, Reclaims(p) PROVE \A q \in Pids : Looking(q)'
    <2>o. \A q \in Pids \ {p} : at'[q] = at[q] /\ index'[q] = index[q] /\ seen'[q] = seen[q]
                                 /\ limit'[q] = limit[q]
        BY <1>0, <1>9 DEF Reclaims, others, PlaceInv, RestInv, Goes
    <2>1. ~Asks(p) /\ at[p] = "reclaim" /\ limit' = limit /\ at'[p] = "retry"
        BY <1>0, <1>9 DEF Reclaims, Asks, At, Goes, PlaceInv, others
    <2>2. Spares(p)'
        BY <2>1 DEF Spares
    <2>3. Looking(p)'
        BY <1>taking, <2>1, <2>2 DEF Taking
    <2> QED
        BY <1>all, <2>o, <2>3
<1>10. ASSUME NEW p \in Pids, TriesAgain(p) PROVE \A q \in Pids : Looking(q)'
    <2>o. \A q \in Pids \ {p} : at'[q] = at[q] /\ index'[q] = index[q] /\ seen'[q] = seen[q]
                                 /\ limit'[q] = limit[q]
        BY <1>0, <1>10 DEF TriesAgain, others, PlaceInv, RestInv, Goes, Passes, Creates
    <2>1. ~Asks(p) /\ at[p] = "retry" /\ limit' = limit /\ at'[p] \in {"hold", "try", "wait"}
        BY <1>0, <1>10 DEF TriesAgain, Creates, Passes, Asks, At, Goes, PlaceInv, others
    <2>2. Spares(p)'
        BY <2>1 DEF Spares
    <2>3. Looking(p)'
        BY <1>rest, <1>taking, <2>1, <2>2 DEF Taking
    <2> QED
        BY <1>all, <2>o, <2>3
<1>11. ASSUME NEW p \in Pids, Releases(p) PROVE \A q \in Pids : Looking(q)'
    <2>o. \A q \in Pids \ {p} : at'[q] = at[q] /\ index'[q] = index[q] /\ seen'[q] = seen[q]
                                 /\ limit'[q] = limit[q]
        BY <1>0, <1>11 DEF Releases, others, PlaceInv, RestInv, Goes
    <2>1. at'[p] \in {"leave", "idle"}
        BY <1>0, <1>11 DEF Releases, Goes, PlaceInv
    <2>2. Looking(p)'
        BY <1>rest, <2>1 DEF Taking
    <2> QED
        BY <1>all, <2>o, <2>2
<1>12. ASSUME NEW p \in Pids, Removes(p) PROVE \A q \in Pids : Looking(q)'
    <2>o. \A q \in Pids \ {p} : at'[q] = at[q] /\ index'[q] = index[q] /\ seen'[q] = seen[q]
                                 /\ limit'[q] = limit[q]
        BY <1>0, <1>12 DEF Removes, others, PlaceInv, RestInv, Goes
    <2>1. at'[p] \in {"leave", "idle"}
        BY <1>0, <1>12 DEF Removes, Goes, PlaceInv
    <2>2. Looking(p)'
        BY <1>rest, <2>1 DEF Taking
    <2> QED
        BY <1>all, <2>o, <2>2
<1>13. ASSUME NEW p \in Pids, TimesOut(p) PROVE \A q \in Pids : Looking(q)'
    <2>o. \A q \in Pids \ {p} : at'[q] = at[q] /\ index'[q] = index[q] /\ seen'[q] = seen[q]
                                 /\ limit'[q] = limit[q]
        BY <1>0, <1>13 DEF TimesOut, others, PlaceInv, RestInv, Goes
    <2>1. at'[p] \in {"leave", "idle"}
        BY <1>0, <1>13 DEF TimesOut, Goes, PlaceInv
    <2>2. Looking(p)'
        BY <1>rest, <2>1 DEF Taking
    <2> QED
        BY <1>all, <2>o, <2>2
<1>14. ASSUME NEW p \in Pids, Dies(p) PROVE \A q \in Pids : Looking(q)'
    <2>o. \A q \in Pids \ {p} : at'[q] = at[q] /\ index'[q] = index[q] /\ seen'[q] = seen[q]
                                 /\ limit'[q] = limit[q]
        BY <1>0, <1>14 DEF Dies, others, PlaceInv, RestInv
    <2>1. at'[p] = "idle"
        BY <1>0, <1>14 DEF Dies, PlaceInv
    <2>2. Looking(p)'
        BY <1>rest, <2>1 DEF Taking
    <2> QED
        BY <1>all, <2>o, <2>2
<1>15. ASSUME NEW p \in Pids, PidReused(p) PROVE \A q \in Pids : Looking(q)'
    <2>o. \A q \in Pids \ {p} : at'[q] = at[q] /\ index'[q] = index[q] /\ seen'[q] = seen[q]
                                 /\ limit'[q] = limit[q]
        BY <1>0, <1>15 DEF PidReused, others, PlaceInv, RestInv
    <2>1. at'[p] = "idle"
        BY <1>0, <1>15 DEF PidReused, PlaceInv, TakesInv
    <2>2. Looking(p)'
        BY <1>rest, <2>1 DEF Taking
    <2> QED
        BY <1>all, <2>o, <2>2
<1>16. ASSUME NEW p \in Pids, NEW q \in Pids, Forgets(p, q) PROVE \A s \in Pids : Looking(s)'
    <2>1. UNCHANGED <<at, index, seen, limit>>
        BY <1>16 DEF Forgets, others
    <2> QED
        BY <2>1, OthersLook
<1> QED
    BY <1>u, <1>1, <1>2, <1>3, <1>4, <1>5, <1>6, <1>7, <1>8,
       <1>9, <1>10, <1>11, <1>12, <1>13, <1>14, <1>15, <1>16 DEF Next, Runs

\* The inductive invariant of the slots.
LEMMA SlotsInvariant == Spec => []IInv
<1>1. Init => IInv
    BY TypeInit DEF Init, IInv, BeforeInv, Looking, Spares, Lists, Fewer, Taking
<1>2. IInv /\ [Next]_vars => IInv'
    BY TypeKept, BeforeKept, LookingKept DEF IInv
<1> QED
    BY <1>1, <1>2, PTL DEF Spec

(* For any processes, limits and deaths: the state of acquireMachineSlot is well *)
(* typed, and a process takes only slots below the limit it asked for.           *)
THEOREM SlotsTypes == Spec => []SlotsTypeOK
<1>1. IInv => SlotsTypeOK
    BY DEF IInv, TypeInv
<1> QED
    BY <1>1, SlotsInvariant, PTL

(* Whoever is about to take a slot has found fewer holders than its limit among   *)
(* those that have held theirs since it began to look, whatever limits they asked *)
(* for (the count in tryTake).                                                    *)
THEOREM EarlierHoldersAreCounted == Spec => []EarlierHoldersCount
<1>1. IInv => EarlierHoldersCount
    BY DEF IInv, Looking, Fewer, EarlierHoldersCount
<1> QED
    BY <1>1, SlotsInvariant, PTL

(* The reclaim of a stale slot never takes the slot of a process that held it when *)
(* the caller began to look: the races the code accepts cost only later holders.   *)
THEOREM EarlierHoldersAreSpared == Spec => ReclaimSparesEarlierHolders
<1>1. IInv /\ [Next]_vars
      => [\A p \in Pids : Reclaims(p) => \A r \in EarlierHolders(p) : slot'[index[r]] = Holder(r)]_vars
    <2> SUFFICES ASSUME IInv, NEW p \in Pids, Reclaims(p), NEW r \in EarlierHolders(p)
                 PROVE  slot'[index[r]] = Holder(r)
        BY DEF IInv
    <2>1. index[r] # index[p] /\ slot[index[r]] = Holder(r)
        BY DEF IInv, Looking, Spares, Reclaims, At, EarlierHolders
    <2>2. slot' = [slot EXCEPT ![index[p]] = NoHolder]
        BY DEF Reclaims
    <2>3. index[r] \in Slots /\ slot \in [Slots -> Holders \cup {NoHolder}]
        BY EarlierIsNotStale, TypeParts DEF IInv, RestInv
    <2> QED
        BY <2>1, <2>2, <2>3
<1> QED
    BY <1>1, SlotsInvariant, PTL DEF Spec, ReclaimSparesEarlierHolders
=============================================================================
