--------------------------- MODULE RoutineProofs ---------------------------
(* What a run of a routine promises, for any routines, endpoints and bounds: *)
(* nothing outlives the control that started it, errors are logged once, and *)
(* every part that ends has answered what the routine means.                 *)
EXTENDS RoutineMeaning, SequenceTheorems, FiniteSetTheorems, TLAPS

Results == [status : Statuses \cup {"pending"}, of : Seq(Nat), class : Classes \cup {NoClass}]
Contexts == [steps : Seq(Nat), indices : Seq(Nat), caught : BOOLEAN, depth : 0..MaxDepth]
Activations == [routine : Routines, ctx : Contexts, result : Results]

\* The activations are a finite tree of paths.
RunInv ==
    /\ Root \in DOMAIN run /\ DOMAIN run \subseteq Seq(Nat) /\ IsFiniteSet(DOMAIN run)
    /\ run \in [DOMAIN run -> Activations]
    /\ \A p \in DOMAIN run : run[p].ctx.steps \in DOMAIN run /\ run[p].result.of \in DOMAIN run

\* Whatever is above an activation was started, and has not answered before it.
PathsInv == \A p \in DOMAIN run : \A n \in 0..Len(p) :
    Known(SubSeq(p, 1, n)) /\ (Settled(SubSeq(p, 1, n)) => Settled(p))

\* What p may have started in place i.
MayRun(p, i) ==
    /\ Op(p) \in {"call", "callApi", "seq", "for", "while", "if", "parallel", "parallel_for", "try"}
    /\ Op(p) \in {"call", "callApi"} => i = 1
    /\ Op(p) = "parallel" => i \in 1..Len(run[p].routine.of)
    /\ Op(p) = "parallel_for" => i \in 1..run[p].routine.items
    /\ Op(p) = "try" => \/ i = 1
                        \/ i = 2 /\ Catches(p)
                        \/ i = 3 /\ HasFinally(p) /\ BodyDone(p)

ShapeInv == \A p \in DOMAIN run : \A i \in Nat : Known(Kid(p, i)) => MayRun(p, i)

\* One part after another: there are no gaps.
Ordered == {"seq", "for", "while"}
OrderInv == \A p \in DOMAIN run : Op(p) \in Ordered =>
    \A i \in Nat : Known(Kid(p, i)) <=> i \in 1..Count(p)

\* caught tells of the :try around.
CaughtInv == \A p \in DOMAIN run : run[p].ctx.caught <=> InTry(p)

\* What is logged of an error is logged where it came from.
LogInv == \A l \in log :
    l.at \in DOMAIN run /\ l.of = l.at /\ Settled(l.at) /\ l.level \in {"debug", "warn", "error"}

AnswerInv ==
    /\ answer \in {"none", "async", "accepted", "success", "error", "reject"}
    /\ answer \notin {"none", "async", "accepted"} => Settled(Root)

IInv == RunInv /\ PathsInv /\ ShapeInv /\ OrderInv /\ CaughtInv /\ LogInv /\ LoggedOnce /\ AnswerInv

-----------------------------------------------------------------------------
(* Paths.                                                                   *)

LEMMA PrefixIs ==
    ASSUME NEW p \in Seq(Nat), NEW n \in 0..Len(p)
    PROVE  /\ SubSeq(p, 1, n) \in Seq(Nat) /\ Len(SubSeq(p, 1, n)) = n
           /\ \A k \in 1..n : SubSeq(p, 1, n)[k] = p[k]
<1>1. Len(p) \in Nat /\ \A k \in 1..Len(p) : p[k] \in Nat
    BY LenProperties, ElementOfSeq
<1>2. n \in Nat /\ 1 \in Int /\ n \in Int
    BY <1>1
<1>3. \A k \in 1..n : p[k] \in Nat
    BY <1>1
<1> QED
    BY <1>2, <1>3, SubSeqProperties

LEMMA WholePrefix ==
    ASSUME NEW p \in Seq(Nat)
    PROVE  SubSeq(p, 1, Len(p)) = p /\ SubSeq(p, 1, 0) = <<>> /\ Len(p) \in Nat
BY SubSeqFull, SubSeqEmpty, LenProperties

LEMMA PrefixOfPrefix ==
    ASSUME NEW p \in Seq(Nat), NEW n \in 0..Len(p), NEW m \in 0..n
    PROVE  SubSeq(SubSeq(p, 1, n), 1, m) = SubSeq(p, 1, m)
<1> DEFINE q == SubSeq(p, 1, n)
           s == SubSeq(q, 1, m)
           t == SubSeq(p, 1, m)
<1>1. Len(p) \in Nat
    BY LenProperties
<1>2. q \in Seq(Nat) /\ Len(q) = n /\ \A k \in 1..n : q[k] = p[k]
    BY PrefixIs
<1>3. m \in 0..Len(q) /\ m \in 0..Len(p)
    BY <1>1, <1>2
<1> HIDE DEF q
<1>4. s \in Seq(Nat) /\ Len(s) = m /\ \A k \in 1..m : s[k] = q[k]
    BY <1>2, <1>3, PrefixIs
<1>5. t \in Seq(Nat) /\ Len(t) = m /\ \A k \in 1..m : t[k] = p[k]
    BY <1>3, PrefixIs
<1> HIDE DEF s, t
<1>6. ASSUME NEW k \in 1..m
      PROVE  s[k] = t[k]
    <2>1. k \in 1..n
        BY <1>1
    <2>2. s[k] = q[k] /\ q[k] = p[k] /\ t[k] = p[k]
        BY <1>2, <1>4, <1>5, <2>1
    <2> QED
        BY <2>2
<1>7. s = t
    BY <1>4, <1>5, <1>6, SeqEqual
<1> QED
    BY <1>7 DEF s, t, q

LEMMA KidIs ==
    ASSUME NEW p \in Seq(Nat), NEW i \in Nat
    PROVE  /\ Kid(p, i) \in Seq(Nat) /\ Len(Kid(p, i)) = Len(p) + 1
           /\ Place(Kid(p, i)) = i
           /\ \A k \in 1..Len(p) : Kid(p, i)[k] = p[k]
BY AppendProperties DEF Kid, Place

LEMMA PrefixOfKid ==
    ASSUME NEW p \in Seq(Nat), NEW i \in Nat, NEW n \in 0..Len(p)
    PROVE  SubSeq(Kid(p, i), 1, n) = SubSeq(p, 1, n)
<1> DEFINE q == Kid(p, i)
           s == SubSeq(q, 1, n)
           t == SubSeq(p, 1, n)
<1>1. Len(p) \in Nat
    BY LenProperties
<1>2. q \in Seq(Nat) /\ Len(q) = Len(p) + 1 /\ \A k \in 1..Len(p) : q[k] = p[k]
    BY KidIs
<1>3. n \in 0..Len(q)
    BY <1>1, <1>2
<1> HIDE DEF q
<1>4. s \in Seq(Nat) /\ Len(s) = n /\ \A k \in 1..n : s[k] = q[k]
    BY <1>2, <1>3, PrefixIs
<1>5. t \in Seq(Nat) /\ Len(t) = n /\ \A k \in 1..n : t[k] = p[k]
    BY PrefixIs
<1> HIDE DEF s, t
<1>6. ASSUME NEW k \in 1..n
      PROVE  s[k] = t[k]
    <2>1. k \in 1..Len(p)
        BY <1>1
    <2>2. s[k] = q[k] /\ q[k] = p[k] /\ t[k] = p[k]
        BY <1>2, <1>4, <1>5, <2>1
    <2> QED
        BY <2>2
<1>7. s = t
    BY <1>4, <1>5, <1>6, SeqEqual
<1> QED
    BY <1>7 DEF s, t, q

LEMMA KidsParent ==
    ASSUME NEW p \in Seq(Nat), NEW i \in Nat
    PROVE  SubSeq(Kid(p, i), 1, Len(p)) = p /\ SubSeq(Kid(p, i), 1, Len(p) + 1) = Kid(p, i)
<1>1. Len(p) \in 0..Len(p)
    BY LenProperties
<1>2. SubSeq(Kid(p, i), 1, Len(p)) = p
    BY <1>1, PrefixOfKid, WholePrefix
<1>3. SubSeq(Kid(p, i), 1, Len(p) + 1) = Kid(p, i)
    BY KidIs, WholePrefix
<1> QED
    BY <1>2, <1>3

\* A path one longer than p that begins with p is a kid's.
LEMMA LongerIsKid ==
    ASSUME NEW p \in Seq(Nat), NEW q \in Seq(Nat), Len(q) = Len(p) + 1, SubSeq(q, 1, Len(p)) = p
    PROVE  q = Kid(p, Place(q)) /\ Place(q) \in Nat
<1>1. Len(p) \in Nat
    BY LenProperties
<1>2. Len(q) \in 1..Len(q) /\ Len(p) \in 0..Len(q)
    BY <1>1
<1>3. Place(q) \in Nat
    BY <1>2, ElementOfSeq DEF Place
<1>4. \A k \in 1..Len(p) : p[k] = q[k]
    BY <1>2, PrefixIs
<1> DEFINE i == Place(q)
           s == Kid(p, i)
<1>5. i \in Nat /\ q[Len(p) + 1] = i
    BY <1>3 DEF Place
<1> HIDE DEF i
<1>6. /\ s \in Seq(Nat) /\ Len(s) = Len(p) + 1 /\ s[Len(p) + 1] = i
      /\ \A k \in 1..Len(p) : s[k] = p[k]
    BY <1>5, AppendProperties DEF Kid
<1> HIDE DEF s
<1>7. ASSUME NEW k \in 1..Len(q)
      PROVE  q[k] = s[k]
    <2>1. k \in 1..Len(p) \/ k = Len(p) + 1
        BY <1>1
    <2>2. CASE k \in 1..Len(p)
        <3>1. s[k] = p[k] /\ p[k] = q[k]
            BY <1>4, <1>6, <2>2
        <3> QED
            BY <3>1
    <2>3. CASE k = Len(p) + 1
        BY <1>5, <1>6, <2>3
    <2> QED
        BY <2>1, <2>2, <2>3
<1>8. q = s
    BY <1>6, <1>7, SeqEqual
<1> QED
    BY <1>3, <1>8 DEF s, i

LEMMA KidsAre ==
    ASSUME DOMAIN run \subseteq Seq(Nat), NEW p \in Seq(Nat)
    PROVE  /\ \A i \in Nat : Known(Kid(p, i)) => Kid(p, i) \in Kids(p)
           /\ \A q \in Kids(p) : q \in DOMAIN run /\ Place(q) \in Nat /\ q = Kid(p, Place(q))
<1>1. ASSUME NEW i \in Nat, Known(Kid(p, i))
      PROVE  Kid(p, i) \in Kids(p)
    BY <1>1, KidIs, KidsParent DEF Kids, Known
<1>2. ASSUME NEW q \in Kids(p)
      PROVE  q \in DOMAIN run /\ Place(q) \in Nat /\ q = Kid(p, Place(q))
    <2>1. q \in DOMAIN run /\ Len(q) = Len(p) + 1 /\ SubSeq(q, 1, Len(p)) = p
        BY DEF Kids
    <2>2. q \in Seq(Nat)
        BY <2>1
    <2> QED
        BY <2>1, <2>2, LongerIsKid
<1> QED
    BY <1>1, <1>2

LEMMA CountsAre ==
    ASSUME IsFiniteSet(DOMAIN run), NEW p
    PROVE  Count(p) \in Nat /\ (Count(p) = 0 <=> Kids(p) = {})
<1>1. Kids(p) \in SUBSET DOMAIN run
    BY DEF Kids
<1>2. IsFiniteSet(Kids(p))
    BY <1>1, FS_Subset
<1> QED
    BY <1>2, FS_CardinalityType, FS_EmptySet DEF Count

\* A set of naturals has a least one.
LEMMA LeastIs ==
    ASSUME NEW T, T \subseteq Nat, T # {}
    PROVE  \E i \in T : \A j \in T : i <= j
<1> DEFINE R == OpToRel(<, Nat)
<1>1. IsWellFoundedOn(R, Nat)
    BY NatLessThanWellFounded
<1>2. \A i, j \in Nat : i < j => <<i, j>> \in R
    BY DEF OpToRel
<1> HIDE DEF R
<1>3. PICK i \in T : \A j \in T : ~(<<j, i>> \in R)
    BY <1>1, WFMin
<1>4. ASSUME NEW j \in T
      PROVE  i <= j
    <2>1. i \in Nat /\ j \in Nat
        OBVIOUS
    <2>2. ~(j < i)
        BY <1>2, <1>3, <2>1
    <2> QED
        BY <2>1, <2>2
<1> QED
    BY <1>4

-----------------------------------------------------------------------------
(* What a step keeps.                                                       *)

\* What shelters the part of p in place i from the log.
Shelters(p, i) ==
    \/ Op(p) = "try" /\ HasCatch(p) /\ i = 1
    \/ InTry(p) /\ Op(p) # "callApi"

LEMMA KidInTry == \A p \in Seq(Nat) : \A i \in Nat : InTry(Kid(p, i)) <=> Shelters(p, i)
<1> SUFFICES ASSUME NEW p \in Seq(Nat), NEW i \in Nat
             PROVE  InTry(Kid(p, i)) <=> Shelters(p, i)
    OBVIOUS
<1> DEFINE q == Kid(p, i)
           z == Len(p)
           Above(n) == SubSeq(p, 1, n)
           Tries(t) == Op(t) = "try" /\ HasCatch(t)
           Free(n) == \A m \in n..z - 1 : Op(Above(m)) # "callApi"
<1>1. z \in Nat /\ Len(q) - 1 = z
    BY LenProperties, KidIs
<1>2. \A n \in 0..z : SubSeq(q, 1, n) = Above(n)
    BY PrefixOfKid
<1>3. Above(z) = p
    BY WholePrefix
<1>4. \A n \in 0..z - 1 : q[n + 1] = p[n + 1]
    <2> TAKE n \in 0..z - 1
    <2>1. n + 1 \in 1..z
        BY <1>1
    <2> QED
        BY <2>1, KidIs
<1>5. q[z + 1] = i
    BY KidIs, <1>1 DEF Place
<1> DEFINE TriesAt(n) == Tries(Above(n)) /\ q[n + 1] = 1 /\ \A m \in n..z : Op(Above(m)) # "callApi"
<1>6. InTry(q) <=> \E n \in 0..z : TriesAt(n)
    <2>1. InTry(q) <=> \E n \in 0..z : /\ Tries(SubSeq(q, 1, n)) /\ q[n + 1] = 1
                                       /\ \A m \in n..z : Op(SubSeq(q, 1, m)) # "callApi"
        <3> HIDE DEF q
        <3> QED
            BY <1>1 DEF InTry
    <2> HIDE DEF q, z, Above, Tries
    <2>2. ASSUME NEW n \in 0..z
          PROVE  /\ SubSeq(q, 1, n) = Above(n)
                 /\ \A m \in n..z : SubSeq(q, 1, m) = Above(m)
        BY <1>1, <1>2
    <2> QED
        BY <2>1, <2>2
<1>7. InTry(p) <=> \E n \in 0..z - 1 : Tries(Above(n)) /\ p[n + 1] = 1 /\ Free(n)
    BY DEF InTry
<1> HIDE DEF q, z, Above, Tries
<1>8. ASSUME NEW n \in 0..z
      PROVE  TriesAt(n) <=> Tries(Above(n)) /\ q[n + 1] = 1 /\ Free(n) /\ Op(p) # "callApi"
    <2>1. \A m : m \in n..z <=> m \in n..z - 1 \/ m = z
        BY <1>1
    <2> QED
        BY <1>3, <2>1
<1> HIDE DEF TriesAt, Free
<1>9. (\E n \in 0..z : Tries(Above(n)) /\ q[n + 1] = 1 /\ Free(n))
        <=> (Tries(p) /\ i = 1 /\ Free(z)) \/ (\E n \in 0..z - 1 : Tries(Above(n)) /\ p[n + 1] = 1 /\ Free(n))
    BY <1>1, <1>3, <1>4, <1>5
<1>10. Free(z)
    BY <1>1 DEF Free
<1>11. Tries(p) => Op(p) # "callApi"
    BY DEF Tries
<1>12. InTry(q) <=> (Tries(p) /\ i = 1) \/ (InTry(p) /\ Op(p) # "callApi")
    BY <1>6, <1>7, <1>8, <1>9, <1>10, <1>11
<1> QED
    BY <1>12 DEF Shelters, Tries, q

\* No activation is lost, starts anew or answers twice.
Grows == \A q \in DOMAIN run :
    /\ q \in DOMAIN run'
    /\ run'[q].routine = run[q].routine /\ run'[q].ctx = run[q].ctx
    /\ Settled(q) => run'[q].result = run[q].result

LEMMA KeepsTries ==
    ASSUME DOMAIN run \subseteq Seq(Nat), PathsInv, Grows, NEW p \in DOMAIN run
    PROVE  InTry(p)' <=> InTry(p)
<1>1. \A t \in DOMAIN run : Op(t)' = Op(t) /\ (HasCatch(t)' <=> HasCatch(t))
    BY DEF Grows, Op, HasCatch
<1>2. \A n \in 0..Len(p) : SubSeq(p, 1, n) \in DOMAIN run
    BY DEF PathsInv, Known
<1>3. Len(p) \in Nat
    BY LenProperties
<1> DEFINE Above(n) == SubSeq(p, 1, n)
           Tries(n) == Op(Above(n)) = "try" /\ HasCatch(Above(n)) /\ p[n + 1] = 1
           Free(n) == \A m \in n..Len(p) - 1 : Op(Above(m)) # "callApi"
<1>4. InTry(p) <=> \E n \in 0..Len(p) - 1 : Tries(n) /\ Free(n)
    BY DEF InTry
<1>5. InTry(p)' <=> \E n \in 0..Len(p) - 1 : Tries(n)' /\ Free(n)'
    BY DEF InTry
<1>6. ASSUME NEW n \in 0..Len(p) - 1
      PROVE  (Tries(n)' <=> Tries(n)) /\ (Free(n)' <=> Free(n))
    <2>1. Above(n) \in DOMAIN run /\ \A m \in n..Len(p) - 1 : Above(m) \in DOMAIN run
        BY <1>2, <1>3
    <2> HIDE DEF Above
    <2> QED
        BY <1>1, <2>1 DEF Above
<1> HIDE DEF Tries, Free
<1> QED
    BY <1>4, <1>5, <1>6

LEMMA KeepsParts ==
    ASSUME Grows, NEW p \in DOMAIN run, NEW i \in Nat, MayRun(p, i)
    PROVE  MayRun(p, i)'
<1>1. Op(p)' = Op(p) /\ run'[p].routine = run[p].routine
    BY DEF Grows, Op
<1>2. ASSUME NEW n, Done(p, n)
      PROVE  Done(p, n)' /\ Result(p, n)' = Result(p, n)
    BY <1>2 DEF Grows, Done, Known, Settled, Result
<1>3. Catches(p) => Catches(p)'
    BY <1>1, <1>2 DEF Catches, HasCatch
<1>4. BodyDone(p) => BodyDone(p)'
    BY <1>1, <1>2 DEF BodyDone, Catches, HasCatch
<1>5. HasFinally(p) => HasFinally(p)'
    BY <1>1 DEF HasFinally
<1> QED
    BY <1>1, <1>3, <1>4, <1>5 DEF MayRun

TreeInv == RunInv /\ PathsInv /\ ShapeInv /\ OrderInv /\ CaughtInv

EndsAs(p, r) == run' = [run EXCEPT ![p].result = r]

LEMMA AfterEnd ==
    ASSUME RunInv, NEW p \in DOMAIN run, ~Settled(p), NEW r, EndsAs(p, r)
    PROVE  /\ DOMAIN run' = DOMAIN run /\ run'[p] = [run[p] EXCEPT !.result = r]
           /\ run'[p].result = r /\ Grows
           /\ \A q \in DOMAIN run : q # p => run'[q] = run[q]
<1>1. run[p] \in Activations
    BY DEF RunInv
<1>2. DOMAIN run' = DOMAIN run /\ \A q \in DOMAIN run : q # p => run'[q] = run[q]
    BY DEF EndsAs
<1>3. run'[p] = [run[p] EXCEPT !.result = r]
    BY DEF EndsAs
<1>4. run'[p].result = r /\ run'[p].routine = run[p].routine /\ run'[p].ctx = run[p].ctx
    BY <1>1, <1>3 DEF Activations
<1>5. Grows
    BY <1>2, <1>4 DEF Grows
<1> QED
    BY <1>2, <1>3, <1>4, <1>5

\* p ends when its parts have.
LEMMA EndKeepsTree ==
    ASSUME TreeInv, NEW p \in DOMAIN run, ~Settled(p), AllSettled(p),
           NEW r \in Results, r.of \in DOMAIN run, EndsAs(p, r)
    PROVE  TreeInv'
<1>1. RunInv /\ PathsInv /\ ShapeInv /\ OrderInv /\ CaughtInv
    BY DEF TreeInv
<1>2. /\ DOMAIN run' = DOMAIN run /\ run'[p] = [run[p] EXCEPT !.result = r]
      /\ run'[p].result = r /\ Grows
      /\ \A q \in DOMAIN run : q # p => run'[q] = run[q]
    BY <1>1, AfterEnd
<1>3. DOMAIN run \subseteq Seq(Nat) /\ run \in [DOMAIN run -> Activations]
    BY <1>1 DEF RunInv
<1>4. RunInv'
    <2>1. (run \in [DOMAIN run -> Activations])'
        <3>1. run'[p] \in Activations
            BY <1>2, <1>3 DEF Activations
        <3>2. \A q \in DOMAIN run : run'[q] \in Activations
            BY <1>2, <1>3, <3>1
        <3>3. run' = [q \in DOMAIN run |-> run'[q]]
            BY <1>3 DEF EndsAs
        <3> QED
            BY <1>2, <3>2, <3>3
    <2>2. \A q \in DOMAIN run : run'[q].ctx.steps \in DOMAIN run /\ run'[q].result.of \in DOMAIN run
        BY <1>1, <1>2 DEF RunInv, Grows
    <2> QED
        BY <1>1, <1>2, <2>1, <2>2 DEF RunInv
<1>5. PathsInv'
    <2> SUFFICES ASSUME NEW d \in DOMAIN run, NEW n \in 0..Len(d)
                 PROVE  /\ SubSeq(d, 1, n) \in DOMAIN run
                        /\ Settled(SubSeq(d, 1, n))' => Settled(d)'
        BY <1>2 DEF PathsInv, Known
    <2> DEFINE a == SubSeq(d, 1, n)
    <2>1. d \in Seq(Nat) /\ p \in Seq(Nat) /\ Len(d) \in Nat
        BY <1>3, LenProperties
    <2>2. a \in DOMAIN run /\ (Settled(a) => Settled(d)) /\ Len(a) = n
        BY <1>1, <2>1, PrefixIs DEF PathsInv, Known
    <2>3. Settled(d) => Settled(d)'
        BY <1>2 DEF Grows, Settled
    <2>4. CASE a # p
        <3> HIDE DEF a
        <3>1. Settled(a)' => Settled(a)
            BY <1>2, <2>2, <2>4 DEF Settled
        <3> QED
            BY <2>2, <2>3, <3>1 DEF a
    <2>5. CASE a = p /\ n = Len(d)
        <3>1. a = d
            BY <2>1, <2>5, WholePrefix
        <3> QED
            BY <2>2, <3>1
    <2>6. CASE a = p /\ n # Len(d)
        <3> DEFINE q == SubSeq(d, 1, n + 1)
        <3>1. n + 1 \in 0..Len(d) /\ n \in 0..(n + 1)
            BY <2>1, <2>6
        <3>2. q \in DOMAIN run /\ (Settled(q) => Settled(d))
            BY <1>1, <3>1 DEF PathsInv, Known
        <3>3. Len(q) = n + 1 /\ SubSeq(q, 1, n) = p
            BY <2>1, <2>6, <3>1, PrefixIs, PrefixOfPrefix
        <3> HIDE DEF q
        <3>4. q \in Kids(p)
            BY <2>2, <2>6, <3>2, <3>3 DEF Kids
        <3> QED
            BY <2>2, <2>3, <3>2, <3>4 DEF AllSettled
    <2> QED
        BY <2>4, <2>5, <2>6
<1>6. ShapeInv'
    <2> SUFFICES ASSUME NEW q \in DOMAIN run, NEW i \in Nat, Known(Kid(q, i))'
                 PROVE  MayRun(q, i)'
        BY <1>2 DEF ShapeInv
    <2>1. Known(Kid(q, i))
        BY <1>2 DEF Known
    <2> QED
        BY <1>1, <1>2, <2>1, KeepsParts DEF ShapeInv
<1>7. OrderInv'
    <2>1. \A q : Kids(q)' = Kids(q) /\ Count(q)' = Count(q)
        BY <1>2 DEF Kids, Count
    <2>2. \A q \in DOMAIN run : Op(q)' = Op(q)
        BY <1>2 DEF Grows, Op
    <2> QED
        BY <1>1, <1>2, <2>1, <2>2 DEF OrderInv, Known
<1>8. CaughtInv'
    BY <1>1, <1>2, <1>3, KeepsTries DEF CaughtInv, Grows
<1> QED
    BY <1>4, <1>5, <1>6, <1>7, <1>8 DEF TreeInv

\* What p starts in place i.
PartOK(p, i, a) ==
    /\ a \in Activations /\ a.result = Pending /\ a.ctx.steps \in DOMAIN run
    /\ a.ctx.caught <=> Shelters(p, i)
    /\ MayRun(p, i)

LEMMA FinitePlaces ==
    ASSUME NEW p, NEW D, IsFiniteSet(D)
    PROVE  IsFiniteSet({Kid(p, i) : i \in D})
<1> DEFINE T == {Kid(p, i) : i \in D}
           f == [i \in D |-> Kid(p, i)]
<1>1. f \in Surjection(D, T)
    BY DEF Surjection
<1> HIDE DEF f, T
<1>2. IsFiniteSet(T)
    BY <1>1, FS_Surjection
<1> QED
    BY <1>2 DEF T

\* Only p gets kids.
LEMMA KidsAfterStart ==
    ASSUME RunInv, PathsInv, NEW p \in DOMAIN run, NEW D, D \subseteq Nat,
           DOMAIN run' = DOMAIN run \cup {Kid(p, i) : i \in D}, NEW q \in DOMAIN run'
    PROVE  Kids(q)' = IF q = p THEN Kids(p) \cup {Kid(p, i) : i \in D}
                      ELSE IF q \in DOMAIN run THEN Kids(q) ELSE {}
<1> DEFINE new == {Kid(p, i) : i \in D}
<1>1. DOMAIN run \subseteq Seq(Nat) /\ p \in Seq(Nat)
    BY DEF RunInv
<1>2. \A k \in new : k \in Seq(Nat) /\ Len(k) = Len(p) + 1 /\ SubSeq(k, 1, Len(p)) = p
    <2> TAKE k \in new
    <2>1. PICK i \in D : k = Kid(p, i)
        OBVIOUS
    <2>2. i \in Nat
        OBVIOUS
    <2> QED
        BY <1>1, <2>1, <2>2, KidIs, KidsParent
<1>3. DOMAIN run' = DOMAIN run \cup new
    OBVIOUS
<1> HIDE DEF new
<1>4. Kids(q)' = Kids(q) \cup {k \in new : Len(k) = Len(q) + 1 /\ SubSeq(k, 1, Len(q)) = q}
    BY <1>3 DEF Kids
<1>5. q \in Seq(Nat) /\ Len(q) \in Nat /\ Len(p) \in Nat
    BY <1>1, <1>2, <1>3, LenProperties
<1>6. CASE q = p
    BY <1>2, <1>4, <1>6 DEF new
<1>7. CASE q # p
    <2>1. {k \in new : Len(k) = Len(q) + 1 /\ SubSeq(k, 1, Len(q)) = q} = {}
        BY <1>2, <1>5, <1>7
    <2>2. ASSUME q \notin DOMAIN run, NEW k \in Kids(q)
          PROVE  FALSE
        <3>1. k \in DOMAIN run /\ Len(k) = Len(q) + 1 /\ SubSeq(k, 1, Len(q)) = q
            BY DEF Kids
        <3>2. Len(q) \in 0..Len(k)
            BY <1>5, <3>1
        <3>3. SubSeq(k, 1, Len(q)) \in DOMAIN run
            BY <3>1, <3>2 DEF PathsInv, Known
        <3> QED
            BY <2>2, <3>1, <3>3
    <2> QED
        BY <1>4, <1>7, <2>1, <2>2
<1> QED
    BY <1>6, <1>7 DEF new

LEMMA StartKeepsTree ==
    ASSUME TreeInv, NEW p \in DOMAIN run, ~Settled(p),
           NEW parts, DOMAIN parts \subseteq Nat, IsFiniteSet(DOMAIN parts),
           \A i \in DOMAIN parts : PartOK(p, i, parts[i]),
           Op(p) \in Ordered => DOMAIN parts = {Count(p) + 1}, Starts(p, parts)
    PROVE  TreeInv' /\ DOMAIN run \subseteq DOMAIN run' /\ (\A q \in DOMAIN run : run'[q] = run[q])
<1>1. RunInv /\ PathsInv /\ ShapeInv /\ OrderInv /\ CaughtInv
    BY DEF TreeInv
<1> DEFINE D == DOMAIN parts
           new == {Kid(p, i) : i \in D}
<1>2. DOMAIN run \subseteq Seq(Nat) /\ run \in [DOMAIN run -> Activations] /\ p \in Seq(Nat)
    BY <1>1 DEF RunInv
<1>3. run' = [q \in DOMAIN run \cup new |-> IF q \in DOMAIN run THEN run[q] ELSE parts[Place(q)]]
    BY DEF Starts, Known
<1> HIDE DEF new
<1>4. DOMAIN run' = DOMAIN run \cup new /\ \A q \in DOMAIN run : run'[q] = run[q]
    BY <1>3
<1>5. Grows
    BY <1>4 DEF Grows
<1>6. ASSUME NEW q \in DOMAIN run', q \notin DOMAIN run
      PROVE  \E i \in D : q = Kid(p, i) /\ i \in Nat /\ run'[q] = parts[i] /\ PartOK(p, i, parts[i])
    <2>1. PICK i \in D : q = Kid(p, i)
        BY <1>4, <1>6 DEF new
    <2>2. i \in Nat /\ Place(q) = i
        BY <1>2, <2>1, KidIs
    <2> QED
        BY <1>3, <1>4, <1>6, <2>1, <2>2
<1>7. RunInv'
    <2>1. new \subseteq Seq(Nat)
        BY <1>2, KidIs DEF new
    <2>2. IsFiniteSet(new)
        BY FinitePlaces DEF new
    <2>3. IsFiniteSet(DOMAIN run')
        <3>1. IsFiniteSet(DOMAIN run)
            BY <1>1 DEF RunInv
        <3>2. IsFiniteSet(DOMAIN run \cup new)
            BY <2>2, <3>1, FS_Union
        <3> QED
            BY <1>4, <3>2
    <2>4. \A q \in DOMAIN run' : /\ run'[q] \in Activations
                                 /\ run'[q].ctx.steps \in DOMAIN run' /\ run'[q].result.of \in DOMAIN run'
        <3> TAKE q \in DOMAIN run'
        <3>1. CASE q \in DOMAIN run
            BY <1>1, <1>4, <3>1 DEF RunInv
        <3>2. CASE q \notin DOMAIN run
            <4>1. PICK i \in D : run'[q] = parts[i] /\ PartOK(p, i, parts[i])
                BY <1>6, <3>2
            <4>2. Root \in DOMAIN run'
                BY <1>1, <1>4 DEF RunInv
            <4> QED
                BY <1>4, <4>1, <4>2 DEF PartOK, Pending, Root
        <3> QED
            BY <3>1, <3>2
    <2>5. run' = [q \in DOMAIN run' |-> run'[q]]
        BY <1>3
    <2>6. (run \in [DOMAIN run -> Activations])'
        BY <2>4, <2>5
    <2> QED
        BY <1>1, <1>2, <1>4, <2>1, <2>3, <2>4, <2>6 DEF RunInv
<1>8. PathsInv'
    <2> SUFFICES ASSUME NEW d \in DOMAIN run', NEW n \in 0..Len(d)
                 PROVE  /\ SubSeq(d, 1, n) \in DOMAIN run'
                        /\ Settled(SubSeq(d, 1, n))' => Settled(d)'
        BY DEF PathsInv, Known
    <2>1. CASE d \in DOMAIN run
        <3>1. SubSeq(d, 1, n) \in DOMAIN run /\ (Settled(SubSeq(d, 1, n)) => Settled(d))
            BY <1>1, <2>1 DEF PathsInv, Known
        <3> DEFINE a == SubSeq(d, 1, n)
        <3>2. a \in DOMAIN run /\ (Settled(a) => Settled(d))
            BY <3>1
        <3> HIDE DEF a
        <3>3. a \in DOMAIN run' /\ (Settled(a)' => Settled(d)')
            BY <1>4, <2>1, <3>2 DEF Settled
        <3> QED
            BY <3>3 DEF a
    <2>2. CASE d \notin DOMAIN run
        <3>1. PICK i \in D : d = Kid(p, i) /\ i \in Nat
            BY <1>6, <2>2
        <3>2. Len(d) = Len(p) + 1 /\ Len(p) \in Nat /\ d \in Seq(Nat)
            BY <1>2, <3>1, KidIs, LenProperties
        <3>3. CASE n = Len(d)
            BY <3>2, <3>3, WholePrefix
        <3>4. CASE n # Len(d)
            <4>1. n \in 0..Len(p)
                BY <3>2, <3>4
            <4> DEFINE a == SubSeq(p, 1, n)
            <4>2. SubSeq(d, 1, n) = a
                BY <1>2, <3>1, <4>1, PrefixOfKid
            <4>3. a \in DOMAIN run /\ ~Settled(a)
                BY <1>1, <4>1 DEF PathsInv, Known
            <4> HIDE DEF a
            <4>4. a \in DOMAIN run' /\ ~Settled(a)'
                BY <1>4, <4>3 DEF Settled
            <4> QED
                BY <4>2, <4>4
        <3> QED
            BY <3>3, <3>4
    <2> QED
        BY <2>1, <2>2
<1>9. ShapeInv'
    <2> SUFFICES ASSUME NEW q \in DOMAIN run', NEW i \in Nat, Kid(q, i) \in DOMAIN run'
                 PROVE  MayRun(q, i)'
        BY DEF ShapeInv, Known
    <2>1. q \in Seq(Nat)
        BY <1>7 DEF RunInv
    <2>2. CASE Kid(q, i) \in DOMAIN run
        <3> DEFINE k == Kid(q, i)
        <3>1. Len(k) = Len(q) + 1 /\ SubSeq(k, 1, Len(q)) = q /\ Len(q) \in Nat /\ k \in DOMAIN run
            BY <2>1, <2>2, KidIs, KidsParent, LenProperties
        <3> HIDE DEF k
        <3>2. Len(q) \in 0..Len(k)
            BY <3>1
        <3>3. SubSeq(k, 1, Len(q)) \in DOMAIN run
            BY <1>1, <3>1, <3>2 DEF PathsInv, Known
        <3>4. q \in DOMAIN run
            BY <3>1, <3>3
        <3> QED
            BY <1>1, <1>5, <2>2, <3>4, KeepsParts DEF ShapeInv, Known
    <2>3. CASE Kid(q, i) \notin DOMAIN run
        <3>1. PICK j \in D : Kid(q, i) = Kid(p, j) /\ j \in Nat /\ PartOK(p, j, parts[j])
            BY <1>6, <2>3
        <3>2. q = p /\ i = j
            BY <1>2, <2>1, <3>1, AppendInjective DEF Kid
        <3> QED
            BY <1>5, <3>1, <3>2, KeepsParts DEF PartOK
    <2> QED
        BY <2>2, <2>3
<1>10. CaughtInv'
    <2> SUFFICES ASSUME NEW q \in DOMAIN run'
                 PROVE  run'[q].ctx.caught <=> InTry(q)'
        BY DEF CaughtInv
    <2>1. CASE q \in DOMAIN run
        BY <1>1, <1>2, <1>4, <1>5, <2>1, KeepsTries DEF CaughtInv
    <2>2. CASE q \notin DOMAIN run
        <3>1. PICK i \in D : q = Kid(p, i) /\ i \in Nat /\ run'[q] = parts[i] /\ PartOK(p, i, parts[i])
            BY <1>6, <2>2
        <3>2. InTry(Kid(p, i))' <=> Shelters(p, i)'
            <4>1. KidInTry!:'
                BY KidInTry, PTL
            <4> QED
                BY <1>2, <3>1, <4>1
        <3>3. (InTry(p)' <=> InTry(p)) /\ Op(p)' = Op(p) /\ (HasCatch(p)' <=> HasCatch(p))
            BY <1>1, <1>2, <1>4, <1>5, KeepsTries DEF Op, HasCatch
        <3>4. Shelters(p, i)' <=> Shelters(p, i)
            BY <3>3 DEF Shelters
        <3> QED
            BY <3>1, <3>2, <3>4 DEF PartOK
    <2> QED
        BY <2>1, <2>2
<1>11. OrderInv'
    <2> SUFFICES ASSUME NEW q \in DOMAIN run', Op(q)' \in Ordered, NEW i \in Nat
                 PROVE  Kid(q, i) \in DOMAIN run' <=> i \in 1..Count(q)'
        BY DEF OrderInv, Known
    <2>1. q \in Seq(Nat) /\ DOMAIN run' \subseteq Seq(Nat)
        BY <1>7 DEF RunInv
    <2>2. Kids(q)' = IF q = p THEN Kids(p) \cup new ELSE IF q \in DOMAIN run THEN Kids(q) ELSE {}
        BY <1>1, <1>4, KidsAfterStart DEF new
    <2>3. Kid(q, i) \in DOMAIN run' <=> Kid(q, i) \in Kids(q)'
        BY <2>1, KidIs, KidsParent DEF Kids
    <2>4. q \in DOMAIN run => (Kid(q, i) \in DOMAIN run <=> Kid(q, i) \in Kids(q))
        BY <2>1, KidIs, KidsParent DEF Kids
    <2>5. q \in DOMAIN run => Op(q)' = Op(q)
        BY <1>5 DEF Grows, Op
    <2>6. CASE q = p
        <3>1. D = {Count(p) + 1} /\ \A j \in Nat : Known(Kid(p, j)) <=> j \in 1..Count(p)
            BY <1>1, <2>5, <2>6 DEF OrderInv
        <3> DEFINE c == Count(p)
                   k == Kid(p, c + 1)
        <3>2. c \in Nat /\ IsFiniteSet(Kids(p))
            <4>1. IsFiniteSet(DOMAIN run) /\ Kids(p) \in SUBSET DOMAIN run
                BY <1>1 DEF RunInv, Kids
            <4> QED
                BY <4>1, CountsAre, FS_Subset
        <3>3. Kids(p)' = Kids(p) \cup {k} /\ k \notin Kids(p)
            <4>1. new = {k}
                BY <3>1 DEF new
            <4>2. k \notin DOMAIN run
                BY <3>1, <3>2 DEF Known
            <4> QED
                BY <2>2, <2>6, <4>1, <4>2 DEF Kids
        <3>4. Count(p)' = c + 1
            <4>1. Cardinality(Kids(p) \cup {k}) = Cardinality(Kids(p)) + 1
                BY <3>2, <3>3, FS_AddElement
            <4> QED
                BY <3>3, <4>1 DEF Count
        <3>5. Kid(p, i) \in Kids(p)' <=> Kid(p, i) \in Kids(p) \/ i = c + 1
            <4>1. Kid(p, i) = k <=> i = c + 1
                BY <1>2, <3>2, AppendInjective DEF Kid
            <4> QED
                BY <3>3, <4>1
        <3>6. Kid(p, i) \in Kids(p) <=> i \in 1..c
            BY <2>4, <2>6, <3>1 DEF Known
        <3> HIDE DEF c, k
        <3>7. Kid(p, i) \in DOMAIN run' <=> i \in 1..c + 1
            BY <2>3, <2>6, <3>2, <3>5, <3>6
        <3> QED
            BY <2>6, <3>4, <3>7
    <2>7. CASE q # p /\ q \in DOMAIN run
        <3>1. Kids(q)' = Kids(q) /\ Count(q)' = Count(q)
            BY <2>2, <2>7 DEF Count
        <3> QED
            BY <1>1, <2>3, <2>4, <2>5, <2>7, <3>1 DEF OrderInv, Known
    <2>8. CASE q \notin DOMAIN run
        <3>1. Kids(q)' = {} /\ Count(q)' = 0
            <4>1. Kids(q)' = {}
                BY <2>2, <2>8
            <4> QED
                BY <4>1, FS_EmptySet DEF Count
        <3> QED
            BY <2>3, <3>1
    <2> QED
        BY <2>6, <2>7, <2>8
<1> QED
    BY <1>4, <1>7, <1>8, <1>9, <1>10, <1>11 DEF TreeInv

-----------------------------------------------------------------------------
(* The log.                                                                 *)

LoggedWell(l) ==
    /\ l.at \in DOMAIN run /\ l.of = l.at /\ Settled(l.at) /\ l.level \in {"debug", "warn", "error"}
    /\ l.level = "debug" <=> /\ InTry(l.at) /\ Op(l.at) \notin {"throw", "reject"}
                             /\ run[l.at].result.class \in {"request", "user"}

LogsInv ==
    /\ \A p \in DOMAIN run : run[p].result.status = "error" => Handled(run[p].result.of)
    /\ \A l, m \in log : l.of = m.of => l = m
    /\ \A l \in log : LoggedWell(l)

LEMMA LogParts == LogsInv <=> LogInv /\ LoggedOnce
    BY DEF LogsInv, LogInv, LoggedOnce, LoggedWell

LEMMA OldLogs ==
    ASSUME TreeInv, LogsInv, Grows, NEW l \in log
    PROVE  LoggedWell(l)'
<1>1. DOMAIN run \subseteq Seq(Nat) /\ PathsInv
    BY DEF TreeInv, RunInv
<1>2. LoggedWell(l)
    BY DEF LogsInv
<1> DEFINE p == l.at
<1>3. p \in DOMAIN run /\ Settled(p)
    BY <1>2 DEF LoggedWell
<1> HIDE DEF p
<1>4. p \in DOMAIN run' /\ run'[p].result = run[p].result /\ Op(p)' = Op(p)
    BY <1>3 DEF Grows, Op
<1>5. Settled(p)' /\ (InTry(p)' <=> InTry(p))
    BY <1>1, <1>3, <1>4, KeepsTries DEF Settled, Pending
<1> QED
    BY <1>2, <1>4, <1>5 DEF LoggedWell, p

\* p ends with a result whose error, if it is one, has been logged.
LEMMA EndKeepsLogs ==
    ASSUME TreeInv, LogsInv, NEW p \in DOMAIN run, ~Settled(p), NEW r, EndsAs(p, r),
           r.status = "error" => Handled(r.of), UNCHANGED log
    PROVE  LogsInv'
<1>1. /\ DOMAIN run' = DOMAIN run /\ run'[p].result = r /\ Grows
      /\ \A q \in DOMAIN run : q # p => run'[q] = run[q]
    BY AfterEnd DEF TreeInv
<1>2. \A l \in log : LoggedWell(l)'
    BY <1>1, OldLogs
<1>3. \A q \in DOMAIN run : run'[q].result.status = "error" => Handled(run'[q].result.of)
    BY <1>1 DEF LogsInv
<1>4. \A of : Handled(of)' <=> Handled(of)
    BY DEF Handled
<1> QED
    BY <1>1, <1>2, <1>3, <1>4 DEF LogsInv

\* p ends with an error or reject that is logged with it.
LEMMA LogKeepsLogs ==
    ASSUME TreeInv, LogsInv, NEW p \in DOMAIN run, ~Settled(p),
           NEW r, r # Pending, r.of = p, EndsAs(p, r),
           NEW level \in {"debug", "warn", "error"}, log' = log \cup {[of |-> p, level |-> level, at |-> p]},
           level = "debug" <=> /\ InTry(p) /\ Op(p) \notin {"throw", "reject"}
                               /\ r.class \in {"request", "user"}
    PROVE  LogsInv'
<1>1. /\ DOMAIN run' = DOMAIN run /\ run'[p].result = r /\ Grows
      /\ \A q \in DOMAIN run : q # p => run'[q] = run[q]
    BY AfterEnd DEF TreeInv
<1> DEFINE new == [of |-> p, level |-> level, at |-> p]
<1>2. new.of = p /\ new.level = level /\ new.at = p /\ log' = log \cup {new}
    OBVIOUS
<1> HIDE DEF new
<1>3. \A l \in log : LoggedWell(l)'
    BY <1>1, OldLogs
<1>4. LoggedWell(new)'
    <2>1. Op(p)' = Op(p) /\ Settled(p)'
        BY <1>1 DEF Grows, Op, Settled, Pending
    <2>2. InTry(p)' <=> InTry(p)
        BY <1>1, KeepsTries DEF TreeInv, RunInv
    <2> QED
        BY <1>1, <1>2, <2>1, <2>2 DEF LoggedWell
<1>5. \A l \in log : l.of # p
    BY DEF LogsInv, LoggedWell
<1>6. \A of : Handled(of) => Handled(of)'
    BY <1>2 DEF Handled
<1>7. Handled(p)'
    BY <1>2 DEF Handled
<1>8. (\A q \in DOMAIN run : run[q].result.status = "error" => Handled(run[q].result.of))'
    <2> SUFFICES ASSUME NEW q \in DOMAIN run, run'[q].result.status = "error"
                 PROVE  Handled(run[q].result.of)'
        BY <1>1
    <2>1. CASE q = p
        BY <1>1, <1>7, <2>1
    <2>2. CASE q # p
        <3> DEFINE of == run[q].result.of
        <3>1. run'[q].result = run[q].result /\ Handled(of)
            BY <1>1, <2>2 DEF LogsInv
        <3>2. run'[q].result.of = of
            BY <3>1
        <3> HIDE DEF of
        <3>3. Handled(of)' \/ \E l \in log' : l.of = of
            BY <1>2, <3>1 DEF Handled
        <3> QED
            BY <3>2, <1>2, <3>1 DEF Handled
    <2> QED
        BY <2>1, <2>2
<1>9. \A l, m \in log' : l.of = m.of => l = m
    BY <1>2, <1>5 DEF LogsInv
<1> QED
    BY <1>1, <1>2, <1>3, <1>4, <1>8, <1>9 DEF LogsInv

-----------------------------------------------------------------------------
(* The steps that actions are made of.                                      *)

LEMMA InvParts == IInv <=> TreeInv /\ LogsInv /\ AnswerInv
    BY LogParts DEF IInv, TreeInv

LEMMA KeepsAnswer ==
    ASSUME TreeInv, AnswerInv, Grows, UNCHANGED answer
    PROVE  AnswerInv'
<1>1. Root \in DOMAIN run
    BY DEF TreeInv, RunInv
<1>2. Settled(Root) => Settled(Root)'
    BY <1>1 DEF Grows, Settled, Pending
<1> QED
    BY <1>2 DEF AnswerInv

\* A result that p may end with.
Endable(r) == r \in Results /\ r.of \in DOMAIN run /\ (r.status = "error" => Handled(r.of))

LEMMA EndStep ==
    ASSUME IInv, NEW p \in DOMAIN run, ~Settled(p), AllSettled(p), NEW r, Endable(r), Ends(p, r)
    PROVE  IInv'
<1>1. EndsAs(p, r) /\ UNCHANGED <<log, answer>>
    BY DEF Ends, EndsAs
<1>2. TreeInv /\ LogsInv /\ AnswerInv
    BY InvParts
<1>3. TreeInv'
    BY <1>1, <1>2, EndKeepsTree DEF Endable
<1>4. LogsInv'
    BY <1>1, <1>2, EndKeepsLogs DEF Endable
<1>5. AnswerInv'
    BY <1>1, <1>2, AfterEnd, KeepsAnswer DEF TreeInv
<1> QED
    <2>1. InvParts!:'
        BY InvParts, PTL
    <2> QED
        BY <1>3, <1>4, <1>5, <2>1

LEMMA ThrowStep ==
    ASSUME IInv, NEW p \in DOMAIN run, ~Settled(p), AllSettled(p),
           NEW of \in DOMAIN run, of = p \/ Handled(of), NEW class \in Classes \cup {NoClass},
           Op(p) \in {"throw", "reject"} => class \in Faults, Throws(p, of, class)
    PROVE  IInv'
<1> DEFINE r == [status |-> "error", of |-> of, class |-> class]
<1>1. EndsAs(p, r) /\ UNCHANGED answer
    BY DEF Throws, EndsAs
<1>2. TreeInv /\ LogsInv /\ AnswerInv
    BY InvParts
<1>3. r \in Results /\ r.of = of /\ r.class = class /\ r.status = "error" /\ r # Pending
    <2>1. of \in Seq(Nat)
        BY <1>2 DEF TreeInv, RunInv
    <2>2. r \in Results
        BY <2>1 DEF Results, Statuses
    <2>3. r # Pending
        <3>1. r.status # Pending.status
            BY DEF Pending
        <3> QED
            BY <3>1
    <2> QED
        BY <2>2, <2>3
<1>4. log' = IF Handled(of) THEN log ELSE log \cup {[of |-> of, level |-> Level(p, class), at |-> p]}
    BY DEF Throws
<1> HIDE DEF r
<1>5. TreeInv'
    BY <1>1, <1>2, <1>3, EndKeepsTree
<1>6. LogsInv'
    <2>1. CASE Handled(of)
        BY <1>1, <1>2, <1>3, <1>4, <2>1, EndKeepsLogs
    <2>2. CASE ~Handled(of)
        <3>1. of = p
            BY <2>2
        <3> DEFINE level == Level(p, class)
        <3>2. level \in {"debug", "warn", "error"}
            BY DEF Level
        <3>3. run[p].ctx.caught <=> InTry(p)
            BY <1>2 DEF TreeInv, CaughtInv
        <3>4. level = "debug" <=> /\ InTry(p) /\ Op(p) \notin {"throw", "reject"}
                                  /\ class \in {"request", "user"}
            <4>1. class \in {"request", "user"} => Op(p) \notin {"throw", "reject"}
                BY DEF Faults
            <4>2. level = "debug" <=> InTry(p) /\ class \in {"request", "user"}
                BY <3>3 DEF Level
            <4> HIDE DEF level
            <4> QED
                BY <4>1, <4>2
        <3>5. log' = log \cup {[of |-> p, level |-> level, at |-> p]}
            BY <1>4, <2>2, <3>1
        <3> HIDE DEF level
        <3> QED
            BY <1>1, <1>2, <1>3, <3>1, <3>2, <3>4, <3>5, LogKeepsLogs
    <2> QED
        BY <2>1, <2>2
<1>7. AnswerInv'
    BY <1>1, <1>2, AfterEnd, KeepsAnswer DEF TreeInv
<1> QED
    <2>1. InvParts!:'
        BY InvParts, PTL
    <2> QED
        BY <1>5, <1>6, <1>7, <2>1

\* p ends in an error of its own.
LEMMA FailsInv ==
    ASSUME IInv, NEW p \in DOMAIN run, ~Settled(p), AllSettled(p), Fails(p)
    PROVE  IInv'
<1>1. PICK class \in Faults : Throws(p, p, class)
    BY DEF Fails
<1>2. class \in Classes
    BY DEF Classes
<1> QED
    BY <1>1, <1>2, ThrowStep

LEMMA LogStep ==
    ASSUME IInv, NEW p \in DOMAIN run, ~Settled(p), AllSettled(p), Op(p) \in {"throw", "reject"},
           NEW status \in {"reject", "error"}, Logs(p, status)
    PROVE  IInv'
<1> DEFINE r == [status |-> status, of |-> p, class |-> "user"]
<1>1. EndsAs(p, r) /\ UNCHANGED answer
    BY DEF Logs, EndsAs
<1>2. TreeInv /\ LogsInv /\ AnswerInv
    BY InvParts
<1>3. r \in Results /\ r.of = p /\ r # Pending
    <2>1. p \in Seq(Nat)
        BY <1>2 DEF TreeInv, RunInv
    <2>2. r \in Results
        BY <2>1 DEF Results, Statuses, Classes
    <2>3. r.status # Pending.status
        BY DEF Pending
    <2> QED
        BY <2>2, <2>3
<1>4. log' = log \cup {[of |-> p, level |-> "warn", at |-> p]}
    BY DEF Logs
<1> HIDE DEF r
<1>5. TreeInv'
    BY <1>1, <1>2, <1>3, EndKeepsTree
<1>6. LogsInv'
    BY <1>1, <1>2, <1>3, <1>4, LogKeepsLogs
<1>7. AnswerInv'
    BY <1>1, <1>2, AfterEnd, KeepsAnswer DEF TreeInv
<1> QED
    <2>1. InvParts!:'
        BY InvParts, PTL
    <2> QED
        BY <1>5, <1>6, <1>7, <2>1

LEMMA StartsStep ==
    ASSUME IInv, NEW p \in DOMAIN run, ~Settled(p),
           NEW parts, DOMAIN parts \subseteq Nat, IsFiniteSet(DOMAIN parts),
           \A i \in DOMAIN parts : PartOK(p, i, parts[i]),
           Op(p) \in Ordered => DOMAIN parts = {Count(p) + 1}, Starts(p, parts)
    PROVE  IInv'
<1>1. UNCHANGED <<log, answer>>
    BY DEF Starts
<1>2. TreeInv /\ LogsInv /\ AnswerInv
    BY InvParts
<1>3. TreeInv' /\ DOMAIN run \subseteq DOMAIN run' /\ (\A q \in DOMAIN run : run'[q] = run[q])
    BY <1>2, StartKeepsTree
<1>4. Grows
    BY <1>3 DEF Grows
<1>5. LogsInv'
    <2>1. \A l \in log : LoggedWell(l)'
        BY <1>2, <1>4, OldLogs
    <2>2. \A of : Handled(of)' <=> Handled(of)
        BY <1>1 DEF Handled
    <2>3. ASSUME NEW q \in DOMAIN run', q \notin DOMAIN run
          PROVE  run'[q].result = Pending
        <3>1. PICK i \in DOMAIN parts : q = Kid(p, i)
            BY <2>3 DEF Starts
        <3>2. Place(q) = i
            BY <1>2, <3>1, KidIs DEF TreeInv, RunInv
        <3> QED
            BY <2>3, <3>1, <3>2 DEF Starts, PartOK, Known
    <2>4. \A q \in DOMAIN run' : run'[q].result.status = "error" => Handled(run'[q].result.of)
        <3> TAKE q \in DOMAIN run'
        <3>1. CASE q \in DOMAIN run
            BY <1>2, <1>3, <3>1 DEF LogsInv
        <3>2. CASE q \notin DOMAIN run
            BY <2>3, <3>2 DEF Pending
        <3> QED
            BY <3>1, <3>2
    <2> QED
        BY <1>1, <1>2, <2>1, <2>2, <2>4 DEF LogsInv
<1>6. AnswerInv'
    BY <1>1, <1>2, <1>4, KeepsAnswer
<1> QED
    <2>1. InvParts!:'
        BY InvParts, PTL
    <2> QED
        BY <1>3, <1>5, <1>6, <2>1

-----------------------------------------------------------------------------
(* The actions.                                                             *)

LEMMA ActivationOK ==
    ASSUME NEW r \in Routines, NEW ctx \in Contexts
    PROVE  /\ Activation(r, ctx) \in Activations /\ Activation(r, ctx).result = Pending
           /\ Activation(r, ctx).ctx = ctx
<1>1. Pending \in Results
    BY EmptySeq DEF Pending, Results
<1> QED
    BY <1>1 DEF Activation, Activations

\* Where p is, and what its kids are.
LEMMA AtPath ==
    ASSUME IInv, NEW p \in DOMAIN run
    PROVE  /\ p \in Seq(Nat) /\ run[p].routine \in Routines /\ run[p].ctx \in Contexts
           /\ run[p].ctx.steps \in DOMAIN run /\ (run[p].ctx.caught <=> InTry(p))
           /\ \A q \in Kids(p) : q \in DOMAIN run /\ Place(q) \in Nat /\ q = Kid(p, Place(q))
                                  /\ MayRun(p, Place(q))
           /\ Count(p) \in Nat /\ (Count(p) = 0 <=> Kids(p) = {})
<1>1. RunInv /\ ShapeInv /\ CaughtInv
    BY DEF IInv
<1>2. DOMAIN run \subseteq Seq(Nat) /\ p \in Seq(Nat) /\ IsFiniteSet(DOMAIN run) /\ run[p] \in Activations
    BY <1>1 DEF RunInv
<1>3. run[p].routine \in Routines /\ run[p].ctx \in Contexts
    BY <1>2 DEF Activations
<1>4. \A q \in Kids(p) : q \in DOMAIN run /\ Place(q) \in Nat /\ q = Kid(p, Place(q))
    BY <1>2, KidsAre
<1>5. \A q \in Kids(p) : MayRun(p, Place(q))
    BY <1>1, <1>4 DEF ShapeInv, Known
<1>6. Count(p) \in Nat /\ (Count(p) = 0 <=> Kids(p) = {})
    BY <1>2, CountsAre
<1> QED
    BY <1>1, <1>2, <1>3, <1>4, <1>5, <1>6 DEF RunInv, CaughtInv

\* The parts of p's routine are routines.
LEMMA PartsOf ==
    ASSUME IInv, NEW p \in DOMAIN run
    PROVE  LET r == run[p].routine
           IN  /\ Op(p) \in {"call", "callApi"} => Endpoints[r.endpoint] \in Routines
               /\ Op(p) \in {"seq", "if", "parallel"} => r.of \in Seq(Routines)
               /\ Op(p) \in {"for", "while", "parallel_for"} => r.do \in Routines
               /\ Op(p) \in {"for", "parallel_for"} => r.items \in Nat
               /\ Op(p) = "try" => r.try \in Routines /\ r.catch \in Seq(Routines)
                                                     /\ r.finally \in Seq(Routines)
<1> DEFINE r == run[p].routine
<1>1. r \in Routines /\ Op(p) = r.op
    BY AtPath DEF Op
<1> HIDE DEF r
<1>2. /\ r.op \in {"call", "callApi"} => Endpoints[r.endpoint] \in Routines
      /\ r.op \in {"seq", "if", "parallel"} => r.of \in Seq(Routines)
      /\ r.op \in {"for", "while", "parallel_for"} => r.do \in Routines
      /\ r.op \in {"for", "parallel_for"} => r.items \in Nat
    BY <1>1, RoutineAssumption
<1>3. r.op = "try" => r.try \in Routines /\ {r.catch, r.finally} \subseteq Seq(Routines)
    BY <1>1, RoutineAssumption
<1> QED
    BY <1>1, <1>2, <1>3 DEF r

LEMMA AtResult ==
    ASSUME IInv, NEW q \in DOMAIN run
    PROVE  Endable(run[q].result)
BY DEF IInv, RunInv, LoggedOnce, Endable, Activations

LEMMA ContinueOK ==
    ASSUME IInv
    PROVE  Endable(Continue) /\ Endable(Pending)
<1>1. <<>> \in Seq(Nat) /\ <<>> \in DOMAIN run
    BY EmptySeq DEF IInv, RunInv, Root
<1> QED
    BY <1>1 DEF Endable, Continue, Pending, Results, Statuses

\* p starts one part, in a context.
LEMMA StartStep ==
    ASSUME IInv, NEW p \in DOMAIN run, ~Settled(p), NEW i \in Nat, NEW r \in Routines, NEW ctx \in Contexts,
           ctx.steps \in DOMAIN run, ctx.caught <=> Shelters(p, i), MayRun(p, i),
           Op(p) \in Ordered => i = Count(p) + 1, Start(p, i, r, ctx)
    PROVE  IInv'
<1> DEFINE parts == [j \in {i} |-> Activation(r, ctx)]
<1>1. DOMAIN parts = {i} /\ parts[i] = Activation(r, ctx)
    OBVIOUS
<1>2. Starts(p, parts)
    BY DEF Start
<1> HIDE DEF parts
<1>3. PartOK(p, i, parts[i])
    BY <1>1, ActivationOK DEF PartOK
<1>4. IsFiniteSet({i})
    BY FS_Singleton
<1> QED
    BY <1>1, <1>2, <1>3, <1>4, StartsStep

LEMMA NoParts ==
    ASSUME IInv, NEW p \in DOMAIN run, Kids(p) = {} \/ Op(p) \in {"step", "return", "reject", "throw"}
    PROVE  AllSettled(p)
BY AtPath DEF AllSettled, MayRun

LEMMA StepEndsInv ==
    ASSUME IInv, NEW p \in DOMAIN run, StepEnds(p)
    PROVE  IInv'
<1>1. ~Settled(p) /\ Op(p) = "step" /\ AllSettled(p)
    BY NoParts DEF StepEnds, Active
<1>2. CASE Ends(p, Continue)
    BY <1>1, <1>2, ContinueOK, EndStep
<1>3. ASSUME NEW class \in Classes, Throws(p, p, class)
      PROVE  IInv'
    BY <1>1, <1>3, ThrowStep
<1> QED
    BY <1>1, <1>2, <1>3 DEF StepEnds

LEMMA InvokesInv ==
    ASSUME IInv, NEW p \in DOMAIN run, ~Settled(p), Op(p) \in {"call", "callApi"}, NEW caught \in BOOLEAN,
           caught <=> Shelters(p, 1), Invokes(p, caught)
    PROVE  IInv'
<1>1. AllSettled(p)
    BY AtPath, NoParts DEF Invokes
<1>2. "refusal" \in Classes
    BY DEF Classes
<1>3. CASE Fails(p) \/ Throws(p, p, "refusal")
    BY <1>1, <1>2, <1>3, FailsInv, ThrowStep
<1>4. CASE run[p].ctx.depth < MaxDepth /\ Start(p, 1, Endpoints[run[p].routine.endpoint], Called(p, caught))
    <2>1. run[p].ctx.depth + 1 \in 0..MaxDepth
        <3>1. run[p].ctx \in Contexts
            BY AtPath
        <3>2. run[p].ctx.depth \in 0..MaxDepth
            BY <3>1 DEF Contexts
        <3> QED
            BY <1>4, <3>2, RoutineAssumption
    <2>2. p \in Seq(Nat) /\ <<>> \in Seq(Nat)
        BY AtPath, EmptySeq
    <2>3. Called(p, caught) \in Contexts /\ Called(p, caught).steps = p /\ Called(p, caught).caught = caught
        BY <2>1, <2>2 DEF Called, Contexts
    <2>4. Endpoints[run[p].routine.endpoint] \in Routines
        BY PartsOf
    <2>5. MayRun(p, 1)
        BY DEF MayRun
    <2> QED
        BY <1>4, <2>3, <2>4, <2>5, StartStep DEF Ordered
<1> QED
    BY <1>3, <1>4 DEF Invokes

\* The kid of a call that has answered is its only part.
LEMMA CallDone ==
    ASSUME IInv, NEW p \in DOMAIN run, Op(p) \in {"call", "callApi"}, Done(p, 1)
    PROVE  AllSettled(p) /\ Kid(p, 1) \in DOMAIN run
BY AtPath DEF AllSettled, MayRun, Done, Known

LEMMA CallsEndpointInv ==
    ASSUME IInv, NEW p \in DOMAIN run, CallsEndpoint(p)
    PROVE  IInv'
<1>1. ~Settled(p) /\ Op(p) = "call"
    BY DEF CallsEndpoint, Active
<1>2. CASE Invokes(p, run[p].ctx.caught)
    <2>1. run[p].ctx.caught \in BOOLEAN /\ (run[p].ctx.caught <=> Shelters(p, 1))
        BY <1>1, AtPath DEF Contexts, Shelters
    <2> QED
        BY <1>1, <1>2, <2>1, InvokesInv
<1>3. CASE Done(p, 1) /\ Ends(p, Result(p, 1))
    BY <1>1, <1>3, CallDone, AtResult, EndStep DEF Result
<1>4. CASE Done(p, 1) /\ Ends(p, Continue)
    BY <1>1, <1>4, CallDone, ContinueOK, EndStep
<1> QED
    BY <1>2, <1>3, <1>4 DEF CallsEndpoint

LEMMA CallsApiInv ==
    ASSUME IInv, NEW p \in DOMAIN run, CallsApi(p)
    PROVE  IInv'
<1>1. ~Settled(p) /\ Op(p) = "callApi"
    BY DEF CallsApi, Active
<1>2. CASE Invokes(p, FALSE)
    BY <1>1, <1>2, InvokesInv DEF Shelters
<1> DEFINE r == Result(p, 1)
<1>3. ASSUME Done(p, 1)
      PROVE  AllSettled(p) /\ Endable(r)
    BY <1>1, <1>3, CallDone, AtResult DEF Result
<1>4. ASSUME Count(p) = 0, NEW class \in {"request", "user"}, Throws(p, p, class)
      PROVE  IInv'
    <2>1. class \in Classes /\ AllSettled(p)
        BY <1>4, AtPath, NoParts DEF Classes
    <2> QED
        BY <1>1, <1>4, <2>1, ThrowStep
<1>5. CASE Done(p, 1) /\ Throws(p, p, "request")
    <2>1. "request" \in Classes
        BY DEF Classes
    <2> QED
        BY <1>1, <1>3, <1>5, <2>1, ThrowStep
<1>6. CASE Done(p, 1) /\ r.status = "error" /\ Throws(p, r.of, r.class)
    <2>1. Endable(r) /\ AllSettled(p)
        BY <1>3, <1>6
    <2> HIDE DEF r
    <2>2. Handled(r.of) /\ r.of \in DOMAIN run /\ r.class \in Classes \cup {NoClass}
        BY <1>6, <2>1 DEF Endable, Results
    <2> QED
        BY <1>1, <1>6, <2>1, <2>2, ThrowStep
<1>7. CASE Done(p, 1) /\ Ends(p, r)
    BY <1>1, <1>3, <1>7, EndStep
<1>8. CASE Done(p, 1) /\ Ends(p, Continue)
    BY <1>1, <1>3, <1>8, ContinueOK, EndStep
<1> QED
    BY <1>2, <1>6, <1>7, <1>8, <1>4, <1>5 DEF CallsApi

LEMMA ReturnsInv ==
    ASSUME IInv, NEW p \in DOMAIN run, Returns(p)
    PROVE  IInv'
<1> DEFINE r == [status |-> "return", of |-> p, class |-> NoClass]
<1>1. ~Settled(p) /\ AllSettled(p) /\ (Ends(p, r) \/ Fails(p))
    BY NoParts DEF Returns, Active
<1>2. p \in Seq(Nat)
    BY AtPath
<1>3. Endable(r)
    BY <1>2 DEF Endable, Results, Statuses
<1> QED
    BY <1>1, <1>3, EndStep, FailsInv

LEMMA LogsAreInv ==
    ASSUME IInv, NEW p \in DOMAIN run, Rejects(p) \/ ThrowsNew(p)
    PROVE  IInv'
BY NoParts, LogStep, FailsInv DEF Rejects, ThrowsNew, Active

\* A part that shares p's context is as sheltered as p.
LEMMA SharesContext ==
    ASSUME IInv, NEW p \in DOMAIN run, NEW i \in Nat, Op(p) # "callApi", Op(p) = "try" => i # 1 \/ ~HasCatch(p),
           NEW ctx, ctx.caught = run[p].ctx.caught
    PROVE  ctx.caught <=> Shelters(p, i)
BY AtPath DEF Shelters

LEMMA ItemContextOK ==
    ASSUME IInv, NEW p \in DOMAIN run, NEW i \in Nat
    PROVE  /\ ItemContext(p, i) \in Contexts
           /\ ItemContext(p, i).steps = run[p].ctx.steps /\ ItemContext(p, i).caught = run[p].ctx.caught
<1>1. run[p].ctx \in Contexts
    BY AtPath
<1>2. Append(run[p].ctx.indices, i) \in Seq(Nat)
    BY <1>1, AppendProperties DEF Contexts
<1> QED
    BY <1>1, <1>2 DEF ItemContext, Contexts

LEMMA OneByOneInv ==
    ASSUME IInv, NEW p \in DOMAIN run, ~Settled(p), Op(p) \in Ordered, NEW more \in BOOLEAN, NEW r, NEW ctx,
           more => /\ r \in Routines /\ ctx \in Contexts
                   /\ ctx.steps = run[p].ctx.steps /\ ctx.caught = run[p].ctx.caught,
           OneByOne(p, more, r, ctx)
    PROVE  IInv'
<1>1. AllSettled(p) /\ Count(p) \in Nat
    BY AtPath DEF OneByOne
<1>2. CASE Count(p) > 0 /\ Ends(p, Result(p, Count(p)))
    <2>1. Count(p) \in 1..Count(p)
        BY <1>1, <1>2
    <2>2. Kid(p, Count(p)) \in DOMAIN run
        BY <1>1, <2>1 DEF IInv, OrderInv, Known
    <2> QED
        BY <1>1, <1>2, <2>2, AtResult, EndStep DEF Result
<1>3. CASE more /\ Start(p, Count(p) + 1, r, ctx)
    <2>1. Count(p) + 1 \in Nat
        BY <1>1
    <2>2. ctx.caught <=> Shelters(p, Count(p) + 1)
        BY <1>3, <2>1, SharesContext DEF Ordered
    <2>3. ctx.steps \in DOMAIN run /\ MayRun(p, Count(p) + 1)
        BY <1>3, AtPath DEF MayRun, Ordered
    <2> QED
        BY <1>3, <2>1, <2>2, <2>3, StartStep
<1>4. CASE Ends(p, Continue)
    BY <1>1, <1>4, ContinueOK, EndStep
<1> QED
    BY <1>2, <1>3, <1>4 DEF OneByOne, Stopped

LEMMA SequenceInv ==
    ASSUME IInv, NEW p \in DOMAIN run, Sequence(p)
    PROVE  IInv'
<1> DEFINE of == run[p].routine.of
           more == Count(p) < Len(of)
           r == IF more THEN of[Count(p) + 1] ELSE of
<1>1. ~Settled(p) /\ Op(p) = "seq" /\ OneByOne(p, more, r, run[p].ctx)
    BY DEF Sequence, Active
<1>2. of \in Seq(Routines) /\ Count(p) \in Nat
    BY <1>1, AtPath, PartsOf
<1>3. more \in BOOLEAN
    OBVIOUS
<1>4. more => r \in Routines
    <2> HIDE DEF of
    <2>1. ASSUME more
          PROVE  Count(p) + 1 \in 1..Len(of)
        BY <1>2, <2>1, LenProperties
    <2> QED
        BY <1>2, <2>1, ElementOfSeq
<1> HIDE DEF more, r
<1> QED
    BY <1>1, <1>3, <1>4, AtPath, OneByOneInv DEF Ordered

LEMMA ForInv ==
    ASSUME IInv, NEW p \in DOMAIN run, For(p)
    PROVE  IInv'
<1> DEFINE more == Count(p) < run[p].routine.items
           r == run[p].routine.do
           ctx == ItemContext(p, Count(p) + 1)
<1>1. ~Settled(p) /\ Op(p) = "for" /\ (OneByOne(p, more, r, ctx) \/ (Count(p) = 0 /\ Fails(p)))
    BY DEF For, Active
<1>2. r \in Routines /\ Count(p) + 1 \in Nat
    <2>1. Count(p) \in Nat
        BY AtPath
    <2> QED
        BY <1>1, <2>1, PartsOf
<1>3. more \in BOOLEAN
    OBVIOUS
<1>4. ctx \in Contexts /\ ctx.steps = run[p].ctx.steps /\ ctx.caught = run[p].ctx.caught
    BY <1>2, ItemContextOK
<1> HIDE DEF more, r, ctx
<1>5. CASE OneByOne(p, more, r, ctx)
    BY <1>1, <1>2, <1>3, <1>4, <1>5, OneByOneInv DEF Ordered
<1>6. CASE Count(p) = 0 /\ Fails(p)
    BY <1>1, <1>6, AtPath, NoParts, FailsInv
<1> QED
    BY <1>1, <1>5, <1>6

LEMMA WhileInv ==
    ASSUME IInv, NEW p \in DOMAIN run, While(p)
    PROVE  IInv'
<1>1. ~Settled(p) /\ Op(p) = "while"
    BY DEF While, Active
<1>2. ASSUME NEW holds \in BOOLEAN, OneByOne(p, holds, run[p].routine.do, run[p].ctx)
      PROVE  IInv'
    <2>1. run[p].routine.do \in Routines
        BY <1>1, PartsOf
    <2> QED
        BY <1>1, <1>2, <2>1, AtPath, OneByOneInv DEF Ordered
<1>3. CASE AllSettled(p) /\ Fails(p)
    BY <1>1, <1>3, FailsInv
<1> QED
    BY <1>2, <1>3 DEF While

LEMMA IfInv ==
    ASSUME IInv, NEW p \in DOMAIN run, If(p)
    PROVE  IInv'
<1>1. ~Settled(p) /\ Op(p) = "if" /\ AllSettled(p)
    BY DEF If, Active
<1> DEFINE of == run[p].routine.of
<1>2. ASSUME NEW i \in 1..Len(of), Start(p, i, of[i], run[p].ctx)
      PROVE  IInv'
    <2>1. of \in Seq(Routines)
        BY <1>1, PartsOf
    <2>2. of[i] \in Routines /\ i \in Nat
        <3> HIDE DEF of
        <3> QED
            BY <2>1, ElementOfSeq, LenProperties
    <2>3. run[p].ctx.caught <=> Shelters(p, i)
        BY <1>1, <2>2, SharesContext
    <2>4. MayRun(p, i)
        BY <1>1 DEF MayRun
    <2> QED
        BY <1>1, <1>2, <2>2, <2>3, <2>4, AtPath, StartStep DEF Ordered
<1>3. ASSUME NEW q \in Kids(p), Ends(p, run[q].result)
      PROVE  IInv'
    <2>1. q \in DOMAIN run
        BY DEF Kids
    <2> QED
        BY <1>1, <1>3, <2>1, AtResult, EndStep
<1>4. CASE Ends(p, Continue) \/ Fails(p)
    BY <1>1, <1>4, ContinueOK, EndStep, FailsInv
<1> QED
    BY <1>2, <1>3, <1>4 DEF If

\* What parallel parts answer is what one of them answers, the first of its kind.
LEMMA FirstIs ==
    ASSUME NEW p, NEW status, NEW n \in Nat, \E i \in 1..n : Result(p, i).status = status
    PROVE  LET i == First(p, status, n)
           IN  /\ i \in 1..n /\ Result(p, i).status = status
               /\ \A j \in 1..n : Result(p, j).status = status => i <= j
<1> DEFINE T == {i \in 1..n : Result(p, i).status = status}
<1>1. T \subseteq Nat /\ T # {}
    OBVIOUS
<1>2. \A i \in T : i \in 1..n /\ Result(p, i).status = status
    OBVIOUS
<1>3. \A i \in 1..n : Result(p, i).status = status => i \in T
    OBVIOUS
<1> HIDE DEF T
<1>4. PICK i \in T : \A j \in T : i <= j
    BY <1>1, LeastIs
<1>5. \A j \in 1..i - 1 : Result(p, j).status # status
    <2> TAKE j \in 1..i - 1
    <2>1. i \in 1..n /\ j \in 1..n /\ ~(i <= j)
        BY <1>2
    <2> QED
        BY <1>3, <1>4, <2>1
<1>6. \E k \in 1..n : Result(p, k).status = status /\ \A j \in 1..k - 1 : Result(p, j).status # status
    BY <1>2, <1>5
<1> DEFINE first == First(p, status, n)
<1>7. /\ first \in 1..n /\ Result(p, first).status = status
      /\ \A j \in 1..first - 1 : Result(p, j).status # status
    BY <1>6 DEF First
<1> HIDE DEF first
<1>8. ASSUME NEW j \in 1..n, Result(p, j).status = status
      PROVE  first <= j
    BY <1>7, <1>8
<1> QED
    BY <1>7, <1>8 DEF first

LEMMA JoinedIs ==
    ASSUME NEW p, NEW n \in Nat
    PROVE  Joined(p, n) = Continue \/ \E i \in 1..n : Joined(p, n) = Result(p, i)
BY FirstIs DEF Joined

LEMMA JoinedInv ==
    ASSUME IInv, NEW p \in DOMAIN run, ~Settled(p), NEW n \in Nat, AllDone(p, n),
           \A i \in Nat : MayRun(p, i) => i \in 1..n, Ends(p, Joined(p, n))
    PROVE  IInv'
<1>1. AllSettled(p)
    BY AtPath DEF AllSettled, AllDone, Done
<1>2. \A i \in 1..n : Endable(Result(p, i))
    BY AtResult DEF AllDone, Done, Known, Result
<1>3. Endable(Joined(p, n))
    BY <1>2, JoinedIs, ContinueOK
<1> QED
    BY <1>1, <1>3, EndStep

LEMMA ParallelInv ==
    ASSUME IInv, NEW p \in DOMAIN run, Parallel(p)
    PROVE  IInv'
<1>1. ~Settled(p) /\ Op(p) = "parallel"
    BY DEF Parallel, Active
<1> DEFINE of == run[p].routine.of
<1>2. of \in Seq(Routines)
    BY <1>1, PartsOf
<1>3. Len(of) \in Nat /\ \A i \in 1..Len(of) : of[i] \in Routines
    <2> HIDE DEF of
    <2> QED
        BY <1>2, LenProperties, ElementOfSeq
<1> DEFINE parts == [i \in 1..Len(of) |-> Activation(of[i], run[p].ctx)]
<1>4. CASE Starts(p, parts)
    <2>1. DOMAIN parts = 1..Len(of) /\ IsFiniteSet(1..Len(of))
        BY <1>3, FS_Interval
    <2>2. ASSUME NEW i \in 1..Len(of)
          PROVE  PartOK(p, i, parts[i])
        <3>1. i \in Nat /\ of[i] \in Routines /\ parts[i] = Activation(of[i], run[p].ctx)
            BY <1>3
        <3>2. MayRun(p, i)
            BY <1>1 DEF MayRun
        <3> HIDE DEF parts, of
        <3>3. run[p].ctx.caught <=> Shelters(p, i)
            BY <1>1, <3>1, SharesContext
        <3>4. run[p].ctx \in Contexts /\ run[p].ctx.steps \in DOMAIN run
            BY AtPath
        <3>5. parts[i] \in Activations /\ parts[i].result = Pending /\ parts[i].ctx = run[p].ctx
            BY <3>1, <3>4, ActivationOK
        <3> QED
            BY <3>2, <3>3, <3>4, <3>5 DEF PartOK
    <2>3. 1..Len(of) \subseteq Nat
        BY <1>3
    <2> HIDE DEF parts
    <2> QED
        BY <1>1, <1>4, <2>1, <2>2, <2>3, StartsStep DEF Ordered
<1>5. CASE AllDone(p, Len(of)) /\ Ends(p, Joined(p, Len(of)))
    <2>1. \A i \in Nat : MayRun(p, i) => i \in 1..Len(of)
        BY <1>1 DEF MayRun
    <2> QED
        BY <1>1, <1>3, <1>5, <2>1, JoinedInv
<1>6. CASE Count(p) = 0 /\ Fails(p)
    BY <1>1, <1>6, AtPath, NoParts, FailsInv
<1> QED
    BY <1>4, <1>5, <1>6 DEF Parallel

LEMMA ParallelForInv ==
    ASSUME IInv, NEW p \in DOMAIN run, ParallelFor(p)
    PROVE  IInv'
<1>1. ~Settled(p) /\ Op(p) = "parallel_for"
    BY DEF ParallelFor, Active
<1> DEFINE items == run[p].routine.items
           r == run[p].routine.do
           taken == {i \in Count(p) + 1 .. items : i <= Count(p) + FreeLanes(p)}
           parts == [i \in taken |-> Activation(r, ItemContext(p, i))]
<1>2. items \in Nat /\ r \in Routines /\ Count(p) \in Nat
    <2>1. Count(p) \in Nat
        BY AtPath
    <2> QED
        BY <1>1, <2>1, PartsOf
<1>3. taken \subseteq 1..items /\ 1..items \subseteq Nat
    BY <1>2
<1>4. CASE Starts(p, parts)
    <2>1. DOMAIN parts = taken
        OBVIOUS
    <2>2. IsFiniteSet(taken)
        <3>1. IsFiniteSet(1..items)
            <4> HIDE DEF items
            <4>1. 1 \in Int /\ items \in Int
                BY <1>2
            <4> QED
                BY <4>1, FS_Interval
        <3> HIDE DEF taken
        <3> QED
            BY <1>3, <3>1, FS_Subset
    <2>3. ASSUME NEW i \in taken
          PROVE  PartOK(p, i, parts[i])
        <3>1. i \in Nat /\ i \in 1..items /\ parts[i] = Activation(r, ItemContext(p, i))
            BY <1>3
        <3>2. MayRun(p, i)
            BY <1>1, <3>1 DEF MayRun
        <3> DEFINE ctx == ItemContext(p, i)
        <3>3. ctx \in Contexts /\ ctx.steps = run[p].ctx.steps /\ ctx.caught = run[p].ctx.caught
            BY <3>1, ItemContextOK
        <3> HIDE DEF parts, r, ctx
        <3>4. ctx.caught <=> Shelters(p, i)
            BY <1>1, <3>1, <3>3, SharesContext
        <3>5. parts[i] = Activation(r, ctx)
            BY <3>1 DEF ctx
        <3>6. parts[i] \in Activations /\ parts[i].result = Pending /\ parts[i].ctx = ctx
            BY <1>2, <3>3, <3>5, ActivationOK DEF r
        <3> QED
            BY <3>2, <3>3, <3>4, <3>6, AtPath DEF PartOK
    <2> HIDE DEF parts, taken
    <2> QED
        BY <1>1, <1>3, <1>4, <2>1, <2>2, <2>3, StartsStep DEF Ordered
<1>5. CASE AllDone(p, items) /\ Ends(p, Joined(p, items))
    <2>1. \A i \in Nat : MayRun(p, i) => i \in 1..items
        BY <1>1 DEF MayRun
    <2> QED
        BY <1>1, <1>2, <1>5, <2>1, JoinedInv
<1>6. CASE Count(p) = 0 /\ Fails(p)
    BY <1>1, <1>6, AtPath, NoParts, FailsInv
<1> QED
    BY <1>4, <1>5, <1>6 DEF ParallelFor

\* When a :try, and the :catch and :finally it runs, are over.
LEMMA TryIsOver ==
    ASSUME IInv, NEW p \in DOMAIN run, Op(p) = "try", BodyDone(p), HasFinally(p) => Done(p, 3)
    PROVE  AllSettled(p) /\ Endable(BodyResult(p))
<1>1. ASSUME NEW q \in Kids(p)
      PROVE  Settled(q)
    <2>1. q = Kid(p, Place(q)) /\ MayRun(p, Place(q))
        BY AtPath
    <2>2. \/ Place(q) = 1
          \/ Place(q) = 2 /\ Catches(p)
          \/ Place(q) = 3 /\ HasFinally(p)
        BY <2>1 DEF MayRun
    <2> QED
        BY <2>1, <2>2 DEF BodyDone, Done
<1>2. Endable(Result(p, 1)) /\ (Catches(p) => Endable(Result(p, 2)))
    BY AtResult DEF BodyDone, Done, Known, Result
<1> QED
    BY <1>1, <1>2 DEF AllSettled, BodyResult

LEMMA TryInv ==
    ASSUME IInv, NEW p \in DOMAIN run, Try(p)
    PROVE  IInv'
<1> DEFINE r == run[p].routine
<1>1. ~Settled(p) /\ Op(p) = "try"
    BY DEF Try, Active
<1>2. r.try \in Routines /\ r.catch \in Seq(Routines) /\ r.finally \in Seq(Routines)
    BY <1>1, PartsOf
<1>3. ASSUME NEW s \in Seq(Routines), Len(s) > 0
      PROVE  s[1] \in Routines
    <2>1. 1 \in 1..Len(s)
        BY <1>3, LenProperties
    <2> QED
        BY <2>1, ElementOfSeq
<1>4. run[p].ctx \in Contexts /\ run[p].ctx.steps \in DOMAIN run
    BY AtPath
<1>5. CASE Start(p, 1, r.try, TryContext(p))
    <2>1. TryContext(p) \in Contexts /\ TryContext(p).steps = run[p].ctx.steps
        BY <1>4 DEF TryContext, Contexts
    <2>2. TryContext(p).caught <=> Shelters(p, 1)
        BY <1>1, <1>4, AtPath DEF TryContext, Contexts, Shelters
    <2>3. MayRun(p, 1)
        BY <1>1 DEF MayRun
    <2> QED
        BY <1>1, <1>2, <1>4, <1>5, <2>1, <2>2, <2>3, StartStep DEF Ordered
<1>6. CASE Catches(p) /\ Start(p, 2, r.catch[1], run[p].ctx)
    <2>1. r.catch[1] \in Routines
        BY <1>2, <1>3, <1>6 DEF Catches, HasCatch
    <2>2. run[p].ctx.caught <=> Shelters(p, 2)
        BY <1>1, SharesContext
    <2>3. MayRun(p, 2)
        BY <1>1, <1>6 DEF MayRun
    <2> QED
        BY <1>1, <1>4, <1>6, <2>1, <2>2, <2>3, StartStep DEF Ordered
<1>7. CASE BodyDone(p) /\ HasFinally(p) /\ Start(p, 3, r.finally[1], run[p].ctx)
    <2>1. r.finally[1] \in Routines
        BY <1>2, <1>3, <1>7 DEF HasFinally
    <2>2. run[p].ctx.caught <=> Shelters(p, 3)
        BY <1>1, SharesContext
    <2>3. MayRun(p, 3)
        BY <1>1, <1>7 DEF MayRun
    <2> QED
        BY <1>1, <1>4, <1>7, <2>1, <2>2, <2>3, StartStep DEF Ordered
<1>8. CASE BodyDone(p) /\ ~HasFinally(p) /\ Ends(p, BodyResult(p))
    BY <1>1, <1>8, TryIsOver, EndStep
<1>9. CASE /\ Done(p, 3)
           /\ Ends(p, IF Result(p, 3).status = "continue" THEN BodyResult(p) ELSE Result(p, 3))
    <2>1. MayRun(p, 3)
        BY <1>9 DEF IInv, ShapeInv, Done
    <2>2. AllSettled(p) /\ Endable(BodyResult(p))
        BY <1>1, <1>9, <2>1, TryIsOver DEF MayRun
    <2>3. Endable(Result(p, 3))
        BY <1>9, AtResult DEF Done, Known, Result
    <2> QED
        BY <1>1, <1>9, <2>2, <2>3, EndStep
<1> QED
    BY <1>5, <1>6, <1>7, <1>8, <1>9 DEF Try

LEMMA StepInv ==
    ASSUME IInv, NEW p \in DOMAIN run, Step(p)
    PROVE  IInv'
BY StepEndsInv, CallsEndpointInv, CallsApiInv, ReturnsInv, LogsAreInv, SequenceInv, ForInv, WhileInv,
   IfInv, ParallelInv, ParallelForInv, TryInv DEF Step

LEMMA SameRun ==
    ASSUME IInv, UNCHANGED <<run, log>>, AnswerInv'
    PROVE  IInv'
<1>1. TreeInv /\ LogsInv
    BY InvParts
<1>2. /\ \A p : Known(p)' = Known(p) /\ Op(p)' = Op(p) /\ Settled(p)' = Settled(p)
                /\ Kids(p)' = Kids(p) /\ Count(p)' = Count(p) /\ InTry(p)' = InTry(p)
      /\ \A p, i : MayRun(p, i)' = MayRun(p, i)
      /\ \A of : Handled(of)' = Handled(of)
    BY DEF Known, Op, Settled, Kids, Count, InTry, HasCatch, MayRun, Handled, Catches, BodyDone,
       HasFinally, Done, Result
<1>3. RunInv'
    BY <1>1 DEF TreeInv, RunInv
<1>4. PathsInv' /\ ShapeInv' /\ OrderInv' /\ CaughtInv'
    BY <1>1, <1>2 DEF TreeInv, PathsInv, ShapeInv, OrderInv, CaughtInv
<1>5. LogsInv'
    BY <1>1, <1>2 DEF LogsInv, LoggedWell
<1>6. InvParts!:'
    BY InvParts, PTL
<1> QED
    BY <1>3, <1>4, <1>5, <1>6 DEF TreeInv

LEMMA RespondsInv ==
    ASSUME IInv, Responds
    PROVE  IInv'
<1>1. UNCHANGED <<run, log>>
    BY DEF Responds
<1>2. AnswerInv'
    <2>1. Settled(Root)' <=> Settled(Root)
        BY <1>1 DEF Settled
    <2>2. AnswerInv
        BY DEF IInv
    <2> QED
        BY <2>1, <2>2 DEF Responds, AnswerInv
<1> QED
    BY <1>1, <1>2, SameRun

LEMMA InitInv == Init => IInv
<1> SUFFICES ASSUME Init
             PROVE  IInv
    OBVIOUS
<1>1. PICK r \in Programs : run = [p \in {<<>>} |-> Activation(r, RootContext)]
    BY DEF Init
<1>2. DOMAIN run = {<<>>} /\ run[<<>>] = Activation(r, RootContext) /\ log = {}
    BY <1>1 DEF Init
<1>3. <<>> \in Seq(Nat) /\ Len(<<>>) = 0
    BY EmptySeq
<1>4. r \in Routines /\ RootContext \in Contexts /\ RootContext.steps = <<>> /\ ~RootContext.caught
    BY <1>3, RoutineAssumption DEF RootContext, Contexts
<1>5. run[<<>>] \in Activations /\ run[<<>>].result = Pending /\ run[<<>>].ctx = RootContext
    BY <1>2, <1>4, ActivationOK
<1>6. RunInv
    <2>1. run \in [DOMAIN run -> Activations]
        BY <1>1, <1>2, <1>5
    <2>2. IsFiniteSet(DOMAIN run)
        BY <1>2, FS_Singleton
    <2> QED
        BY <1>2, <1>3, <1>4, <1>5, <2>1, <2>2 DEF RunInv, Root, Pending
<1>7. PathsInv
    <2>1. \A p \in DOMAIN run : \A n \in 0..Len(p) : p = <<>> /\ n = 0 /\ SubSeq(p, 1, n) = <<>>
        BY <1>2, <1>3, WholePrefix
    <2> QED
        BY <1>2, <2>1 DEF PathsInv, Known
<1>8. \A i \in Nat : ~Known(Kid(<<>>, i))
    <2> TAKE i \in Nat
    <2> DEFINE e == <<>>
               k == Kid(e, i)
    <2>1. e \in Seq(Nat) /\ Len(e) = 0
        BY <1>3
    <2> HIDE DEF e
    <2>2. Len(Kid(e, i)) = Len(e) + 1
        BY <2>1, KidIs
    <2> HIDE DEF k
    <2>3. k # e
        BY <2>1, <2>2 DEF k
    <2> QED
        BY <1>2, <2>3 DEF Known, k, e
<1>9. Kids(<<>>) = {} /\ Count(<<>>) = 0
    <2>1. Kids(<<>>) = {}
        BY <1>2, <1>3 DEF Kids
    <2> QED
        BY <2>1, FS_EmptySet DEF Count
<1>10. ShapeInv /\ OrderInv
    BY <1>2, <1>8, <1>9 DEF ShapeInv, OrderInv
<1>11. CaughtInv
    BY <1>2, <1>3, <1>4, <1>5 DEF CaughtInv, InTry
<1>12. LogInv /\ LoggedOnce
    BY <1>2, <1>5 DEF LogInv, LoggedOnce, Pending
<1>13. AnswerInv
    BY DEF Init, AnswerInv
<1> QED
    BY <1>6, <1>7, <1>10, <1>11, <1>12, <1>13 DEF IInv

\* A step of any activation, and the answer to the caller, keep the invariant.
LEMMA NextInv == IInv /\ [Next]_vars => IInv'
<1> SUFFICES ASSUME IInv, [Next]_vars
             PROVE  IInv'
    OBVIOUS
<1>1. CASE Next
    BY <1>1, StepInv, RespondsInv DEF Next
<1>2. CASE UNCHANGED vars
    <2>1. UNCHANGED <<run, log, answer>>
        BY <1>2 DEF vars
    <2>2. AnswerInv'
        BY <2>1 DEF IInv, AnswerInv, Settled
    <2> QED
        BY <2>1, <2>2, SameRun
<1> QED
    BY <1>1, <1>2

-----------------------------------------------------------------------------
(* What holds of every run.                                                 *)

\* The tree of activations, its contexts and its log keep to the invariant.
THEOREM RoutineInvariant == Spec => []IInv
BY InitInv, NextInv, PTL DEF Spec

LEMMA TypesAre == IInv => RoutineTypeOK
<1> SUFFICES ASSUME IInv
             PROVE  RoutineTypeOK
    OBVIOUS
<1>1. \A p \in DOMAIN run : run[p].ctx \in Contexts /\ run[p].result \in Results
    BY DEF IInv, RunInv, Activations
<1>2. \A p \in DOMAIN run :
          /\ run[p].result.status \in Statuses \cup {"pending"}
          /\ run[p].result.class \in Classes \cup {NoClass}
          /\ run[p].ctx.caught \in BOOLEAN /\ run[p].ctx.depth \in 0..MaxDepth
    BY <1>1 DEF Contexts, Results
<1>3. \A l \in log : l.of \in DOMAIN run /\ l.at \in DOMAIN run /\ l.level \in {"debug", "warn", "error"}
    BY DEF IInv, LogInv
<1> QED
    BY <1>2, <1>3 DEF IInv, RunInv, AnswerInv, RoutineTypeOK

\* An activation's context and result, and the log, are well formed, and calls
\* nest no deeper than MaxDepth: runRoutine and invokeEndpoint.
THEOREM RoutineTypes == Spec => []RoutineTypeOK
BY RoutineInvariant, TypesAre, PTL

LEMMA NoneOutlives == IInv => NothingOutlives
<1> SUFFICES ASSUME IInv
             PROVE  NothingOutlives
    OBVIOUS
<1>1. ASSUME NEW p \in DOMAIN run, Settled(p), NEW q \in Kids(p)
      PROVE  Settled(q)
    <2>1. q \in DOMAIN run /\ Len(q) = Len(p) + 1 /\ SubSeq(q, 1, Len(p)) = p
        BY DEF Kids
    <2>2. Len(p) \in Nat
        BY LenProperties DEF IInv, RunInv
    <2>3. Len(p) \in 0..Len(q)
        BY <2>1, <2>2
    <2> QED
        BY <1>1, <2>1, <2>3 DEF IInv, PathsInv
<1>2. ASSUME Settled(Root), NEW p \in DOMAIN run
      PROVE  Settled(p)
    <2>1. SubSeq(p, 1, 0) = Root /\ 0 \in 0..Len(p)
        BY WholePrefix DEF IInv, RunInv, Root
    <2> QED
        BY <1>2, <2>1 DEF IInv, PathsInv
<1> QED
    BY <1>1, <1>2 DEF IInv, AnswerInv, NothingOutlives, AllSettled

\* No branch, called endpoint, :catch or :finally outlives the control that
\* started it, and a caller is answered when the whole routine has ended.
THEOREM NothingOutlivesItsControl == Spec => []NothingOutlives
BY RoutineInvariant, NoneOutlives, PTL

\* An error is logged, once however far it travels, and at debug just when a
\* :catch around handles it as an outcome: the catch of runRoutine.
THEOREM ErrorsAreLoggedOnce == Spec => []LoggedOnce
<1>1. IInv => LoggedOnce
    BY DEF IInv
<1> QED
    BY <1>1, RoutineInvariant, PTL

-----------------------------------------------------------------------------
(* What an activation answers, from what its parts answered.                *)

\* Routine k is p's part at place i.
Fits(p, i, k) ==
    LET r == run[p].routine
    IN  /\ Op(p) = "seq" => i \in 1..Len(r.of) /\ k = r.of[i]
        /\ Op(p) = "for" => i \in 1..r.items /\ k = r.do
        /\ Op(p) \in {"while", "parallel_for"} => k = r.do
        /\ Op(p) = "parallel" => k = r.of[i]
        /\ Op(p) = "if" => i \in 1..Len(r.of) /\ k = r.of[i]
        /\ Op(p) = "try" => /\ i = 1 => k = r.try
                            /\ i = 2 => k = r.catch[1]
                            /\ i = 3 => k = r.finally[1]
        /\ Op(p) \in {"call", "callApi"} => k = Endpoints[r.endpoint]

Continues(p, i) == Done(p, i) /\ Result(p, i).status = "continue"

\* p may go on with its part at place i.
GoesOn(p, i) ==
    /\ Op(p) \in Ordered => \A j \in 1..i-1 : Continues(p, j)
    /\ Op(p) = "if" => \A j \in Nat : Known(Kid(p, j)) => j = i

PartsInv == \A p \in DOMAIN run : \A i \in Nat :
    Known(Kid(p, i)) => Fits(p, i, run[Kid(p, i)].routine) /\ GoesOn(p, i)

\* An error comes from p or from below it.
StatusInv == \A p \in DOMAIN run :
    /\ run[p].result.status = "continue" => run[p].result = Continue
    /\ run[p].result.status = "pending" => run[p].result = Pending
    /\ run[p].result.status = "error" => Len(p) <= Len(run[p].result.of)

\* Result r is an error of p's own.
Own(p, r) == r.status = "error" /\ r.of = p

\* Result r is the one that p's parts make, or an error of p's own where it may fail.
InOrderAs(p, r) ==
    LET n == Count(p)
    IN  \/ n > 0 /\ Result(p, n).status # "continue" /\ r = Result(p, n)
        \/ /\ r = Continue
           /\ \A i \in 1..n : Result(p, i).status = "continue"
           /\ Op(p) = "seq" => Len(run[p].routine.of) <= n
           /\ Op(p) = "for" => run[p].routine.items <= n
        \/ /\ Own(p, r) /\ Op(p) # "seq" /\ (Op(p) = "for" => n = 0)
           /\ \A i \in 1..n : Result(p, i).status = "continue"

With(p, n, status) == {i \in 1..n : Result(p, i).status = status}

Ruling(p, n) == IF With(p, n, "error") # {} THEN With(p, n, "error")
                ELSE IF With(p, n, "reject") # {} THEN With(p, n, "reject") ELSE With(p, n, "return")

TogetherAs(p, n, r) ==
    /\ \A i \in 1..n : Known(Kid(p, i))
    /\ \/ Ruling(p, n) = {} /\ r = Continue
       \/ \E i \in Ruling(p, n) : (\A j \in Ruling(p, n) : i <= j) /\ r = Result(p, i)

TryAs(p, r) ==
    /\ BodyDone(p) /\ (HasFinally(p) => Done(p, 3))
    /\ r = IF HasFinally(p) /\ Result(p, 3).status # "continue" THEN Result(p, 3) ELSE BodyResult(p)

IfAs(p, r) ==
    \/ Kids(p) = {} /\ (r = Continue \/ Own(p, r))
    \/ \E q \in Kids(p) : r = run[q].result

CallAs(p, r) ==
    \/ Kids(p) = {}
    \/ /\ Done(p, 1)
       /\ r = HandedOn(p, Result(p, 1))

\* p failed before it took a part.
NoneRan(p, r) == Kids(p) = {} /\ Own(p, r)

MadeOf(p, r) ==
    /\ Op(p) \in Ordered => InOrderAs(p, r)
    /\ Op(p) = "parallel" => NoneRan(p, r) \/ TogetherAs(p, Len(run[p].routine.of), r)
    /\ Op(p) = "parallel_for" => NoneRan(p, r) \/ TogetherAs(p, run[p].routine.items, r)
    /\ Op(p) = "try" => TryAs(p, r)
    /\ Op(p) = "if" => IfAs(p, r)
    /\ Op(p) \in {"call", "callApi"} => CallAs(p, r)

AnswersInv == \A p \in DOMAIN run : Settled(p) => MadeOf(p, run[p].result)

MInv == StatusInv /\ PartsInv /\ AnswersInv

-----------------------------------------------------------------------------
(* What lies below an activation.                                           *)

LEMMA BelowIs ==
    ASSUME RunInv, PathsInv, NEW p \in DOMAIN run
    PROVE  /\ Below(p) = {p} \cup UNION {Below(q) : q \in Kids(p)}
           /\ \A q \in Kids(p) : p \notin Below(q)
<1>1. DOMAIN run \subseteq Seq(Nat) /\ p \in Seq(Nat) /\ \A d \in DOMAIN run : Len(d) \in Nat
    BY LenProperties DEF RunInv
<1>2. \A q \in Kids(p) : q \in DOMAIN run /\ Len(q) = Len(p) + 1 /\ SubSeq(q, 1, Len(p)) = p
    BY DEF Kids
<1>3. \A d : d \in Below(p) <=> d \in DOMAIN run /\ Len(p) <= Len(d) /\ SubSeq(d, 1, Len(p)) = p
    BY DEF Below
<1>4. p \in Below(p)
    BY <1>1, <1>3, WholePrefix
<1>5. ASSUME NEW q \in Kids(p), NEW d \in Below(q)
      PROVE  d \in Below(p) /\ d # p
    <2>1. d \in DOMAIN run /\ Len(q) <= Len(d) /\ SubSeq(d, 1, Len(q)) = q
        BY DEF Below
    <2>2. d \in Seq(Nat) /\ Len(q) \in 0..Len(d) /\ Len(p) \in 0..Len(q)
        BY <1>1, <1>2, <2>1
    <2>3. SubSeq(SubSeq(d, 1, Len(q)), 1, Len(p)) = SubSeq(d, 1, Len(p))
        BY <2>2, PrefixOfPrefix
    <2>4. SubSeq(d, 1, Len(p)) = p
        BY <1>2, <2>1, <2>3
    <2>5. Len(p) < Len(d)
        BY <1>1, <1>2, <2>1
    <2>6. d # p
        BY <1>1, <2>5
    <2> QED
        BY <1>1, <1>3, <2>1, <2>4, <2>5, <2>6
<1>6. ASSUME NEW d \in Below(p), d # p
      PROVE  \E q \in Kids(p) : d \in Below(q)
    <2> DEFINE q == SubSeq(d, 1, Len(p) + 1)
    <2>1. d \in DOMAIN run /\ d \in Seq(Nat) /\ Len(p) <= Len(d) /\ SubSeq(d, 1, Len(p)) = p
        BY <1>1, <1>3
    <2>2. Len(d) # Len(p)
        BY <1>6, <2>1, WholePrefix
    <2>3. Len(p) + 1 \in 0..Len(d) /\ Len(p) \in 0..Len(p) + 1
        BY <1>1, <2>1, <2>2
    <2>4. q \in DOMAIN run
        BY <2>1, <2>3 DEF PathsInv, Known
    <2>5. Len(q) = Len(p) + 1
        BY <2>1, <2>3, PrefixIs
    <2>6. SubSeq(q, 1, Len(p)) = p
        BY <2>1, <2>3, PrefixOfPrefix
    <2>7. d \in Below(q)
        <3>1. SubSeq(d, 1, Len(q)) = q
            BY <2>5
        <3> HIDE DEF q
        <3> QED
            BY <1>1, <2>1, <2>3, <2>5, <3>1 DEF Below
    <2> HIDE DEF q
    <2>8. q \in Kids(p)
        BY <2>4, <2>5, <2>6 DEF Kids
    <2> QED
        BY <2>7, <2>8
<1>7. \A d : d \in Below(p) <=> d = p \/ \E q \in Kids(p) : d \in Below(q)
    BY <1>4, <1>5, <1>6
<1>8. Below(p) = {p} \cup UNION {Below(q) : q \in Kids(p)}
    BY <1>7
<1> QED
    BY <1>5, <1>8

\* An activation's kids have less below them than it has itself.
LEMMA FewerBelow ==
    ASSUME RunInv, PathsInv, NEW p \in DOMAIN run
    PROVE  /\ Cardinality(Below(p)) \in Nat
           /\ \A q \in Kids(p) : Cardinality(Below(q)) < Cardinality(Below(p))
<1>1. \A d : IsFiniteSet(Below(d))
    <2> TAKE d
    <2>1. Below(d) \in SUBSET DOMAIN run /\ IsFiniteSet(DOMAIN run)
        BY DEF Below, RunInv
    <2> QED
        BY <2>1, FS_Subset
<1>2. \A d : Cardinality(Below(d)) \in Nat
    BY <1>1, FS_CardinalityType
<1>3. ASSUME NEW q \in Kids(p)
      PROVE  Cardinality(Below(q)) < Cardinality(Below(p))
    <2> DEFINE S == Below(p)
               T == Below(q)
    <2>1. p \in S /\ p \notin T /\ T \in SUBSET S
        BY BelowIs
    <2>2. IsFiniteSet(S) /\ Cardinality(S) \in Nat /\ Cardinality(T) \in Nat
        BY <1>1, <1>2
    <2> HIDE DEF S, T
    <2>3. Cardinality(T) <= Cardinality(S) /\ (Cardinality(S) = Cardinality(T) => S = T)
        BY <2>1, <2>2, FS_Subset
    <2> QED
        BY <2>1, <2>2, <2>3 DEF S, T
<1> QED
    BY <1>2, <1>3

-----------------------------------------------------------------------------
(* How the parts of an activation make it up.                               *)

LEMMA MeansIs == \A r, paths : Means(r, paths).result = r /\ Means(r, paths).paths = paths
BY DEF Means

\* The paths of the first n parts.
PathsTo(p, parts, n) == {p} \cup UNION {parts[i].paths : i \in 1..n}

LEMMA InOrderIs ==
    ASSUME NEW p, NEW N \in Nat, NEW parts, DOMAIN parts = 1..N, NEW n \in 0..N,
           \A i \in 1..n - 1 : parts[i].result.status = "continue"
    PROVE  /\ n > 0 /\ parts[n].result.status # "continue"
                  => InOrder(p, parts) = Means(parts[n].result, PathsTo(p, parts, n))
           /\ n = N /\ (n > 0 => parts[n].result.status = "continue")
                  => InOrder(p, parts) = Means(Continue, PathsTo(p, parts, n))
<1> DEFINE S == {i \in DOMAIN parts : parts[i].result.status # "continue"}
           last == CHOOSE i \in S : \A j \in S : i <= j
           upTo == {i \in DOMAIN parts : S = {} \/ i <= last}
<1>1. InOrder(p, parts) = Means(IF S = {} THEN Continue ELSE parts[last].result,
                                {p} \cup UNION {parts[i].paths : i \in upTo})
    BY DEF InOrder
<1>2. \A i \in S : i \in 1..N /\ parts[i].result.status # "continue"
    OBVIOUS
<1>3. ASSUME n > 0, parts[n].result.status # "continue"
      PROVE  InOrder(p, parts) = Means(parts[n].result, PathsTo(p, parts, n))
    <2>1. n \in S
        BY <1>3
    <2>2. \A i \in S : n <= i
        BY <1>2
    <2> HIDE DEF S
    <2>3. \E i \in S : \A j \in S : i <= j
        BY <2>1, <2>2
    <2>4. last \in S /\ \A j \in S : last <= j
        BY <2>3
    <2> HIDE DEF last
    <2>5. last = n
        BY <1>2, <2>1, <2>2, <2>4
    <2>6. S # {}
        BY <2>1
    <2>7. upTo = 1..n
        BY <2>5, <2>6
    <2> HIDE DEF upTo
    <2> QED
        BY <1>1, <2>5, <2>6, <2>7 DEF PathsTo
<1>4. ASSUME n = N, n > 0 => parts[n].result.status = "continue"
      PROVE  InOrder(p, parts) = Means(Continue, PathsTo(p, parts, n))
    <2>1. \A i \in 1..N : parts[i].result.status = "continue"
        BY <1>4
    <2>2. S = {}
        BY <2>1
    <2>3. upTo = 1..n
        BY <1>4, <2>2
    <2> HIDE DEF S, upTo
    <2> QED
        BY <1>1, <2>2, <2>3 DEF PathsTo
<1> QED
    BY <1>3, <1>4

\* The first of the ruling parts answers for all.
LEMMA TogetherIs ==
    ASSUME NEW p, NEW n \in Nat, NEW parts, DOMAIN parts = 1..n, NEW r,
           \A i \in 1..n : parts[i].result = Result(p, i),
           TogetherAs(p, n, r)
    PROVE  Together(p, parts) = Means(r, PathsTo(p, parts, n))
<1> DEFINE has(status) == {i \in DOMAIN parts : parts[i].result.status = status}
           ruling == IF has("error") # {} THEN has("error")
                     ELSE IF has("reject") # {} THEN has("reject") ELSE has("return")
           first == CHOOSE i \in ruling : \A j \in ruling : i <= j
<1>1. Together(p, parts) = Means(IF ruling = {} THEN Continue ELSE parts[first].result, PathsTo(p, parts, n))
    BY DEF Together, PathsTo
<1>2. ASSUME NEW status
      PROVE  has(status) = With(p, n, status)
    BY DEF With
<1>3. ruling = Ruling(p, n)
    <2> HIDE DEF has
    <2> QED
        BY <1>2 DEF Ruling
<1>4. \A i \in ruling : i \in 1..n
    BY DEF has
<1> HIDE DEF ruling
<1>5. CASE Ruling(p, n) = {} /\ r = Continue
    BY <1>1, <1>3, <1>5
<1>6. ASSUME NEW i \in Ruling(p, n), \A j \in Ruling(p, n) : i <= j, r = Result(p, i)
      PROVE  Together(p, parts) = Means(r, PathsTo(p, parts, n))
    <2>1. \E k \in ruling : \A j \in ruling : k <= j
        BY <1>3, <1>6
    <2>2. first \in ruling /\ \A j \in ruling : first <= j
        BY <2>1
    <2> HIDE DEF first
    <2>3. first = i /\ i \in 1..n /\ ruling # {}
        BY <1>3, <1>4, <1>6, <2>2
    <2> QED
        BY <1>1, <1>6, <2>3
<1> QED
    BY <1>5, <1>6 DEF TogetherAs

\* What parts of p that have ended mean.
EndsOf(p) == [q \in Kids(p) \cap Ended |-> Means(run[q].result, Below(q))]

\* What can be said of an activation that has ended.
LEMMA EndedIs ==
    ASSUME IInv, MInv, NEW p \in DOMAIN run, Settled(p)
    PROVE  /\ p \in Seq(Nat) /\ DOMAIN EndsOf(p) = Kids(p) /\ MadeOf(p, run[p].result)
           /\ \A q \in Kids(p) : EndsOf(p)[q] = Means(run[q].result, Below(q))
           /\ Below(p) = {p} \cup UNION {Below(q) : q \in Kids(p)}
<1>1. RunInv /\ PathsInv /\ NothingOutlives
    BY NoneOutlives DEF IInv
<1>2. Kids(p) \cap Ended = Kids(p)
    BY <1>1 DEF Kids, Ended, NothingOutlives, AllSettled
<1>3. p \in Seq(Nat)
    BY <1>1 DEF RunInv
<1>4. MadeOf(p, run[p].result)
    BY DEF MInv, AnswersInv
<1> QED
    BY <1>1, <1>2, <1>3, <1>4, BelowIs DEF EndsOf

LEMMA PartIs ==
    ASSUME IInv, MInv, NEW p \in DOMAIN run, Settled(p), NEW i \in Nat, Known(Kid(p, i))
    PROVE  /\ Kid(p, i) \in Kids(p)
           /\ Part(p, EndsOf(p), i, run[Kid(p, i)].routine) = Means(Result(p, i), Below(Kid(p, i)))
           /\ Fits(p, i, run[Kid(p, i)].routine) /\ GoesOn(p, i)
           /\ Done(p, i)
<1>1. Kid(p, i) \in Kids(p)
    BY KidsAre DEF IInv, RunInv
<1>2. Part(p, EndsOf(p), i, run[Kid(p, i)].routine) = Means(Result(p, i), Below(Kid(p, i)))
    BY <1>1, EndedIs DEF Part, Result
<1>3. Done(p, i)
    BY <1>1, NoneOutlives DEF NothingOutlives, AllSettled, Done
<1> QED
    BY <1>1, <1>2, <1>3 DEF MInv, PartsInv

\* When just the parts at places D ran, these make the paths.
LEMMA PathsAre ==
    ASSUME IInv, MInv, NEW p \in DOMAIN run, Settled(p), NEW D, D \subseteq Nat,
           \A i \in Nat : Known(Kid(p, i)) <=> i \in D
    PROVE  Below(p) = {p} \cup UNION {Below(Kid(p, i)) : i \in D}
<1>1. \A i \in D : Kid(p, i) \in Kids(p)
    BY PartIs
<1>2. \A q \in Kids(p) : Place(q) \in D /\ q = Kid(p, Place(q))
    BY AtPath DEF Known
<1>3. Below(p) = {p} \cup UNION {Below(q) : q \in Kids(p)}
    BY EndedIs
<1>4. {Below(q) : q \in Kids(p)} = {Below(Kid(p, i)) : i \in D}
    BY <1>1, <1>2
<1> QED
    BY <1>3, <1>4

\* An error of a part is not p's own.
LEMMA PartsOwn ==
    ASSUME IInv, MInv, NEW p \in DOMAIN run
    PROVE  /\ ~Own(p, Continue)
           /\ \A q \in Kids(p) : ~Own(p, run[q].result)
           /\ \A i \in Nat : Known(Kid(p, i)) => ~Own(p, Result(p, i))
<1>1. ASSUME NEW q \in Kids(p)
      PROVE  ~Own(p, run[q].result)
    <2>1. q \in DOMAIN run /\ Len(q) = Len(p) + 1
        BY DEF Kids
    <2>2. Len(p) \in Nat
        BY AtPath, LenProperties
    <2>3. run[q].result.status = "error" => Len(p) + 1 <= Len(run[q].result.of)
        BY <2>1 DEF MInv, StatusInv
    <2>4. ~(Len(p) + 1 <= Len(p))
        BY <2>2
    <2> QED
        BY <2>3, <2>4 DEF Own
<1>2. \A i \in Nat : Known(Kid(p, i)) => Kid(p, i) \in Kids(p)
    BY KidsAre DEF IInv, RunInv
<1> QED
    BY <1>1, <1>2 DEF Own, Continue, Result

\* An activation that took no part has nothing below it.
LEMMA NoneBelow ==
    ASSUME IInv, MInv, NEW p \in DOMAIN run, Settled(p), Kids(p) = {}
    PROVE  Below(p) = {p}
BY EndedIs

LEMMA OrderedMeans ==
    ASSUME IInv, MInv, NEW p \in DOMAIN run, Settled(p), Op(p) \in Ordered,
           NEW N \in Nat, NEW parts, DOMAIN parts = 1..N,
           \A i \in Nat : Known(Kid(p, i)) => i \in 1..N /\ parts[i] = Means(Result(p, i), Below(Kid(p, i))),
           Op(p) = "seq" => N = Len(run[p].routine.of),
           Op(p) = "for" => N = run[p].routine.items,
           Op(p) = "while" => N = Count(p)
    PROVE  /\ Op(p) = "seq" => InOrder(p, parts) = Means(run[p].result, Below(p))
           /\ Op(p) = "for" => Unless(p, InOrder(p, parts)) = Means(run[p].result, Below(p))
           /\ Op(p) = "while" => After(p, InOrder(p, parts)) = Means(run[p].result, Below(p))
<1> DEFINE n == Count(p)
           r == run[p].result
<1>1. n \in Nat
    BY AtPath
<1>2. \A i \in Nat : Known(Kid(p, i)) <=> i \in 1..n
    BY DEF IInv, OrderInv
<1>3. InOrderAs(p, r)
    BY EndedIs DEF MadeOf
<1>4. \A i \in 1..n : parts[i].result = Result(p, i) /\ parts[i].paths = Below(Kid(p, i))
    <2> TAKE i \in 1..n
    <2>1. i \in Nat /\ Known(Kid(p, i))
        BY <1>1, <1>2
    <2> QED
        BY <2>1, MeansIs
<1>5. n \in 0..N
    <2>1. CASE n = 0
        BY <2>1
    <2>2. CASE n > 0
        <3>1. n \in 1..n
            BY <1>1, <2>2
        <3> HIDE DEF n
        <3> QED
            BY <1>1, <1>2, <3>1
    <2> QED
        BY <1>1, <2>1, <2>2
<1>6. \A i \in 1..n - 1 : parts[i].result.status = "continue"
    <2> TAKE i \in 1..n - 1
    <2>1. n \in Nat /\ n \in 1..n /\ i \in 1..n
        BY <1>1
    <2>2. GoesOn(p, n)
        BY <1>2, <2>1, PartIs
    <2>3. Result(p, i).status = "continue"
        BY <2>2 DEF GoesOn, Continues
    <2> QED
        BY <1>4, <2>1, <2>3
<1>7. Below(p) = PathsTo(p, parts, n)
    <2>1. 1..n \subseteq Nat
        BY <1>1
    <2>2. Below(p) = {p} \cup UNION {Below(Kid(p, i)) : i \in 1..n}
        BY <1>2, <2>1, PathsAre
    <2> HIDE DEF n
    <2> QED
        BY <1>4, <2>2 DEF PathsTo
<1>8. /\ n > 0 /\ parts[n].result.status # "continue"
            => InOrder(p, parts) = Means(parts[n].result, PathsTo(p, parts, n))
      /\ n = N /\ (n > 0 => parts[n].result.status = "continue")
            => InOrder(p, parts) = Means(Continue, PathsTo(p, parts, n))
    <2> HIDE DEF n
    <2> QED
        BY <1>5, <1>6, InOrderIs
<1>9. n > 0 => parts[n].result = Result(p, n)
    BY <1>1, <1>4
<1> SUFFICES ASSUME NEW m, m = InOrder(p, parts)
             PROVE  /\ Op(p) = "seq" => m = Means(r, Below(p))
                    /\ Op(p) = "for" => Unless(p, m) = Means(r, Below(p))
                    /\ Op(p) = "while" => After(p, m) = Means(r, Below(p))
    OBVIOUS
<1>10. FailedItself(p) <=> Own(p, r)
    BY DEF FailedItself, Own
<1>11. CASE n > 0 /\ Result(p, n).status # "continue" /\ r = Result(p, n)
    <2>1. m = Means(r, Below(p)) /\ m.result.status # "continue"
        BY <1>7, <1>8, <1>9, <1>11, MeansIs
    <2>2. ~Own(p, r)
        <3>1. n \in Nat /\ n \in 1..n
            BY <1>1, <1>11
        <3> HIDE DEF n
        <3> QED
            BY <1>2, <1>11, <3>1, PartsOwn
    <2> QED
        BY <1>10, <2>1, <2>2 DEF Unless, After
<1>12. CASE /\ r = Continue /\ \A i \in 1..n : Result(p, i).status = "continue"
            /\ Op(p) = "seq" => Len(run[p].routine.of) <= n
            /\ Op(p) = "for" => run[p].routine.items <= n
    <2>1. n = N
        BY <1>1, <1>5, <1>12 DEF Ordered
    <2>2. n > 0 => parts[n].result.status = "continue"
        BY <1>1, <1>9, <1>12
    <2>3. m = Means(r, Below(p)) /\ ~Own(p, r)
        BY <1>7, <1>8, <1>12, <2>1, <2>2, PartsOwn
    <2> QED
        BY <1>10, <2>3 DEF Unless, After
<1>13. CASE /\ Own(p, r) /\ Op(p) # "seq" /\ (Op(p) = "for" => n = 0)
            /\ \A i \in 1..n : Result(p, i).status = "continue"
    <2>1. CASE Op(p) = "for"
        <3>1. Below(p) = {p}
            BY <1>13, <2>1, AtPath, NoneBelow
        <3> QED
            BY <1>10, <1>13, <2>1, <3>1 DEF Unless
    <2>2. CASE Op(p) = "while"
        <3>1. n > 0 => parts[n].result.status = "continue"
            BY <1>1, <1>9, <1>13
        <3>2. m = Means(Continue, Below(p))
            BY <1>7, <1>8, <2>2, <3>1
        <3>3. m.result.status = "continue" /\ m.paths = Below(p)
            BY <3>2, MeansIs DEF Continue
        <3> QED
            BY <1>10, <1>13, <2>2, <3>3 DEF After
    <2> QED
        BY <1>13, <2>1, <2>2 DEF Ordered
<1> QED
    BY <1>3, <1>11, <1>12, <1>13 DEF InOrderAs

LEMMA JoinedMeans ==
    ASSUME IInv, MInv, NEW p \in DOMAIN run, Settled(p), NEW n \in Nat, NEW parts, DOMAIN parts = 1..n,
           \A i \in Nat : Known(Kid(p, i)) => i \in 1..n /\ parts[i] = Means(Result(p, i), Below(Kid(p, i))),
           NoneRan(p, run[p].result) \/ TogetherAs(p, n, run[p].result)
    PROVE  Unless(p, Together(p, parts)) = Means(run[p].result, Below(p))
<1> DEFINE r == run[p].result
<1>1. FailedItself(p) <=> Own(p, r)
    BY DEF FailedItself, Own
<1>2. CASE NoneRan(p, r)
    <2>1. Below(p) = {p} /\ Own(p, r)
        BY <1>2, NoneBelow DEF NoneRan
    <2> QED
        BY <1>1, <2>1 DEF Unless
<1> SUFFICES ASSUME TogetherAs(p, n, r)
             PROVE  Unless(p, Together(p, parts)) = Means(r, Below(p))
    BY <1>2
<1>3. 1..n \subseteq Nat /\ \A i \in 1..n : Known(Kid(p, i))
    BY DEF TogetherAs
<1>4. \A i \in 1..n : parts[i].result = Result(p, i) /\ parts[i].paths = Below(Kid(p, i))
    <2> TAKE i \in 1..n
    <2>1. i \in Nat /\ Known(Kid(p, i))
        BY <1>3
    <2> QED
        BY <2>1, MeansIs
<1>5. Together(p, parts) = Means(run[p].result, PathsTo(p, parts, n))
    BY <1>4, TogetherIs
<1>6. Below(p) = {p} \cup UNION {Below(Kid(p, i)) : i \in 1..n}
    <2>1. \A i \in Nat : Known(Kid(p, i)) <=> i \in 1..n
        BY <1>3
    <2> QED
        BY <1>3, <2>1, PathsAre
<1>7. Below(p) = PathsTo(p, parts, n)
    BY <1>4, <1>6 DEF PathsTo
<1>8. ~Own(p, r)
    <2>1. CASE r = Continue
        BY <2>1, PartsOwn
    <2>2. ASSUME NEW i \in Ruling(p, n), r = Result(p, i)
          PROVE  ~Own(p, r)
        <3>1. i \in 1..n
            BY DEF Ruling, With
        <3> QED
            BY <1>3, <2>2, <3>1, PartsOwn
    <2> QED
        BY <2>1, <2>2 DEF TogetherAs
<1> QED
    BY <1>5, <1>7, <1>1, <1>8 DEF Unless

LEMMA ListMeans ==
    ASSUME IInv, MInv, NEW p \in DOMAIN run, Settled(p), Op(p) \in {"seq", "parallel"}
    PROVE  Compose(p, EndsOf(p)) = Means(run[p].result, Below(p))
<1> DEFINE of == run[p].routine.of
           parts == [i \in 1..Len(of) |-> Part(p, EndsOf(p), i, of[i])]
<1>1. of \in Seq(Routines)
    BY PartsOf
<1>2. Len(of) \in Nat
    <2> HIDE DEF of
    <2> QED
        BY <1>1, LenProperties
<1>3. ASSUME NEW i \in Nat, Known(Kid(p, i))
      PROVE  i \in 1..Len(of) /\ parts[i] = Means(Result(p, i), Below(Kid(p, i)))
    <2>1. i \in 1..Len(of)
        <3>1. MayRun(p, i) /\ Fits(p, i, run[Kid(p, i)].routine)
            BY <1>3, PartIs DEF IInv, ShapeInv
        <3> QED
            BY <3>1 DEF MayRun, Fits
    <2>2. run[Kid(p, i)].routine = of[i]
        BY <1>3, PartIs DEF Fits
    <2>3. parts[i] = Part(p, EndsOf(p), i, of[i])
        BY <2>1
    <2> HIDE DEF parts, of
    <2> QED
        BY <1>3, <2>1, <2>2, <2>3, PartIs
<1>4. DOMAIN parts = 1..Len(of)
    OBVIOUS
<1>5. CASE Op(p) = "seq"
    <2>1. Compose(p, EndsOf(p)) = InOrder(p, parts)
        BY <1>5 DEF Compose, Op
    <2> HIDE DEF parts
    <2> QED
        BY <1>2, <1>3, <1>4, <1>5, <2>1, OrderedMeans DEF Ordered
<1>6. CASE Op(p) = "parallel"
    <2>1. Compose(p, EndsOf(p)) = Unless(p, Together(p, parts))
        BY <1>6 DEF Compose, Op
    <2>2. NoneRan(p, run[p].result) \/ TogetherAs(p, Len(of), run[p].result)
        BY <1>6, EndedIs DEF MadeOf
    <2> HIDE DEF parts
    <2> QED
        BY <1>2, <1>3, <1>4, <2>1, <2>2, JoinedMeans
<1> QED
    BY <1>5, <1>6

LEMMA LoopMeans ==
    ASSUME IInv, MInv, NEW p \in DOMAIN run, Settled(p), Op(p) \in {"for", "while", "parallel_for"}
    PROVE  Compose(p, EndsOf(p)) = Means(run[p].result, Below(p))
<1> DEFINE N == IF Op(p) = "while" THEN Count(p) ELSE run[p].routine.items
           parts == [i \in 1..N |-> Part(p, EndsOf(p), i, run[p].routine.do)]
<1>1. N \in Nat
    BY AtPath, PartsOf
<1>2. ASSUME NEW i \in Nat, Known(Kid(p, i))
      PROVE  i \in 1..N /\ parts[i] = Means(Result(p, i), Below(Kid(p, i)))
    <2>1. MayRun(p, i) /\ Fits(p, i, run[Kid(p, i)].routine)
        BY <1>2, PartIs DEF IInv, ShapeInv
    <2>2. Op(p) = "while" => i \in 1..Count(p)
        BY <1>2 DEF IInv, OrderInv, Ordered
    <2>3. i \in 1..N
        BY <2>1, <2>2 DEF MayRun, Fits
    <2>4. run[Kid(p, i)].routine = run[p].routine.do
        BY <2>1 DEF Fits
    <2>5. parts[i] = Part(p, EndsOf(p), i, run[p].routine.do)
        BY <2>3
    <2> HIDE DEF parts, N
    <2> QED
        BY <1>2, <2>3, <2>4, <2>5, PartIs
<1>3. DOMAIN parts = 1..N
    OBVIOUS
<1>4. CASE Op(p) = "for"
    <2>1. Compose(p, EndsOf(p)) = Unless(p, InOrder(p, parts)) /\ N = run[p].routine.items
        BY <1>4 DEF Compose, Op
    <2> HIDE DEF parts, N
    <2> QED
        BY <1>1, <1>2, <1>3, <1>4, <2>1, OrderedMeans DEF Ordered
<1>5. CASE Op(p) = "while"
    <2>1. Compose(p, EndsOf(p)) = After(p, InOrder(p, parts)) /\ N = Count(p)
        BY <1>5 DEF Compose, Op
    <2> HIDE DEF parts, N
    <2> QED
        BY <1>1, <1>2, <1>3, <1>5, <2>1, OrderedMeans DEF Ordered
<1>6. CASE Op(p) = "parallel_for"
    <2>1. Compose(p, EndsOf(p)) = Unless(p, Together(p, parts)) /\ N = run[p].routine.items
        BY <1>6 DEF Compose, Op
    <2>2. NoneRan(p, run[p].result) \/ TogetherAs(p, N, run[p].result)
        BY <1>6, <2>1, EndedIs DEF MadeOf
    <2> HIDE DEF parts, N
    <2> QED
        BY <1>1, <1>2, <1>3, <2>1, <2>2, JoinedMeans
<1> QED
    BY <1>4, <1>5, <1>6

LEMMA TryMeans ==
    ASSUME IInv, MInv, NEW p \in DOMAIN run, Settled(p), Op(p) = "try"
    PROVE  Compose(p, EndsOf(p)) = Means(run[p].result, Below(p))
<1> DEFINE r == run[p].routine
           of == EndsOf(p)
           body == Part(p, of, 1, r.try)
           caught == IF r.catch # <<>> /\ body.result.status = "error"
                     THEN Part(p, of, 2, r.catch[1]) ELSE body
           final == IF r.finally # <<>> THEN Part(p, of, 3, r.finally[1]) ELSE NoPart
<1>1. Compose(p, of) = Means(IF final.result.status = "continue" THEN caught.result ELSE final.result,
                             {p} \cup body.paths \cup caught.paths \cup final.paths)
    BY DEF Compose, Op, Guarded
<1>2. TryAs(p, run[p].result)
    BY EndedIs DEF MadeOf
<1>3. ASSUME NEW i \in Nat, Done(p, i)
      PROVE  /\ Part(p, of, i, run[Kid(p, i)].routine).result = Result(p, i)
             /\ Part(p, of, i, run[Kid(p, i)].routine).paths = Below(Kid(p, i))
             /\ Fits(p, i, run[Kid(p, i)].routine)
             /\ Kid(p, i) \in Kids(p)
    <2>1. Known(Kid(p, i))
        BY <1>3 DEF Done
    <2> QED
        BY <2>1, PartIs, MeansIs
<1>4. Done(p, 1) /\ (Catches(p) => Done(p, 2)) /\ (HasFinally(p) => Done(p, 3))
    BY <1>2 DEF TryAs, BodyDone
<1>5. (r.catch # <<>> <=> HasCatch(p)) /\ (r.finally # <<>> <=> HasFinally(p))
    <2>1. r.catch \in Seq(Routines) /\ r.finally \in Seq(Routines)
        BY PartsOf
    <2> DEFINE c == r.catch
               f == r.finally
    <2>2. (HasCatch(p) <=> Len(c) > 0) /\ (HasFinally(p) <=> Len(f) > 0)
        BY DEF HasCatch, HasFinally
    <2> HIDE DEF c, f
    <2>3. c \in Seq(Routines) /\ f \in Seq(Routines)
        BY <2>1 DEF c, f
    <2>4. (c # <<>> <=> Len(c) > 0) /\ (f # <<>> <=> Len(f) > 0)
        BY <2>3, EmptySeq, LenProperties
    <2> QED
        BY <2>2, <2>4 DEF c, f
<1>6. body.result = Result(p, 1) /\ body.paths = Below(Kid(p, 1))
    BY <1>3, <1>4 DEF Fits
<1>7. Catches(p) <=> r.catch # <<>> /\ body.result.status = "error"
    BY <1>4, <1>5, <1>6 DEF Catches
<1>8. Catches(p) => caught.result = Result(p, 2) /\ caught.paths = Below(Kid(p, 2))
    <2> HIDE DEF body
    <2> SUFFICES ASSUME Catches(p)
                 PROVE  caught.result = Result(p, 2) /\ caught.paths = Below(Kid(p, 2))
        OBVIOUS
    <2>1. caught = Part(p, of, 2, r.catch[1])
        BY <1>7
    <2>2. r.catch[1] = run[Kid(p, 2)].routine
        BY <1>3, <1>4 DEF Fits
    <2> QED
        BY <1>3, <1>4, <2>1, <2>2
<1>9. ~Catches(p) => caught = body
    BY <1>7
<1>10. HasFinally(p) => final.result = Result(p, 3) /\ final.paths = Below(Kid(p, 3))
    <2> SUFFICES ASSUME HasFinally(p)
                 PROVE  final.result = Result(p, 3) /\ final.paths = Below(Kid(p, 3))
        OBVIOUS
    <2>1. final = Part(p, of, 3, r.finally[1])
        BY <1>5
    <2>2. r.finally[1] = run[Kid(p, 3)].routine
        BY <1>3, <1>4 DEF Fits
    <2> QED
        BY <1>3, <1>4, <2>1, <2>2
<1>11. ~HasFinally(p) => final.result = Continue /\ final.paths = {}
    BY <1>5, MeansIs DEF NoPart
<1> HIDE DEF body, caught, final
<1>12. run[p].result = IF final.result.status = "continue" THEN caught.result ELSE final.result
    BY <1>2, <1>6, <1>8, <1>9, <1>10, <1>11 DEF TryAs, BodyResult, Continue
<1>13. Below(p) = {p} \cup body.paths \cup caught.paths \cup final.paths
    <2>1. ASSUME NEW q \in Kids(p)
          PROVE  q = Kid(p, 1) \/ (Catches(p) /\ q = Kid(p, 2)) \/ (HasFinally(p) /\ q = Kid(p, 3))
        <3>1. q = Kid(p, Place(q)) /\ MayRun(p, Place(q))
            BY AtPath
        <3> QED
            BY <3>1 DEF MayRun
    <2>2. \A d : d \in Below(p) <=> d = p \/ \E q \in Kids(p) : d \in Below(q)
        <3>1. Below(p) = {p} \cup UNION {Below(q) : q \in Kids(p)}
            BY EndedIs
        <3> QED
            BY <3>1
    <2>3. /\ Kid(p, 1) \in Kids(p)
          /\ (Catches(p) => Kid(p, 2) \in Kids(p)) /\ (HasFinally(p) => Kid(p, 3) \in Kids(p))
        BY <1>3, <1>4
    <2>4. ASSUME NEW d
          PROVE  d \in Below(p) <=> \/ d = p \/ d \in Below(Kid(p, 1))
                                    \/ Catches(p) /\ d \in Below(Kid(p, 2))
                                    \/ HasFinally(p) /\ d \in Below(Kid(p, 3))
        BY <2>1, <2>2, <2>3
    <2>5. ASSUME NEW d
          PROVE  d \in Below(p) <=> d = p \/ d \in body.paths \/ d \in caught.paths \/ d \in final.paths
        BY <1>6, <1>8, <1>9, <1>10, <1>11, <2>4
    <2> QED
        BY <2>5
<1> QED
    BY <1>1, <1>12, <1>13

LEMMA IfMeans ==
    ASSUME IInv, MInv, NEW p \in DOMAIN run, Settled(p), Op(p) = "if"
    PROVE  Compose(p, EndsOf(p)) = Means(run[p].result, Below(p))
<1> DEFINE r == run[p].routine
           of == EndsOf(p)
           picked == {i \in 1..Len(r.of) : Kid(p, i) \in DOMAIN of}
           branch == CHOOSE i \in picked : TRUE
           m == IF picked = {} THEN NoPart ELSE Part(p, of, branch, r.of[branch])
<1>1. /\ FailedItself(p) => Compose(p, of) = Means(run[p].result, {p})
      /\ ~FailedItself(p) => Compose(p, of) = Means(m.result, {p} \cup m.paths)
    BY DEF Compose, Op, Branch, Unless
<1>2. FailedItself(p) <=> Own(p, run[p].result)
    BY DEF FailedItself, Own
<1>3. CASE Kids(p) = {} /\ Own(p, run[p].result)
    BY <1>1, <1>2, <1>3, NoneBelow
<1>4. Below(p) = {p} \cup UNION {Below(q) : q \in Kids(p)} /\ DOMAIN of = Kids(p) /\ IfAs(p, run[p].result)
    BY EndedIs DEF MadeOf
<1>5. CASE Kids(p) = {} /\ run[p].result = Continue
    <2>1. picked = {} /\ Below(p) = {p}
        BY <1>4, <1>5
    <2>2. m.result = Continue /\ m.paths = {}
        BY <2>1, MeansIs DEF NoPart
    <2>3. ~FailedItself(p)
        BY <1>5, <1>2, PartsOwn
    <2> HIDE DEF m
    <2> QED
        BY <1>1, <1>5, <2>1, <2>2, <2>3
<1>6. ASSUME NEW q \in Kids(p), run[p].result = run[q].result
      PROVE  Compose(p, of) = Means(run[p].result, Below(p))
    <2> DEFINE i == Place(q)
    <2>1. q = Kid(p, i) /\ i \in Nat /\ q \in DOMAIN run
        BY AtPath
    <2>2. /\ Part(p, of, i, run[q].routine).result = run[q].result
          /\ Part(p, of, i, run[q].routine).paths = Below(q)
          /\ Fits(p, i, run[q].routine) /\ GoesOn(p, i)
        <3> HIDE DEF i
        <3> QED
            BY <2>1, PartIs, MeansIs DEF Known, Result
    <2>3. i \in 1..Len(r.of) /\ run[q].routine = r.of[i]
        BY <2>2 DEF Fits
    <2> HIDE DEF i
    <2>4. \A j \in Nat : Kid(p, j) \in DOMAIN run => j = i
        BY <2>2 DEF GoesOn, Known
    <2>5. picked = {i}
        <3>1. i \in picked
            BY <1>4, <2>1, <2>3
        <3>2. ASSUME NEW j \in picked
              PROVE  j = i
            <4>1. Len(r.of) \in Nat
                <5>1. r.of \in Seq(Routines)
                    BY PartsOf
                <5> QED
                    BY <5>1, LenProperties
            <4>2. j \in Nat /\ Kid(p, j) \in Kids(p)
                BY <1>4, <4>1
            <4>3. Kid(p, j) \in DOMAIN run
                BY <4>2 DEF Kids
            <4> QED
                BY <2>4, <4>2, <4>3
        <3> QED
            BY <3>1, <3>2
    <2>6. branch = i
        BY <2>5
    <2>7. m = Part(p, of, i, run[q].routine)
        BY <2>3, <2>5, <2>6
    <2>8. Kids(p) = {q}
        <3>1. ASSUME NEW k \in Kids(p)
              PROVE  k = q
            <4>1. k = Kid(p, Place(k)) /\ Place(k) \in Nat /\ k \in DOMAIN run
                BY AtPath
            <4> QED
                BY <2>1, <2>4, <4>1
        <3> QED
            BY <3>1
    <2> HIDE DEF m
    <2>9. m.result = run[p].result /\ m.paths = Below(q)
        BY <1>6, <2>2, <2>7
    <2>10. Below(p) = {p} \cup Below(q)
        BY <1>4, <2>8
    <2>11. ~FailedItself(p)
        BY <1>6, <1>2, PartsOwn
    <2> QED
        BY <1>1, <2>9, <2>10, <2>11
<1> QED
    BY <1>4, <1>5, <1>6, <1>3 DEF IfAs

LEMMA CallMeans ==
    ASSUME IInv, MInv, NEW p \in DOMAIN run, Settled(p), Op(p) \in {"call", "callApi"}
    PROVE  Compose(p, EndsOf(p)) = Means(run[p].result, Below(p))
<1> DEFINE of == EndsOf(p)
           m == Part(p, of, 1, Endpoints[run[p].routine.endpoint])
<1>1. Compose(p, of) =
          IF Kid(p, 1) \notin DOMAIN of THEN Means(run[p].result, {p})
          ELSE Means(HandedOn(p, m.result), {p} \cup m.paths)
    BY DEF Compose, Op, Delegated
<1>2. Below(p) = {p} \cup UNION {Below(q) : q \in Kids(p)} /\ DOMAIN of = Kids(p) /\ CallAs(p, run[p].result)
    BY EndedIs DEF MadeOf
<1>3. CASE Kids(p) = {}
    <2>1. Below(p) = {p}
        BY <1>2, <1>3
    <2> QED
        BY <1>1, <1>2, <1>3, <2>1
<1>4. CASE /\ Done(p, 1)
           /\ run[p].result = HandedOn(p, Result(p, 1))
    <2>1. Known(Kid(p, 1))
        BY <1>4 DEF Done
    <2>2. /\ Part(p, of, 1, run[Kid(p, 1)].routine).result = Result(p, 1)
          /\ Part(p, of, 1, run[Kid(p, 1)].routine).paths = Below(Kid(p, 1))
          /\ Fits(p, 1, run[Kid(p, 1)].routine)
          /\ Kid(p, 1) \in Kids(p)
        BY <2>1, PartIs, MeansIs
    <2>3. m.result = Result(p, 1) /\ m.paths = Below(Kid(p, 1))
        BY <2>2 DEF Fits
    <2>4. Kids(p) = {Kid(p, 1)}
        <3>1. ASSUME NEW q \in Kids(p)
              PROVE  q = Kid(p, 1)
            BY AtPath DEF MayRun
        <3> QED
            BY <2>2, <3>1
    <2>5. Below(p) = {p} \cup Below(Kid(p, 1))
        BY <1>2, <2>4
    <2> HIDE DEF m
    <2> QED
        BY <1>1, <1>2, <1>4, <2>2, <2>3, <2>5
<1> QED
    BY <1>2, <1>3, <1>4 DEF CallAs

\* A step, return, reject or throw is what it answers.
LEMMA StepMeans ==
    ASSUME IInv, MInv, NEW p \in DOMAIN run, Settled(p),
           Op(p) \notin Ordered \cup {"parallel", "parallel_for", "try", "if", "call", "callApi"}
    PROVE  Compose(p, EndsOf(p)) = Means(run[p].result, Below(p))
<1>1. Compose(p, EndsOf(p)) = Means(run[p].result, {p})
    BY DEF Compose, Op, Ordered
<1>2. Kids(p) = {}
    <2> SUFFICES ASSUME NEW q \in Kids(p)
                 PROVE  FALSE
        OBVIOUS
    <2>1. MayRun(p, Place(q))
        BY AtPath
    <2> QED
        BY <2>1 DEF MayRun, Ordered
<1>3. Below(p) = {p} \cup UNION {Below(q) : q \in Kids(p)}
    BY EndedIs
<1> QED
    BY <1>1, <1>2, <1>3

\* What an activation answers is composed of what its parts answered.
LEMMA Composes ==
    ASSUME IInv, MInv, NEW p \in DOMAIN run, Settled(p)
    PROVE  Compose(p, EndsOf(p)) = Means(run[p].result, Below(p))
BY ListMeans, LoopMeans, TryMeans, IfMeans, CallMeans, StepMeans DEF Ordered

\* So the meaning of each is what it answers: by the number of those below it.
LEMMA MeantIs ==
    ASSUME IInv, MInv
    PROVE  \A p \in Ended : meaning[p] = Means(run[p].result, Below(p))
<1> DEFINE Means1(f) == f = [p \in Ended |-> Compose(p, [q \in Kids(p) \cap Ended |-> f[q]])]
           g == [p \in Ended |-> Means(run[p].result, Below(p))]
<1>1. ASSUME NEW p \in Ended
      PROVE  Compose(p, [q \in Kids(p) \cap Ended |-> g[q]]) = g[p]
    <2>1. [q \in Kids(p) \cap Ended |-> g[q]] = EndsOf(p)
        BY DEF EndsOf
    <2>2. p \in DOMAIN run /\ Settled(p)
        BY DEF Ended
    <2> HIDE DEF g
    <2>3. Compose(p, [q \in Kids(p) \cap Ended |-> g[q]]) = Means(run[p].result, Below(p))
        BY <2>1, <2>2, Composes
    <2> QED
        BY <2>3 DEF g
<1>2. Means1(g)
    <2>1. g = [p \in Ended |-> g[p]]
        OBVIOUS
    <2> HIDE DEF g
    <2> QED
        BY <1>1, <2>1
<1>3. meaning = CHOOSE f : Means1(f)
    BY DEF meaning
<1>4. Means1(meaning)
    <2> HIDE DEF Means1
    <2> QED
        BY <1>2, <1>3
<1>5. \A p \in Ended : meaning[p] = Compose(p, [q \in Kids(p) \cap Ended |-> meaning[q]])
    BY <1>4
<1>6. ASSUME NEW C, C = {p \in Ended : meaning[p] # g[p]}, C # {}
      PROVE  FALSE
    <2> DEFINE size(p) == Cardinality(Below(p))
               T == {size(p) : p \in C}
    <2>1. RunInv /\ PathsInv
        BY DEF IInv
    <2>2. \A p \in C : /\ p \in DOMAIN run /\ p \in Ended /\ size(p) \in Nat
                       /\ \A q \in Kids(p) : size(q) < size(p)
        BY <1>6, <2>1, FewerBelow DEF Ended
    <2> HIDE DEF size, g
    <2>3. T \subseteq Nat /\ T # {}
        BY <1>6, <2>2
    <2>4. PICK n \in T : \A j \in T : n <= j
        <3> HIDE DEF T
        <3> QED
            BY <2>3, LeastIs
    <2>5. PICK p \in C : n = size(p)
        BY <2>4
    <2>6. \A q \in C : size(p) <= size(q)
        BY <2>4, <2>5
    <2>7. ASSUME NEW q \in Kids(p) \cap Ended
          PROVE  meaning[q] = g[q]
        <3>1. CASE q \in C
            BY <2>2, <2>6, <3>1
        <3> QED
            BY <1>6, <3>1
    <2>8. [q \in Kids(p) \cap Ended |-> meaning[q]] = [q \in Kids(p) \cap Ended |-> g[q]]
        BY <2>7
    <2>9. meaning[p] = g[p]
        BY <1>1, <1>5, <2>2, <2>8
    <2> QED
        BY <1>6, <2>9
<1>7. \A p \in Ended : meaning[p] = g[p]
    <2> HIDE DEF g
    <2> QED
        BY <1>6
<1> QED
    BY <1>7

-----------------------------------------------------------------------------
(* What a step keeps of it.                                                 *)

\* The kids of an activation whose parts have ended stay as they are.
LEMMA KeepsKids ==
    ASSUME IInv, Grows, NEW q \in DOMAIN run, AllSettled(q), Kids(q)' = Kids(q)
    PROVE  /\ run'[q].routine = run[q].routine /\ Op(q)' = Op(q) /\ Count(q)' = Count(q)
           /\ \A k \in Kids(q) : run'[k].result = run[k].result
           /\ \A i \in Nat : /\ Known(Kid(q, i))' <=> Known(Kid(q, i))
                             /\ Done(q, i)' <=> Done(q, i)
                             /\ Known(Kid(q, i)) => Done(q, i) /\ Result(q, i)' = Result(q, i)
<1>1. run'[q].routine = run[q].routine /\ Op(q)' = Op(q) /\ Count(q)' = Count(q)
    BY DEF Grows, Op, Count
<1>2. q \in Seq(Nat)
    BY AtPath
<1>3. \A k \in Kids(q) : k \in DOMAIN run /\ Settled(k) /\ k \in DOMAIN run' /\ run'[k].result = run[k].result
    BY DEF Kids, AllSettled, Grows
<1>4. ASSUME NEW i \in Nat
      PROVE  /\ Known(Kid(q, i))' <=> Known(Kid(q, i))
             /\ Done(q, i)' <=> Done(q, i)
             /\ Known(Kid(q, i)) => Done(q, i) /\ Result(q, i)' = Result(q, i)
    <2> DEFINE k == Kid(q, i)
    <2>1. Len(k) = Len(q) + 1 /\ SubSeq(k, 1, Len(q)) = q
        BY <1>2, KidIs, KidsParent
    <2>2. (Known(Kid(q, i)) <=> k \in DOMAIN run) /\ (Known(Kid(q, i))' <=> k \in DOMAIN run')
        BY DEF Known
    <2>3. (Done(q, i) <=> k \in DOMAIN run /\ run[k].result # Pending)
          /\ (Done(q, i)' <=> k \in DOMAIN run' /\ run'[k].result # Pending)
        BY DEF Known, Done, Settled
    <2>4. Result(q, i) = run[k].result /\ Result(q, i)' = run'[k].result
        BY DEF Result
    <2> HIDE DEF k
    <2>5. (k \in DOMAIN run <=> k \in Kids(q)) /\ (k \in DOMAIN run' <=> k \in Kids(q)')
        BY <2>1 DEF Kids
    <2> QED
        BY <1>3, <2>2, <2>3, <2>4, <2>5 DEF Settled
<1> QED
    BY <1>1, <1>3, <1>4

LEMMA KeepsMade ==
    ASSUME IInv, Grows, NEW q \in DOMAIN run, AllSettled(q), Kids(q)' = Kids(q), NEW r, MadeOf(q, r)
    PROVE  MadeOf(q, r)'
<1>1. run'[q].routine = run[q].routine /\ Op(q)' = Op(q) /\ Count(q)' = Count(q)
    BY KeepsKids
<1>2. \A i \in Nat : /\ Known(Kid(q, i))' <=> Known(Kid(q, i))
                     /\ Done(q, i)' <=> Done(q, i)
                     /\ Known(Kid(q, i)) => Done(q, i) /\ Result(q, i)' = Result(q, i)
    BY KeepsKids
<1>3. CASE Op(q) \in Ordered
    <2>1. Count(q) \in Nat /\ \A i \in 1..Count(q) : i \in Nat /\ Known(Kid(q, i))
        BY <1>3, AtPath DEF IInv, OrderInv
    <2>2. \A i \in 1..Count(q) : Result(q, i)' = Result(q, i)
        BY <1>2, <2>1
    <2>3. InOrderAs(q, r)
        BY <1>3 DEF MadeOf
    <2>4. InOrderAs(q, r)'
        <3>1. CASE Count(q) > 0 /\ Result(q, Count(q)).status # "continue" /\ r = Result(q, Count(q))
            <4>1. Result(q, Count(q))' = Result(q, Count(q))
                <5> DEFINE n == Count(q)
                <5>1. n \in 1..n /\ n' = n
                    BY <1>1, <2>1, <3>1
                <5>2. \A i \in 1..n : run'[Kid(q, i)].result = run[Kid(q, i)].result
                    BY <2>2 DEF Result
                <5>3. run'[Kid(q, n)].result = run[Kid(q, n)].result
                    <6> HIDE DEF n
                    <6> QED
                        BY <5>1, <5>2
                <5> QED
                    BY <5>1, <5>3 DEF Result
            <4> QED
                BY <1>1, <3>1, <4>1 DEF InOrderAs
        <3>2. CASE /\ r = Continue
                   /\ \A i \in 1..Count(q) : Result(q, i).status = "continue"
                   /\ Op(q) = "seq" => Len(run[q].routine.of) <= Count(q)
                   /\ Op(q) = "for" => run[q].routine.items <= Count(q)
            BY <1>1, <2>2, <3>2 DEF InOrderAs
        <3>3. CASE /\ Own(q, r) /\ Op(q) # "seq" /\ (Op(q) = "for" => Count(q) = 0)
                   /\ \A i \in 1..Count(q) : Result(q, i).status = "continue"
            BY <1>1, <2>2, <3>3 DEF InOrderAs, Own
        <3> QED
            BY <2>3, <3>1, <3>2, <3>3 DEF InOrderAs
    <2> QED
        BY <1>1, <1>3, <2>4 DEF MadeOf, Ordered
<1>4. ASSUME NEW n \in Nat, TogetherAs(q, n, r)
      PROVE  TogetherAs(q, n, r)'
    <2>1. \A i \in 1..n : i \in Nat /\ Known(Kid(q, i)) /\ Known(Kid(q, i))' /\ Result(q, i)' = Result(q, i)
        BY <1>2, <1>4 DEF TogetherAs
    <2>2. ASSUME NEW status
          PROVE  With(q, n, status)' = With(q, n, status)
        BY <2>1 DEF With
    <2>3. Ruling(q, n)' = Ruling(q, n)
        BY <2>2 DEF Ruling
    <2>4. \A i \in Ruling(q, n) : i \in 1..n
        BY DEF Ruling, With
    <2> QED
        BY <1>4, <2>1, <2>3, <2>4 DEF TogetherAs
<1>5. CASE Op(q) = "parallel"
    <2>1. Len(run[q].routine.of) \in Nat
        <3>1. run[q].routine.of \in Seq(Routines)
            BY <1>5, PartsOf
        <3> QED
            BY <3>1, LenProperties
    <2>2. NoneRan(q, r) \/ TogetherAs(q, Len(run[q].routine.of), r)
        BY <1>5 DEF MadeOf
    <2>3. NoneRan(q, r) => NoneRan(q, r)'
        BY DEF NoneRan, Own
    <2>4. ASSUME ~NoneRan(q, r)
          PROVE  TogetherAs(q, Len(run[q].routine.of), r)'
        <3> SUFFICES ASSUME NEW n \in Nat, n = Len(run[q].routine.of)
                     PROVE  TogetherAs(q, Len(run[q].routine.of), r)'
            BY <2>1
        <3>1. TogetherAs(q, n, r)'
            BY <1>4, <2>2, <2>4
        <3>2. n = Len(run[q].routine.of)'
            BY <1>1
        <3> QED
            BY <3>1, <3>2
    <2> QED
        BY <1>1, <1>5, <2>4, <2>3 DEF MadeOf, Ordered
<1>6. CASE Op(q) = "parallel_for"
    <2>1. run[q].routine.items \in Nat
        BY <1>6, PartsOf
    <2>2. NoneRan(q, r) \/ TogetherAs(q, run[q].routine.items, r)
        BY <1>6 DEF MadeOf
    <2>3. NoneRan(q, r) => NoneRan(q, r)'
        BY DEF NoneRan, Own
    <2>4. ASSUME ~NoneRan(q, r)
          PROVE  TogetherAs(q, run[q].routine.items, r)'
        <3> SUFFICES ASSUME NEW n \in Nat, n = run[q].routine.items
                     PROVE  TogetherAs(q, run[q].routine.items, r)'
            BY <2>1
        <3>1. TogetherAs(q, n, r)'
            BY <1>4, <2>2, <2>4
        <3>2. n = run[q].routine.items'
            BY <1>1
        <3> QED
            BY <3>1, <3>2
    <2> QED
        BY <1>1, <1>6, <2>4, <2>3 DEF MadeOf, Ordered
<1>7. CASE Op(q) = "try"
    <2>1. TryAs(q, r)
        BY <1>7 DEF MadeOf
    <2>2. (HasCatch(q)' <=> HasCatch(q)) /\ (HasFinally(q)' <=> HasFinally(q))
        BY <1>1 DEF HasCatch, HasFinally
    <2>3. \A i \in {1, 2, 3} : /\ Done(q, i)' <=> Done(q, i)
                               /\ Done(q, i) => Result(q, i)' = Result(q, i)
        BY <1>2 DEF Done
    <2>4. Catches(q)' <=> Catches(q)
        BY <2>2, <2>3 DEF Catches
    <2>5. BodyDone(q)' /\ BodyResult(q)' = BodyResult(q)
        BY <2>1, <2>3, <2>4 DEF TryAs, BodyDone, BodyResult
    <2>6. TryAs(q, r)'
        BY <2>1, <2>2, <2>3, <2>5 DEF TryAs
    <2> QED
        BY <1>1, <1>7, <2>6 DEF MadeOf, Ordered
<1>8. CASE Op(q) = "if"
    <2>1. IfAs(q, r)
        BY <1>8 DEF MadeOf
    <2>2. \A k \in Kids(q) : run'[k].result = run[k].result
        BY KeepsKids
    <2>3. IfAs(q, r)'
        BY <2>1, <2>2 DEF IfAs, Own
    <2> QED
        BY <1>1, <1>8, <2>3 DEF MadeOf, Ordered
<1>9. CASE Op(q) \in {"call", "callApi"}
    <2>1. CallAs(q, r)
        BY <1>9 DEF MadeOf
    <2>2. (Done(q, 1)' <=> Done(q, 1)) /\ (Done(q, 1) => Result(q, 1)' = Result(q, 1))
        BY <1>2 DEF Done
    <2>3. CallAs(q, r)'
        BY <1>1, <2>1, <2>2 DEF CallAs, HandedOn
    <2> QED
        BY <1>1, <1>9, <2>3 DEF MadeOf, Ordered
<1>10. CASE Op(q) \notin Ordered \cup {"parallel", "parallel_for", "try", "if", "call", "callApi"}
    BY <1>1, <1>10 DEF MadeOf
<1> QED
    BY <1>3, <1>5, <1>6, <1>7, <1>8, <1>9, <1>10

LEMMA KeepsOn ==
    ASSUME Grows, NEW q \in DOMAIN run, NEW i \in Nat, GoesOn(q, i),
           Op(q) = "if" => \A j \in Nat : Known(Kid(q, j))' => Known(Kid(q, j)) \/ j = i
    PROVE  GoesOn(q, i)'
<1>1. Op(q)' = Op(q)
    BY DEF Grows, Op
<1>2. ASSUME NEW j, Continues(q, j)
      PROVE  Continues(q, j)'
    BY <1>2 DEF Grows, Continues, Done, Known, Settled, Result
<1> QED
    BY <1>1, <1>2 DEF GoesOn

LEMMA KeepsFits ==
    ASSUME Grows, NEW q \in DOMAIN run, NEW i, NEW k, Fits(q, i, k)
    PROVE  Fits(q, i, k)'
<1>1. Op(q)' = Op(q) /\ run'[q].routine = run[q].routine
    BY DEF Grows, Op
<1> QED
    BY <1>1 DEF Fits

\* What p can answer.
Answer(p, r) ==
    /\ r.status \in Statuses
    /\ r.status = "continue" => r = Continue
    /\ r.status = "error" => Len(p) <= Len(r.of)

LEMMA EndsMean ==
    ASSUME IInv, MInv, NEW p \in DOMAIN run, ~Settled(p), AllSettled(p), NEW r, EndsAs(p, r),
           Answer(p, r), MadeOf(p, r)
    PROVE  MInv'
<1>1. /\ DOMAIN run' = DOMAIN run /\ run'[p].result = r /\ Grows
      /\ \A q \in DOMAIN run : q # p => run'[q] = run[q]
    BY AfterEnd DEF IInv
<1>2. StatusInv'
    <2>1. r.status # "pending"
        BY DEF Answer, Statuses
    <2>2. ASSUME NEW q \in DOMAIN run
          PROVE  /\ run'[q].result.status = "continue" => run'[q].result = Continue
                 /\ run'[q].result.status = "pending" => run'[q].result = Pending
                 /\ run'[q].result.status = "error" => Len(q) <= Len(run'[q].result.of)
        BY <1>1, <2>1 DEF MInv, StatusInv, Answer
    <2> QED
        BY <1>1, <2>2 DEF StatusInv, Continue, Pending
<1>3. PartsInv'
    <2> SUFFICES ASSUME NEW q \in DOMAIN run, NEW i \in Nat, Kid(q, i) \in DOMAIN run
                 PROVE  Fits(q, i, run[Kid(q, i)].routine)' /\ GoesOn(q, i)'
        BY <1>1 DEF PartsInv, Known
    <2>1. Fits(q, i, run[Kid(q, i)].routine) /\ GoesOn(q, i)
        BY DEF MInv, PartsInv, Known
    <2>2. GoesOn(q, i)'
        BY <1>1, <2>1, KeepsOn DEF Known
    <2>3. Fits(q, i, run[Kid(q, i)].routine)'
        <3> SUFFICES ASSUME NEW k, k = run[Kid(q, i)].routine
                     PROVE  Fits(q, i, run[Kid(q, i)].routine)'
            OBVIOUS
        <3>1. Fits(q, i, k)' /\ k = run'[Kid(q, i)].routine
            BY <1>1, <2>1, KeepsFits DEF Grows
        <3> QED
            BY <3>1
    <2> QED
        BY <2>2, <2>3
<1>4. AnswersInv'
    <2> SUFFICES ASSUME NEW q \in DOMAIN run, Settled(q)'
                 PROVE  MadeOf(q, run[q].result)'
        BY <1>1 DEF AnswersInv
    <2> SUFFICES ASSUME NEW s, s = run'[q].result
                 PROVE  MadeOf(q, s)'
        OBVIOUS
    <2>1. Kids(q)' = Kids(q)
        BY <1>1 DEF Kids
    <2>2. CASE q = p
        BY <1>1, <2>1, <2>2, KeepsMade
    <2>3. CASE q # p
        <3>1. Settled(q) /\ s = run[q].result
            BY <1>1, <2>3 DEF Settled, Pending
        <3>2. AllSettled(q) /\ MadeOf(q, s)
            BY <3>1, NoneOutlives DEF NothingOutlives, MInv, AnswersInv
        <3> QED
            BY <1>1, <2>1, <3>2, KeepsMade
    <2> QED
        BY <2>2, <2>3
<1> QED
    BY <1>2, <1>3, <1>4 DEF MInv

LEMMA StartsMean ==
    ASSUME IInv, MInv, NEW p \in DOMAIN run, ~Settled(p),
           NEW parts, DOMAIN parts \subseteq Nat, Starts(p, parts),
           \A i \in DOMAIN parts : parts[i].result = Pending /\ Fits(p, i, parts[i].routine),
           Op(p) \in Ordered => /\ DOMAIN parts = {Count(p) + 1}
                                /\ \A j \in 1..Count(p) : Continues(p, j),
           Op(p) = "if" => Kids(p) = {} /\ \E i \in Nat : DOMAIN parts = {i}
    PROVE  MInv'
<1> DEFINE D == DOMAIN parts
           new == {Kid(p, i) : i \in D}
<1>1. RunInv /\ PathsInv
    BY DEF IInv
<1>2. DOMAIN run \subseteq Seq(Nat) /\ p \in Seq(Nat)
    BY <1>1 DEF RunInv
<1>3. run' = [q \in DOMAIN run \cup new |-> IF q \in DOMAIN run THEN run[q] ELSE parts[Place(q)]]
    BY DEF Starts, Known
<1> HIDE DEF new
<1>4. DOMAIN run' = DOMAIN run \cup new /\ \A q \in DOMAIN run : run'[q] = run[q]
    BY <1>3
<1>5. Grows
    BY <1>4 DEF Grows
<1>6. ASSUME NEW q \in DOMAIN run', q \notin DOMAIN run
      PROVE  \E i \in D : q = Kid(p, i) /\ i \in Nat /\ run'[q] = parts[i]
    <2>1. PICK i \in D : q = Kid(p, i)
        BY <1>4, <1>6 DEF new
    <2>2. i \in Nat /\ Place(q) = i
        BY <1>2, <2>1, KidIs
    <2> QED
        BY <1>3, <1>4, <1>6, <2>1, <2>2
<1>7. DOMAIN run' \subseteq Seq(Nat)
    <2> SUFFICES ASSUME NEW q \in DOMAIN run'
                 PROVE  q \in Seq(Nat)
        OBVIOUS
    <2>1. CASE q \in DOMAIN run
        BY <1>2, <2>1
    <2>2. CASE q \notin DOMAIN run
        BY <1>2, <1>6, <2>2, KidIs
    <2> QED
        BY <2>1, <2>2
<1>8. StatusInv'
    <2> SUFFICES ASSUME NEW q \in DOMAIN run'
                 PROVE  /\ run'[q].result.status = "continue" => run'[q].result = Continue
                        /\ run'[q].result.status = "pending" => run'[q].result = Pending
                        /\ run'[q].result.status = "error" => Len(q) <= Len(run'[q].result.of)
        BY DEF StatusInv, Continue, Pending
    <2>1. CASE q \in DOMAIN run
        BY <1>4, <2>1 DEF MInv, StatusInv
    <2>2. CASE q \notin DOMAIN run
        BY <1>6, <2>2 DEF Pending
    <2> QED
        BY <2>1, <2>2
<1>9. PartsInv'
    <2> SUFFICES ASSUME NEW q \in DOMAIN run', NEW i \in Nat, Kid(q, i) \in DOMAIN run'
                 PROVE  Fits(q, i, run[Kid(q, i)].routine)' /\ GoesOn(q, i)'
        BY DEF PartsInv, Known
    <2> SUFFICES ASSUME NEW k, k = run'[Kid(q, i)].routine
                 PROVE  Fits(q, i, k)' /\ GoesOn(q, i)'
        OBVIOUS
    <2>1. q \in Seq(Nat)
        BY <1>7
    <2>2. CASE Kid(q, i) \in DOMAIN run
        <3> DEFINE c == Kid(q, i)
        <3>1. Len(c) = Len(q) + 1 /\ SubSeq(c, 1, Len(q)) = q /\ Len(q) \in Nat /\ c \in DOMAIN run
            BY <2>1, <2>2, KidIs, KidsParent, LenProperties
        <3> HIDE DEF c
        <3>2. Len(q) \in 0..Len(c)
            BY <3>1
        <3>3. SubSeq(c, 1, Len(q)) \in DOMAIN run
            BY <1>1, <3>1, <3>2 DEF PathsInv, Known
        <3>4. q \in DOMAIN run
            BY <3>1, <3>3
        <3>5. Fits(q, i, k) /\ GoesOn(q, i)
            BY <1>4, <2>2, <3>4 DEF MInv, PartsInv, Known
        <3>6. ASSUME Op(q) = "if", NEW j \in Nat, Kid(q, j) \in DOMAIN run'
              PROVE  Kid(q, j) \in DOMAIN run
            <4> SUFFICES ASSUME Kid(q, j) \notin DOMAIN run
                         PROVE  FALSE
                OBVIOUS
            <4>1. PICK n \in D : Kid(q, j) = Kid(p, n) /\ n \in Nat
                BY <1>6, <3>6
            <4>2. q = p
                BY <1>2, <2>1, <4>1, AppendInjective DEF Kid
            <4>3. Kid(q, i) \in Kids(q)
                BY <1>2, <2>1, <2>2, KidsAre DEF Known
            <4> QED
                BY <3>6, <4>2, <4>3
        <3>7. GoesOn(q, i)'
            BY <1>5, <3>4, <3>5, <3>6, KeepsOn DEF Known
        <3> QED
            BY <1>5, <3>4, <3>5, <3>7, KeepsFits
    <2>3. CASE Kid(q, i) \notin DOMAIN run
        <3>1. PICK j \in D : Kid(q, i) = Kid(p, j) /\ j \in Nat /\ run'[Kid(q, i)] = parts[j]
            BY <1>6, <2>3
        <3>2. q = p /\ i = j
            BY <1>2, <2>1, <3>1, AppendInjective DEF Kid
        <3>3. Fits(p, i, k)
            BY <3>1, <3>2
        <3>4. GoesOn(p, i)
            <4>1. CASE Op(p) \in Ordered
                <5>1. Count(p) \in Nat /\ i = Count(p) + 1
                    BY <3>1, <3>2, <4>1, AtPath
                <5>2. \A n \in 1..i - 1 : n \in 1..Count(p)
                    BY <5>1
                <5> QED
                    BY <4>1, <5>2 DEF GoesOn, Ordered
            <4>2. CASE Op(p) = "if"
                <5>1. \A n \in Nat : ~Known(Kid(p, n))
                    BY <1>2, <4>2, KidsAre
                <5> QED
                    BY <4>2, <5>1 DEF GoesOn, Ordered
            <4>3. CASE Op(p) \notin Ordered \cup {"if"}
                BY <4>3 DEF GoesOn
            <4> QED
                BY <4>1, <4>2, <4>3
        <3>5. ASSUME Op(p) = "if", NEW n \in Nat, Kid(p, n) \in DOMAIN run'
              PROVE  Kid(p, n) \in DOMAIN run \/ n = i
            <4> SUFFICES ASSUME Kid(p, n) \notin DOMAIN run
                         PROVE  n = i
                OBVIOUS
            <4>1. PICK m \in D : Kid(p, n) = Kid(p, m) /\ m \in Nat
                BY <1>6, <3>5
            <4>2. n = m
                BY <1>2, <4>1, AppendInjective DEF Kid
            <4>3. PICK one \in Nat : D = {one}
                BY <3>5
            <4> QED
                BY <3>1, <3>2, <4>1, <4>2, <4>3
        <3>6. GoesOn(p, i)'
            BY <1>5, <3>4, <3>5, KeepsOn DEF Known
        <3> QED
            BY <1>5, <3>2, <3>3, <3>6, KeepsFits
    <2> QED
        BY <2>2, <2>3
<1>10. AnswersInv'
    <2> SUFFICES ASSUME NEW q \in DOMAIN run', Settled(q)'
                 PROVE  MadeOf(q, run[q].result)'
        BY DEF AnswersInv
    <2> SUFFICES ASSUME NEW s, s = run'[q].result
                 PROVE  MadeOf(q, s)'
        OBVIOUS
    <2>1. q \in DOMAIN run
        BY <1>6 DEF Settled
    <2>2. Settled(q) /\ s = run[q].result /\ q # p
        BY <1>4, <2>1 DEF Settled
    <2>3. AllSettled(q) /\ MadeOf(q, s)
        BY <2>1, <2>2, NoneOutlives DEF NothingOutlives, MInv, AnswersInv
    <2>4. Kids(q)' = Kids(q)
        BY <1>1, <1>4, <2>1, <2>2, KidsAfterStart DEF new
    <2> QED
        BY <1>5, <2>1, <2>3, <2>4, KeepsMade
<1> QED
    BY <1>8, <1>9, <1>10 DEF MInv

-----------------------------------------------------------------------------
(* The actions, again.                                                      *)

\* Actions that start one part.
LEMMA StartMeans ==
    ASSUME IInv, MInv, NEW p \in DOMAIN run, ~Settled(p), NEW i \in Nat, NEW r, NEW ctx,
           Start(p, i, r, ctx), Fits(p, i, r),
           Op(p) \in Ordered => i = Count(p) + 1 /\ \A j \in 1..Count(p) : Continues(p, j),
           Op(p) = "if" => Kids(p) = {}
    PROVE  MInv'
<1> DEFINE parts == [j \in {i} |-> Activation(r, ctx)]
<1>1. DOMAIN parts = {i} /\ parts[i] = Activation(r, ctx)
    OBVIOUS
<1>2. Starts(p, parts)
    BY DEF Start
<1> HIDE DEF parts
<1>3. parts[i].result = Pending /\ parts[i].routine = r
    BY <1>1 DEF Activation
<1> QED
    BY <1>1, <1>2, <1>3, StartsMean

LEMMA EndMeans ==
    ASSUME IInv, MInv, NEW p \in DOMAIN run, ~Settled(p), AllSettled(p), NEW r, Ends(p, r),
           Answer(p, r), MadeOf(p, r)
    PROVE  MInv'
BY EndsMean DEF Ends, EndsAs

\* What a part of p that has ended answered, p can answer.
LEMMA AnswerIs ==
    ASSUME IInv, MInv, NEW p \in DOMAIN run
    PROVE  /\ Answer(p, Continue)
           /\ \A q \in Kids(p) : Settled(q) => Answer(p, run[q].result)
           /\ \A i \in Nat : Done(p, i) => Answer(p, Result(p, i))
<1>1. Answer(p, Continue)
    BY DEF Answer, Continue, Statuses
<1>2. ASSUME NEW q \in Kids(p), Settled(q)
      PROVE  Answer(p, run[q].result)
    <2> DEFINE r == run[q].result
    <2>1. q \in DOMAIN run /\ Len(q) = Len(p) + 1
        BY DEF Kids
    <2>2. r \in Results
        BY <2>1 DEF IInv, RunInv, Activations
    <2>3. r.status \in Statuses \cup {"pending"} /\ Len(r.of) \in Nat /\ Len(p) \in Nat
        BY <2>2, AtPath, LenProperties DEF Results
    <2>4. /\ r.status = "continue" => r = Continue
          /\ r.status # "pending"
          /\ r.status = "error" => Len(p) + 1 <= Len(r.of)
        BY <1>2, <2>1 DEF MInv, StatusInv, Settled
    <2> HIDE DEF r
    <2> QED
        BY <2>3, <2>4 DEF Answer, r
<1>3. ASSUME NEW i \in Nat, Done(p, i)
      PROVE  Answer(p, Result(p, i))
    <2>1. Kid(p, i) \in Kids(p) /\ Settled(Kid(p, i))
        BY <1>3, KidsAre DEF IInv, RunInv, Done
    <2> QED
        BY <1>2, <2>1 DEF Result
<1> QED
    BY <1>1, <1>2, <1>3

\* An error that p throws, or what p logs, or else answers by itself.
LEMMA OwnMeans ==
    ASSUME IInv, MInv, NEW p \in DOMAIN run, ~Settled(p),
           Kids(p) = {} \/ Op(p) \in {"step", "return", "reject", "throw"},
           Op(p) \notin Ordered \cup {"parallel", "parallel_for", "try", "if"},
           NEW r, Answer(p, r), EndsAs(p, r)
    PROVE  MInv'
<1>1. AllSettled(p)
    BY NoParts
<1>2. MadeOf(p, r)
    BY DEF MadeOf, CallAs
<1> QED
    BY <1>1, <1>2, EndsMean

\* An error of p's own.
LEMMA OwnErrorIs ==
    ASSUME IInv, NEW p \in DOMAIN run, NEW class, Throws(p, p, class)
    PROVE  \E r : EndsAs(p, r) /\ Answer(p, r) /\ Own(p, r)
<1> DEFINE r == [status |-> "error", of |-> p, class |-> class]
<1>1. Len(p) \in Nat
    BY AtPath, LenProperties
<1>2. EndsAs(p, r) /\ Answer(p, r) /\ Own(p, r)
    BY <1>1 DEF Throws, EndsAs, Answer, Statuses, Own
<1> HIDE DEF r
<1> QED
    BY <1>2

\* A control fails by itself: before its parts, or a :while between them.
LEMMA FailsMean ==
    ASSUME IInv, MInv, NEW p \in DOMAIN run, ~Settled(p), Fails(p), AllSettled(p), Op(p) \notin {"seq", "try"},
           \/ Kids(p) = {}
           \/ Op(p) = "while" /\ \A i \in 1..Count(p) : Result(p, i).status = "continue"
    PROVE  MInv'
<1>1. PICK class \in Faults : Throws(p, p, class)
    BY DEF Fails
<1>2. PICK r : EndsAs(p, r) /\ Answer(p, r) /\ Own(p, r)
    BY <1>1, OwnErrorIs
<1>3. Kids(p) = {} => Count(p) = 0
    BY AtPath
<1>4. Op(p) \in Ordered => InOrderAs(p, r)
    BY <1>2, <1>3 DEF InOrderAs
<1>5. Op(p) \notin Ordered => Kids(p) = {}
    BY DEF Ordered
<1>6. MadeOf(p, r)
    BY <1>2, <1>4, <1>5 DEF MadeOf, NoneRan, IfAs, CallAs, Ordered
<1> QED
    BY <1>2, <1>6, EndsMean

LEMMA StepEndsMeans ==
    ASSUME IInv, MInv, NEW p \in DOMAIN run, StepEnds(p)
    PROVE  MInv'
<1>1. ~Settled(p) /\ Op(p) = "step"
    BY DEF StepEnds, Active
<1>2. CASE Ends(p, Continue)
    BY <1>1, <1>2, AnswerIs, OwnMeans DEF Ends, EndsAs, Ordered
<1>3. ASSUME NEW class \in Classes, Throws(p, p, class)
      PROVE  MInv'
    BY <1>1, <1>3, OwnErrorIs, OwnMeans DEF Ordered
<1> QED
    BY <1>2, <1>3 DEF StepEnds

LEMMA LogMeans ==
    ASSUME IInv, MInv, NEW p \in DOMAIN run, Returns(p) \/ Rejects(p) \/ ThrowsNew(p)
    PROVE  MInv'
<1>1. ~Settled(p) /\ Op(p) \in {"return", "reject", "throw"}
    BY DEF Returns, Rejects, ThrowsNew, Active
<1>2. ASSUME NEW status \in {"return", "reject", "error"}, NEW class,
             EndsAs(p, [status |-> status, of |-> p, class |-> class])
      PROVE  MInv'
    <2> DEFINE r == [status |-> status, of |-> p, class |-> class]
    <2>1. Len(p) \in Nat
        BY AtPath, LenProperties
    <2>2. EndsAs(p, r) /\ Answer(p, r)
        BY <1>2, <2>1 DEF Answer, Statuses
    <2> HIDE DEF r
    <2> QED
        BY <1>1, <2>2, OwnMeans DEF Ordered
<1>3. CASE Fails(p)
    BY <1>1, <1>3, OwnErrorIs, OwnMeans DEF Fails, Ordered
<1> QED
    BY <1>2, <1>3 DEF Returns, Rejects, ThrowsNew, Ends, Logs, EndsAs

LEMMA InvokesMeans ==
    ASSUME IInv, MInv, NEW p \in DOMAIN run, ~Settled(p), Op(p) \in {"call", "callApi"},
           NEW caught, Invokes(p, caught)
    PROVE  MInv'
<1>1. Kids(p) = {}
    BY AtPath DEF Invokes
<1>2. ASSUME NEW class, Throws(p, p, class)
      PROVE  MInv'
    BY <1>1, <1>2, OwnErrorIs, OwnMeans DEF Ordered
<1>3. CASE Start(p, 1, Endpoints[run[p].routine.endpoint], Called(p, caught))
    <2>1. Fits(p, 1, Endpoints[run[p].routine.endpoint])
        BY DEF Fits
    <2> QED
        BY <1>3, <2>1, StartMeans DEF Ordered
<1> QED
    BY <1>2, <1>3 DEF Invokes, Fails

LEMMA CallsMean ==
    ASSUME IInv, MInv, NEW p \in DOMAIN run, CallsEndpoint(p) \/ CallsApi(p)
    PROVE  MInv'
<1>1. ~Settled(p) /\ Op(p) \in {"call", "callApi"}
    BY DEF CallsEndpoint, CallsApi, Active
<1>2. ASSUME NEW caught, Invokes(p, caught)
      PROVE  MInv'
    BY <1>1, <1>2, InvokesMeans
<1> DEFINE s == Result(p, 1)
           r == HandedOn(p, s)
<1>3. ASSUME Done(p, 1), EndsAs(p, r)
      PROVE  MInv'
    <2>1. AllSettled(p)
        BY <1>1, <1>3, CallDone
    <2>2. Answer(p, s) /\ Answer(p, Continue) /\ Len(p) \in Nat
        BY <1>3, AnswerIs, AtPath, LenProperties
    <2>3. Answer(p, r)
        <3> HIDE DEF s
        <3> QED
            BY <2>2 DEF HandedOn, Answer, Statuses
    <2>4. MadeOf(p, r)
        BY <1>1, <1>3 DEF MadeOf, CallAs, Ordered
    <2> HIDE DEF r
    <2> QED
        BY <1>1, <1>3, <2>1, <2>3, <2>4, EndsMean
<1>4. CASE CallsEndpoint(p)
    <2>1. Op(p) = "call"
        BY <1>4 DEF CallsEndpoint, Active
    <2>2. r = IF s.status \in {"error", "reject"} THEN s ELSE Continue
        BY <2>1 DEF HandedOn, Op
    <2> HIDE DEF r
    <2> QED
        BY <1>2, <1>3, <1>4, <2>2 DEF CallsEndpoint, Ends, EndsAs
<1>5. CASE CallsApi(p)
    <2>1. Op(p) = "callApi"
        BY <1>5 DEF CallsApi, Active
    <2>2. r = IF s.status = "error" /\ s.class = "untyped"
              THEN [status |-> "error", of |-> p, class |-> "request"]
              ELSE IF s.status \in {"error", "reject"} THEN s ELSE Continue
        BY <2>1 DEF HandedOn, Op
    <2> HIDE DEF r
    <2>3. CASE \E caught : Invokes(p, caught)
        BY <1>2, <2>3
    <2>4. ASSUME Count(p) = 0, NEW class, Throws(p, p, class)
          PROVE  MInv'
        <3>1. Kids(p) = {}
            BY <2>4, AtPath
        <3> QED
            BY <1>1, <2>4, <3>1, OwnErrorIs, OwnMeans DEF Ordered
    <2>5. CASE Done(p, 1) /\ s.status = "error" /\ s.class = "untyped" /\ Throws(p, p, "request")
        <3>1. EndsAs(p, r)
            BY <2>2, <2>5 DEF Throws, EndsAs
        <3> QED
            BY <1>3, <2>5, <3>1
    <2>6. CASE Done(p, 1) /\ s.status = "error" /\ s.class # "untyped" /\ Throws(p, s.of, s.class)
        <3>1. s \in Results /\ r = s
            BY <2>2, <2>6, AtResult DEF Done, Known, Result, Endable
        <3>2. s = [status |-> "error", of |-> s.of, class |-> s.class]
            <4> HIDE DEF s
            <4> QED
                BY <2>6, <3>1 DEF Results
        <3>3. EndsAs(p, s)
            <4> HIDE DEF s
            <4> QED
                BY <2>6, <3>2 DEF Throws, EndsAs
        <3> QED
            BY <1>3, <2>6, <3>1, <3>3
    <2>7. CASE Done(p, 1) /\ s.status = "reject" /\ Ends(p, s)
        BY <1>3, <2>2, <2>7 DEF Ends, EndsAs
    <2>8. CASE Done(p, 1) /\ s.status \notin {"error", "reject"} /\ Ends(p, Continue)
        BY <1>3, <2>2, <2>8 DEF Ends, EndsAs
    <2> QED
        BY <1>5, <2>3, <2>4, <2>5, <2>6, <2>7, <2>8 DEF CallsApi
<1> QED
    BY <1>4, <1>5

\* Parts in order that have all ended, and have not stopped, have all continued.
LEMMA OrderedOn ==
    ASSUME IInv, MInv, NEW p \in DOMAIN run, Op(p) \in Ordered, AllSettled(p)
    PROVE  /\ \A i \in 1..Count(p) : i \in Nat /\ Done(p, i)
           /\ ~Stopped(p) => \A j \in 1..Count(p) : Continues(p, j)
<1> DEFINE n == Count(p)
<1>1. n \in Nat /\ \A i \in Nat : Known(Kid(p, i)) <=> i \in 1..n
    BY AtPath DEF IInv, OrderInv
<1>2. \A i \in 1..n : i \in Nat /\ Done(p, i) /\ Kid(p, i) \in DOMAIN run
    <2> TAKE i \in 1..n
    <2>1. i \in Nat /\ Known(Kid(p, i))
        BY <1>1
    <2>2. Kid(p, i) \in Kids(p)
        BY <2>1, KidsAre DEF IInv, RunInv
    <2> QED
        BY <1>1, <2>1, <2>2 DEF AllSettled, Done, Known
<1>3. n > 0 => n \in 1..n
    BY <1>1
<1>4. n > 0 => \A j \in 1..n - 1 : Continues(p, j)
    <2> SUFFICES ASSUME n > 0
                 PROVE  \A j \in 1..n - 1 : Continues(p, j)
        OBVIOUS
    <2>1. n \in Nat /\ Known(Kid(p, n))
        <3> HIDE DEF n
        <3> QED
            BY <1>1, <1>3
    <2>2. GoesOn(p, n)
        BY <2>1 DEF MInv, PartsInv
    <2> QED
        BY <2>2 DEF GoesOn
<1>5. ASSUME ~Stopped(p)
      PROVE  \A j \in 1..n : Continues(p, j)
    <2> TAKE j \in 1..n
    <2>1. CASE j = n
        <3>1. n > 0 /\ Done(p, n) /\ Result(p, n).status = "continue"
            <4>1. ~(n > 0 /\ Result(p, n).status # "continue")
                BY <1>5 DEF Stopped
            <4> HIDE DEF n
            <4> QED
                BY <1>1, <1>2, <2>1, <4>1
        <3> QED
            BY <2>1, <3>1 DEF Continues
    <2>2. CASE j # n
        <3>1. j \in 1..n - 1 /\ n > 0
            BY <1>1, <2>2
        <3> QED
            BY <1>4, <3>1
    <2> QED
        BY <2>1, <2>2
<1> QED
    BY <1>2, <1>5

LEMMA OneByOneMeans ==
    ASSUME IInv, MInv, NEW p \in DOMAIN run, ~Settled(p), Op(p) \in Ordered,
           NEW more \in BOOLEAN, NEW r, NEW ctx,
           more => Fits(p, Count(p) + 1, r),
           ~more /\ Op(p) = "seq" => Len(run[p].routine.of) <= Count(p),
           ~more /\ Op(p) = "for" => run[p].routine.items <= Count(p),
           OneByOne(p, more, r, ctx)
    PROVE  MInv'
<1> DEFINE n == Count(p)
<1>1. AllSettled(p) /\ n \in Nat
    BY AtPath DEF OneByOne
<1>2. CASE Stopped(p) /\ Ends(p, Result(p, n))
    <2> DEFINE s == Result(p, n)
    <2>1. Answer(p, s)
        <3>1. n \in Nat /\ n \in 1..n
            BY <1>1, <1>2 DEF Stopped
        <3>2. Done(p, n)
            <4>1. \A i \in 1..n : Done(p, i)
                BY <1>1, OrderedOn
            <4> HIDE DEF n
            <4> QED
                BY <3>1, <4>1
        <3> HIDE DEF n
        <3> QED
            BY <3>1, <3>2, AnswerIs
    <2>2. InOrderAs(p, s)
        BY <1>2 DEF InOrderAs, Stopped
    <2>3. MadeOf(p, s)
        BY <2>2 DEF MadeOf, Ordered
    <2>4. Ends(p, s)
        BY <1>2
    <2> HIDE DEF s
    <2> QED
        BY <1>1, <2>1, <2>3, <2>4, EndMeans
<1>3. ~Stopped(p) => \A j \in 1..n : Continues(p, j)
    BY <1>1, OrderedOn
<1>4. CASE ~Stopped(p) /\ more /\ Start(p, n + 1, r, ctx)
    <2>1. n + 1 \in Nat
        BY <1>1
    <2> QED
        BY <1>3, <1>4, <2>1, StartMeans DEF Ordered
<1>5. CASE ~Stopped(p) /\ ~more /\ Ends(p, Continue)
    <2>1. \A i \in 1..n : Result(p, i).status = "continue"
        BY <1>3, <1>5 DEF Continues
    <2>2. InOrderAs(p, Continue)
        BY <1>5, <2>1 DEF InOrderAs
    <2>3. MadeOf(p, Continue)
        BY <2>2 DEF MadeOf, Ordered
    <2> QED
        BY <1>1, <1>5, <2>3, AnswerIs, EndMeans
<1> QED
    BY <1>2, <1>4, <1>5 DEF OneByOne

LEMMA LoopsMean ==
    ASSUME IInv, MInv, NEW p \in DOMAIN run, Sequence(p) \/ For(p) \/ While(p)
    PROVE  MInv'
<1>1. CASE Sequence(p)
    <2> DEFINE of == run[p].routine.of
               more == Count(p) < Len(of)
               r == IF more THEN of[Count(p) + 1] ELSE of
    <2>1. ~Settled(p) /\ Op(p) = "seq" /\ OneByOne(p, more, r, run[p].ctx)
        BY <1>1 DEF Sequence, Active
    <2>2. Count(p) \in Nat /\ Len(of) \in Nat
        <3>1. of \in Seq(Routines)
            BY <2>1, PartsOf
        <3> QED
            BY <3>1, AtPath, LenProperties
    <2>3. more => Fits(p, Count(p) + 1, r)
        BY <2>1, <2>2 DEF Fits
    <2>4. ~more => Len(run[p].routine.of) <= Count(p)
        BY <2>2
    <2>5. more \in BOOLEAN
        OBVIOUS
    <2> HIDE DEF more, r
    <2> QED
        BY <2>1, <2>3, <2>4, <2>5, OneByOneMeans DEF Ordered
<1>2. CASE For(p)
    <2> DEFINE more == Count(p) < run[p].routine.items
               r == run[p].routine.do
    <2>1. /\ ~Settled(p) /\ Op(p) = "for"
          /\ OneByOne(p, more, r, ItemContext(p, Count(p) + 1)) \/ (Count(p) = 0 /\ Fails(p))
        BY <1>2 DEF For, Active
    <2>2. Count(p) \in Nat /\ run[p].routine.items \in Nat
        BY <2>1, AtPath, PartsOf
    <2>3. more => Fits(p, Count(p) + 1, r)
        BY <2>1, <2>2 DEF Fits
    <2>4. ~more => run[p].routine.items <= Count(p)
        BY <2>2
    <2>5. more \in BOOLEAN
        OBVIOUS
    <2>6. CASE Count(p) = 0 /\ Fails(p)
        BY <2>1, <2>6, AtPath, NoParts, FailsMean
    <2> HIDE DEF more, r
    <2> QED
        BY <2>1, <2>3, <2>4, <2>5, <2>6, OneByOneMeans DEF Ordered
<1>3. CASE While(p)
    <2>1. ~Settled(p) /\ Op(p) = "while"
        BY <1>3 DEF While, Active
    <2>2. ASSUME NEW holds \in BOOLEAN, OneByOne(p, holds, run[p].routine.do, run[p].ctx)
          PROVE  MInv'
        <3>1. Fits(p, Count(p) + 1, run[p].routine.do)
            BY <2>1 DEF Fits
        <3> QED
            BY <2>1, <2>2, <3>1, OneByOneMeans DEF Ordered
    <2>3. CASE AllSettled(p) /\ ~Stopped(p) /\ Fails(p)
        <3>1. \A i \in 1..Count(p) : Result(p, i).status = "continue"
            BY <2>1, <2>3, OrderedOn DEF Ordered, Continues
        <3> QED
            BY <2>1, <2>3, <3>1, FailsMean
    <2> QED
        BY <1>3, <2>2, <2>3 DEF While
<1> QED
    BY <1>1, <1>2, <1>3

LEMMA IfStepMeans ==
    ASSUME IInv, MInv, NEW p \in DOMAIN run, If(p)
    PROVE  MInv'
<1>1. ~Settled(p) /\ Op(p) = "if" /\ AllSettled(p)
    BY DEF If, Active
<1> DEFINE of == run[p].routine.of
<1>2. ASSUME Count(p) = 0, NEW i \in 1..Len(of), Start(p, i, of[i], run[p].ctx)
      PROVE  MInv'
    <2>1. of \in Seq(Routines)
        BY <1>1, PartsOf
    <2>2. i \in Nat
        <3> HIDE DEF of
        <3> QED
            BY <2>1, LenProperties
    <2>3. Fits(p, i, of[i])
        BY <1>1 DEF Fits
    <2>4. Kids(p) = {}
        BY <1>2, AtPath
    <2> QED
        BY <1>1, <1>2, <2>2, <2>3, <2>4, StartMeans DEF Ordered
<1>3. ASSUME NEW q \in Kids(p), Ends(p, run[q].result)
      PROVE  MInv'
    <2>1. Answer(p, run[q].result)
        BY <1>1, AnswerIs DEF AllSettled
    <2>2. MadeOf(p, run[q].result)
        BY <1>1 DEF MadeOf, IfAs, Ordered
    <2> QED
        BY <1>1, <1>3, <2>1, <2>2, EndMeans
<1>4. CASE Count(p) = 0 /\ Ends(p, Continue)
    <2>1. MadeOf(p, Continue)
        BY <1>1, <1>4, AtPath DEF MadeOf, IfAs, Ordered
    <2> QED
        BY <1>1, <1>4, <2>1, AnswerIs, EndMeans
<1>5. CASE Count(p) = 0 /\ Fails(p)
    BY <1>1, <1>5, AtPath, FailsMean
<1> QED
    BY <1>2, <1>3, <1>4, <1>5 DEF If

\* Parallel parts that have all ended make up what they are joined to.
LEMMA JoinedIsMade ==
    ASSUME IInv, MInv, NEW p \in DOMAIN run, NEW n \in Nat, AllDone(p, n)
    PROVE  TogetherAs(p, n, Joined(p, n)) /\ Answer(p, Joined(p, n))
<1> DEFINE has(status) == \E i \in 1..n : Result(p, i).status = status
           first(status) == First(p, status, n)
           r == Joined(p, n)
<1>1. \A status : has(status) <=> With(p, n, status) # {}
    BY DEF With
<1>2. ASSUME NEW status, has(status), With(p, n, status) = Ruling(p, n), r = Result(p, first(status))
      PROVE  \E i \in Ruling(p, n) : (\A j \in Ruling(p, n) : i <= j) /\ r = Result(p, i)
    <2>1. /\ first(status) \in 1..n /\ Result(p, first(status)).status = status
          /\ \A j \in 1..n : Result(p, j).status = status => first(status) <= j
        BY <1>2, FirstIs
    <2> HIDE DEF first, r
    <2>2. first(status) \in With(p, n, status) /\ \A j \in With(p, n, status) : first(status) <= j
        BY <2>1 DEF With
    <2> QED
        BY <1>2, <2>2
<1>3. \/ Ruling(p, n) = {} /\ r = Continue
      \/ \E i \in Ruling(p, n) : (\A j \in Ruling(p, n) : i <= j) /\ r = Result(p, i)
    <2>1. CASE has("error")
        <3>1. Ruling(p, n) = With(p, n, "error") /\ r = Result(p, first("error"))
            BY <1>1, <2>1 DEF Ruling, Joined
        <3> HIDE DEF has, first, r
        <3> QED
            BY <1>2, <2>1, <3>1
    <2>2. CASE ~has("error") /\ has("reject")
        <3>1. Ruling(p, n) = With(p, n, "reject") /\ r = Result(p, first("reject"))
            BY <1>1, <2>2 DEF Ruling, Joined
        <3> HIDE DEF has, first, r
        <3> QED
            BY <1>2, <2>2, <3>1
    <2>3. CASE ~has("error") /\ ~has("reject") /\ has("return")
        <3>1. Ruling(p, n) = With(p, n, "return") /\ r = Result(p, first("return"))
            BY <1>1, <2>3 DEF Ruling, Joined
        <3> HIDE DEF has, first, r
        <3> QED
            BY <1>2, <2>3, <3>1
    <2>4. CASE ~has("error") /\ ~has("reject") /\ ~has("return")
        BY <1>1, <2>4 DEF Ruling, Joined
    <2> QED
        BY <2>1, <2>2, <2>3, <2>4
<1>4. \A i \in 1..n : Known(Kid(p, i)) /\ Answer(p, Result(p, i))
    BY AnswerIs DEF AllDone, Done
<1>5. Answer(p, r)
    BY <1>4, AnswerIs, JoinedIs
<1> QED
    BY <1>3, <1>4, <1>5 DEF TogetherAs

LEMMA JoinedStepMeans ==
    ASSUME IInv, MInv, NEW p \in DOMAIN run, ~Settled(p), NEW n \in Nat, AllDone(p, n),
           \A i \in Nat : MayRun(p, i) => i \in 1..n, Ends(p, Joined(p, n)),
           \/ Op(p) = "parallel" /\ n = Len(run[p].routine.of)
           \/ Op(p) = "parallel_for" /\ n = run[p].routine.items
    PROVE  MInv'
<1> DEFINE r == Joined(p, n)
<1>1. AllSettled(p)
    BY AtPath DEF AllSettled, AllDone, Done
<1>2. TogetherAs(p, n, r) /\ Answer(p, r)
    BY JoinedIsMade
<1> HIDE DEF r
<1>3. MadeOf(p, r)
    BY <1>2 DEF MadeOf, Ordered
<1> QED
    BY <1>1, <1>2, <1>3, EndMeans DEF r

LEMMA ParallelMeans ==
    ASSUME IInv, MInv, NEW p \in DOMAIN run, Parallel(p)
    PROVE  MInv'
<1>1. ~Settled(p) /\ Op(p) = "parallel"
    BY DEF Parallel, Active
<1> DEFINE of == run[p].routine.of
           parts == [i \in 1..Len(of) |-> Activation(of[i], run[p].ctx)]
<1>2. Len(of) \in Nat
    <2>1. of \in Seq(Routines)
        BY <1>1, PartsOf
    <2> QED
        BY <2>1, LenProperties
<1>3. CASE Starts(p, parts)
    <2>1. DOMAIN parts = 1..Len(of) /\ DOMAIN parts \subseteq Nat
        BY <1>2
    <2>2. ASSUME NEW i \in DOMAIN parts
          PROVE  parts[i].result = Pending /\ Fits(p, i, parts[i].routine)
        BY <1>1 DEF Activation, Fits
    <2> HIDE DEF parts
    <2> QED
        BY <1>1, <1>3, <2>1, <2>2, StartsMean DEF Ordered
<1>4. CASE AllDone(p, Len(of)) /\ Ends(p, Joined(p, Len(of)))
    <2>1. \A i \in Nat : MayRun(p, i) => i \in 1..Len(of)
        BY <1>1 DEF MayRun
    <2> QED
        BY <1>1, <1>2, <1>4, <2>1, JoinedStepMeans
<1>5. CASE Count(p) = 0 /\ Fails(p)
    BY <1>1, <1>5, AtPath, NoParts, FailsMean
<1> QED
    BY <1>3, <1>4, <1>5 DEF Parallel

LEMMA ParallelForMeans ==
    ASSUME IInv, MInv, NEW p \in DOMAIN run, ParallelFor(p)
    PROVE  MInv'
<1>1. ~Settled(p) /\ Op(p) = "parallel_for"
    BY DEF ParallelFor, Active
<1> DEFINE items == run[p].routine.items
           r == run[p].routine.do
           taken == {i \in Count(p) + 1 .. items : i <= Count(p) + FreeLanes(p)}
           parts == [i \in taken |-> Activation(r, ItemContext(p, i))]
<1>2. items \in Nat /\ Count(p) \in Nat
    <2>1. Count(p) \in Nat
        BY AtPath
    <2> QED
        BY <1>1, <2>1, PartsOf
<1>3. CASE Starts(p, parts)
    <2>1. DOMAIN parts \subseteq Nat
        BY <1>2
    <2>2. ASSUME NEW i \in DOMAIN parts
          PROVE  parts[i].result = Pending /\ Fits(p, i, parts[i].routine)
        <3>1. parts[i] = Activation(r, ItemContext(p, i))
            OBVIOUS
        <3> HIDE DEF parts
        <3> QED
            BY <1>1, <3>1 DEF Activation, Fits
    <2> HIDE DEF parts
    <2> QED
        BY <1>1, <1>3, <2>1, <2>2, StartsMean DEF Ordered
<1>4. CASE AllDone(p, items) /\ Ends(p, Joined(p, items))
    <2>1. \A i \in Nat : MayRun(p, i) => i \in 1..items
        BY <1>1 DEF MayRun
    <2> QED
        BY <1>1, <1>2, <1>4, <2>1, JoinedStepMeans
<1>5. CASE Count(p) = 0 /\ Fails(p)
    BY <1>1, <1>5, AtPath, NoParts, FailsMean
<1> QED
    BY <1>3, <1>4, <1>5 DEF ParallelFor

LEMMA TryStepMeans ==
    ASSUME IInv, MInv, NEW p \in DOMAIN run, Try(p)
    PROVE  MInv'
<1> DEFINE r == run[p].routine
<1>1. ~Settled(p) /\ Op(p) = "try"
    BY DEF Try, Active
<1>2. \A i \in {1, 2, 3} : Done(p, i) => Answer(p, Result(p, i))
    BY AnswerIs
<1>3. BodyDone(p) => Answer(p, BodyResult(p))
    BY <1>2 DEF BodyDone, BodyResult
<1>4. ASSUME NEW i \in Nat, NEW k, NEW ctx, Start(p, i, k, ctx), Fits(p, i, k)
      PROVE  MInv'
    BY <1>1, <1>4, StartMeans DEF Ordered
<1>5. ASSUME NEW a, Ends(p, a), Answer(p, a), TryAs(p, a)
      PROVE  MInv'
    <2>1. AllSettled(p)
        BY <1>1, <1>5, TryIsOver DEF TryAs
    <2>2. MadeOf(p, a)
        BY <1>1, <1>5 DEF MadeOf, Ordered
    <2> QED
        BY <1>1, <1>5, <2>1, <2>2, EndMeans
<1>6. CASE Start(p, 1, r.try, TryContext(p))
    <2>1. Fits(p, 1, r.try)
        BY <1>1 DEF Fits
    <2> QED
        BY <1>4, <1>6, <2>1
<1>7. CASE Start(p, 2, r.catch[1], run[p].ctx)
    <2>1. Fits(p, 2, r.catch[1])
        BY <1>1 DEF Fits
    <2> QED
        BY <1>4, <1>7, <2>1
<1>8. CASE Start(p, 3, r.finally[1], run[p].ctx)
    <2>1. Fits(p, 3, r.finally[1])
        BY <1>1 DEF Fits
    <2> QED
        BY <1>4, <1>8, <2>1
<1>9. CASE BodyDone(p) /\ ~HasFinally(p) /\ Ends(p, BodyResult(p))
    <2>1. TryAs(p, BodyResult(p))
        BY <1>9 DEF TryAs
    <2> QED
        BY <1>3, <1>5, <1>9, <2>1
<1> DEFINE a == IF Result(p, 3).status = "continue" THEN BodyResult(p) ELSE Result(p, 3)
<1>10. CASE Done(p, 3) /\ Ends(p, a)
    <2>1. MayRun(p, 3)
        BY <1>10 DEF IInv, ShapeInv, Done
    <2>2. HasFinally(p) /\ BodyDone(p)
        BY <1>1, <2>1 DEF MayRun
    <2>3. Answer(p, a) /\ TryAs(p, a)
        BY <1>2, <1>3, <1>10, <2>2 DEF TryAs
    <2> HIDE DEF a
    <2> QED
        BY <1>5, <1>10, <2>3
<1> QED
    BY <1>6, <1>7, <1>8, <1>9, <1>10 DEF Try

LEMMA StepsMean ==
    ASSUME IInv, MInv, NEW p \in DOMAIN run, Step(p)
    PROVE  MInv'
BY StepEndsMeans, CallsMean, LogMeans, LoopsMean, IfStepMeans, ParallelMeans, ParallelForMeans,
   TryStepMeans DEF Step

\* Every answer is made of the parts' answers, and stays so.
LEMMA NextMeans == IInv /\ MInv /\ [Next]_vars => MInv'
<1> SUFFICES ASSUME IInv, MInv, [Next]_vars
             PROVE  MInv'
    OBVIOUS
<1>1. CASE \E p \in DOMAIN run : Step(p)
    BY <1>1, StepsMean
<1>2. CASE UNCHANGED run
    <2>1. /\ \A p, i : /\ Known(Kid(p, i))' = Known(Kid(p, i)) /\ Done(p, i)' = Done(p, i)
                       /\ Result(p, i)' = Result(p, i)
          /\ \A p : /\ Op(p)' = Op(p) /\ Settled(p)' = Settled(p) /\ Kids(p)' = Kids(p) /\ Count(p)' = Count(p)
                    /\ HasCatch(p)' = HasCatch(p) /\ HasFinally(p)' = HasFinally(p)
        BY <1>2 DEF Known, Op, Settled, Kids, Count, Done, Result, HasCatch, HasFinally
    <2>2. \A p, i, k : Fits(p, i, k)' = Fits(p, i, k)
        BY <1>2, <2>1 DEF Fits
    <2>3. \A p, i : GoesOn(p, i)' = GoesOn(p, i)
        BY <2>1 DEF GoesOn, Continues
    <2>4. \A p, r : InOrderAs(p, r)' = InOrderAs(p, r)
        BY <1>2, <2>1 DEF InOrderAs, Own
    <2>5. \A p, n, r : TogetherAs(p, n, r)' = TogetherAs(p, n, r)
        <3>1. \A p, n, status : With(p, n, status)' = With(p, n, status)
            BY <2>1 DEF With
        <3>2. \A p, n : Ruling(p, n)' = Ruling(p, n)
            BY <3>1 DEF Ruling
        <3> QED
            BY <2>1, <3>2 DEF TogetherAs
    <2>6. \A p, r : TryAs(p, r)' = TryAs(p, r)
        BY <2>1 DEF TryAs, BodyDone, BodyResult, Catches
    <2>7. \A p, r : IfAs(p, r)' = IfAs(p, r) /\ CallAs(p, r)' = CallAs(p, r)
        <3>1. \A p, r : HandedOn(p, r)' = HandedOn(p, r)
            BY <1>2 DEF HandedOn
        <3> QED
            BY <1>2, <2>1, <3>1 DEF IfAs, CallAs, Own
    <2>8. \A p, r : NoneRan(p, r)' = NoneRan(p, r)
        BY <2>1 DEF NoneRan, Own
    <2>9. \A p, r : MadeOf(p, r)' = MadeOf(p, r)
        BY <1>2, <2>1, <2>4, <2>5, <2>6, <2>7, <2>8 DEF MadeOf
    <2>10. StatusInv'
        BY <1>2 DEF MInv, StatusInv
    <2>11. PartsInv'
        BY <1>2, <2>1, <2>2, <2>3 DEF MInv, PartsInv
    <2>12. AnswersInv'
        BY <1>2, <2>1, <2>9 DEF MInv, AnswersInv
    <2> QED
        BY <2>10, <2>11, <2>12 DEF MInv
<1> QED
    BY <1>1, <1>2 DEF Next, Responds, vars

LEMMA InitMeans == Init => MInv
<1> SUFFICES ASSUME Init
             PROVE  MInv
    OBVIOUS
<1>1. PICK r \in Programs : run = [p \in {<<>>} |-> Activation(r, RootContext)]
    BY DEF Init
<1>2. DOMAIN run = {<<>>} /\ run[<<>>].result = Pending
    BY <1>1 DEF Activation
<1>3. StatusInv /\ AnswersInv
    BY <1>2 DEF StatusInv, AnswersInv, Settled, Pending
<1>4. PartsInv
    <2> SUFFICES ASSUME NEW p \in DOMAIN run, NEW i \in Nat
                 PROVE  ~Known(Kid(p, i))
        BY DEF PartsInv
    <2>1. IInv
        BY InitInv
    <2> DEFINE k == Kid(p, i)
    <2>2. Len(k) = Len(p) + 1 /\ Len(p) \in Nat
        BY <2>1, AtPath, KidIs, LenProperties
    <2> HIDE DEF k
    <2>3. k # p
        BY <2>2
    <2>4. DOMAIN run = {p}
        BY <1>2
    <2> QED
        BY <2>3, <2>4 DEF Known, k
<1> QED
    BY <1>3, <1>4 DEF MInv

-----------------------------------------------------------------------------
(* What the routine answers.                                                *)

\* Who waited for the routine was told its result.
ToldInv == answer \in {"success", "error", "reject"} => answer = Told(run[Root].result)

\* When the routine has ended nothing goes on, and before that nobody is told.
LEMMA StepsBefore ==
    ASSUME NEW p, Step(p)
    PROVE  ~Settled(p) /\ UNCHANGED answer
<1>1. ~Settled(p)
    BY DEF Step, StepEnds, CallsEndpoint, CallsApi, Returns, Rejects, ThrowsNew, Sequence, For, While,
       If, Parallel, ParallelFor, Try, Active
<1> SUFFICES UNCHANGED answer
    BY <1>1
<1>2. \A q, parts : Starts(q, parts) => UNCHANGED answer
    BY DEF Starts
<1>3. \A q, r : Ends(q, r) => UNCHANGED answer
    BY DEF Ends
<1>4. \A q, of, class : Throws(q, of, class) => UNCHANGED answer
    BY DEF Throws
<1>5. \A q, i, r, ctx : Start(q, i, r, ctx) => UNCHANGED answer
    BY <1>2 DEF Start
<1>6. \A q, more, r, ctx : OneByOne(q, more, r, ctx) => UNCHANGED answer
    BY <1>3, <1>5 DEF OneByOne
<1>7. \A q, caught : Invokes(q, caught) => UNCHANGED answer
    BY <1>4, <1>5 DEF Invokes, Fails
<1>8. \A q : Fails(q) => UNCHANGED answer
    BY <1>4 DEF Fails
<1>9. CASE StepEnds(p) \/ CallsEndpoint(p) \/ CallsApi(p)
    BY <1>3, <1>4, <1>7, <1>9 DEF StepEnds, CallsEndpoint, CallsApi
<1>10. CASE Returns(p) \/ Rejects(p) \/ ThrowsNew(p)
    BY <1>3, <1>10, <1>8 DEF Returns, Rejects, ThrowsNew, Logs
<1>11. CASE Sequence(p) \/ For(p) \/ While(p)
    BY <1>6, <1>11, <1>8 DEF Sequence, For, While
<1>12. CASE If(p) \/ Try(p)
    BY <1>3, <1>5, <1>12, <1>8 DEF If, Try
<1>13. CASE Parallel(p) \/ ParallelFor(p)
    BY <1>2, <1>3, <1>13, <1>8 DEF Parallel, ParallelFor
<1> QED
    BY <1>9, <1>10, <1>11, <1>12, <1>13 DEF Step

LEMMA NextTells == IInv /\ ToldInv /\ [Next]_vars => ToldInv'
<1> SUFFICES ASSUME IInv, ToldInv, [Next]_vars
             PROVE  ToldInv'
    OBVIOUS
<1>1. ASSUME NEW p \in DOMAIN run, Step(p)
      PROVE  ToldInv'
    <2>1. ~Settled(p) /\ answer' = answer
        BY <1>1, StepsBefore
    <2>2. answer \notin {"success", "error", "reject"}
        BY <1>1, <2>1, NoneOutlives DEF NothingOutlives
    <2> QED
        BY <2>1, <2>2 DEF ToldInv
<1>2. CASE Responds
    BY <1>2 DEF Responds, ToldInv, Told
<1>3. CASE UNCHANGED vars
    BY <1>3 DEF vars, ToldInv
<1> QED
    BY <1>1, <1>2, <1>3 DEF Next


\* Whatever ran, and in whatever order it ended, an activation has answered what
\* its parts' answers make, each of them the part of the routine at its place, and
\* the caller is told the whole routine's result: runRoutine, the controls and
\* callEndpoint.
THEOREM RoutineAnswersInvariant == Spec => [](IInv /\ MInv /\ ToldInv)
<1>1. Init => ToldInv
    BY DEF Init, ToldInv
<1> QED
    BY <1>1, InitInv, InitMeans, NextInv, NextMeans, NextTells, PTL DEF Spec

\* However its parts interleave, an activation that has ended has run just the
\* parts its meaning runs, each of them once, and has answered what they mean; and
\* a caller that waits is told what the routine means.
THEOREM RoutinesAnswerAsMeant == Spec => []AnswersAsMeant
<1>1. IInv /\ MInv /\ ToldInv => AnswersAsMeant
    <2> SUFFICES ASSUME IInv, MInv, ToldInv
                 PROVE  AnswersAsMeant
        OBVIOUS
    <2>1. \A p \in Ended : meaning[p] = Means(run[p].result, Below(p))
        BY MeantIs
    <2>2. ASSUME answer \in {"success", "error", "reject"}
          PROVE  Root \in Ended /\ answer = Told(meaning[Root].result)
        <3>1. Root \in Ended
            BY <2>2 DEF IInv, RunInv, AnswerInv, Ended
        <3>2. meaning[Root].result = run[Root].result
            BY <2>1, <3>1, MeansIs
        <3> QED
            BY <2>2, <3>1, <3>2 DEF ToldInv
    <2> QED
        BY <2>1, <2>2 DEF AnswersAsMeant
<1> QED
    BY <1>1, RoutineAnswersInvariant, PTL

=============================================================================
