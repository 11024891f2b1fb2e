--------------------------- MODULE RoutineMeaning ---------------------------
(***************************************************************************)
(* What a routine means, as its documentation tells it: run from start to  *)
(* end with no interleaving at all.  The answers of the steps and the      *)
(* values of the conditions are those of the run it is compared with; what *)
(* the activations answered that are made of others is not looked at.      *)
(***************************************************************************)
EXTENDS Routine

Ended == {p \in DOMAIN run : Settled(p)}

\* The activation at p and all below it.
Below(p) == {q \in DOMAIN run : Len(p) <= Len(q) /\ SubSeq(q, 1, Len(p)) = p}

\* A meaning: the result, and the activations it takes.
Means(result, paths) == [result |-> result, paths |-> paths]

\* The part r of p at place i, where of has the meanings of what p ran.  If p did
\* not run it there it means what no run does: something at place 0.
Part(p, of, i, r) ==
    IF Kid(p, i) \in DOMAIN of /\ run[Kid(p, i)].routine = r
    THEN of[Kid(p, i)] ELSE Means(Pending, {Kid(p, 0)})

NoPart == Means(Continue, {})

\* Parts in order, up to the first that does not continue.
InOrder(p, parts) ==
    LET stops == {i \in DOMAIN parts : parts[i].result.status # "continue"}
        last == CHOOSE i \in stops : \A j \in stops : i <= j
        upTo == {i \in DOMAIN parts : stops = {} \/ i <= last}
    IN  Means(IF stops = {} THEN Continue ELSE parts[last].result,
              {p} \cup UNION {parts[i].paths : i \in upTo})

\* All parts: the first error, or else reject, or else return, in their order.
Together(p, parts) ==
    LET with(status) == {i \in DOMAIN parts : parts[i].result.status = status}
        ruling == IF with("error") # {} THEN with("error")
                  ELSE IF with("reject") # {} THEN with("reject") ELSE with("return")
    IN  Means(IF ruling = {} THEN Continue
              ELSE parts[CHOOSE i \in ruling : \A j \in ruling : i <= j].result,
              {p} \cup UNION {parts[i].paths : i \in DOMAIN parts})

\* The :try, the :catch when it fails, and the :finally in any case, whose answer
\* counts unless it continues.
Guarded(p, of) ==
    LET r == run[p].routine
        body == Part(p, of, 1, r.try)
        caught == IF r.catch # <<>> /\ body.result.status = "error"
                  THEN Part(p, of, 2, r.catch[1]) ELSE body
        final == IF r.finally # <<>> THEN Part(p, of, 3, r.finally[1]) ELSE NoPart
    IN  Means(IF final.result.status = "continue" THEN caught.result ELSE final.result,
              {p} \cup body.paths \cup caught.paths \cup final.paths)

\* The branch its condition picked, or none.
Branch(p, of) ==
    LET r == run[p].routine
        picked == {i \in 1..Len(r.of) : Kid(p, i) \in DOMAIN of}
        m == IF picked = {} THEN NoPart
             ELSE LET i == CHOOSE i \in picked : TRUE IN Part(p, of, i, r.of[i])
    IN  Means(m.result, {p} \cup m.paths)

\* A called endpoint hands its error or reject on, callApi under an error of the
\* request's own if it has no Lowdefy class; a call may fail itself, as a step may.
HandedOn(p, result) ==
    IF run[p].routine.op = "callApi" /\ result.status = "error" /\ result.class = "untyped"
    THEN [status |-> "error", of |-> p, class |-> "request"]
    ELSE IF result.status \in {"error", "reject"} THEN result ELSE Continue

Delegated(p, of) ==
    LET m == Part(p, of, 1, Endpoints[run[p].routine.endpoint])
    IN  IF Kid(p, 1) \notin DOMAIN of THEN Means(run[p].result, {p})
        ELSE Means(HandedOn(p, m.result), {p} \cup m.paths)

\* p ended in an error of its own: its operators threw, or it is malformed.
FailedItself(p) == run[p].result.status = "error" /\ run[p].result.of = p

\* A control that fails before its parts takes none of them, and a :while only
\* what it ran before its condition failed, all of which continued.
Unless(p, m) == IF ~FailedItself(p) THEN m ELSE Means(run[p].result, {p})

After(p, m) ==
    IF FailedItself(p) /\ m.result.status = "continue" THEN Means(run[p].result, m.paths) ELSE m

\* What p means, from what its parts mean.
Compose(p, of) ==
    LET r == run[p].routine
    IN  CASE r.op = "seq"          -> InOrder(p, [i \in 1..Len(r.of) |-> Part(p, of, i, r.of[i])])
          [] r.op = "for"          -> Unless(p, InOrder(p, [i \in 1..r.items |-> Part(p, of, i, r.do)]))
          [] r.op = "while"        -> After(p, InOrder(p, [i \in 1..Count(p) |-> Part(p, of, i, r.do)]))
          [] r.op = "parallel"     -> Unless(p, Together(p, [i \in 1..Len(r.of) |-> Part(p, of, i, r.of[i])]))
          [] r.op = "parallel_for" -> Unless(p, Together(p, [i \in 1..r.items |-> Part(p, of, i, r.do)]))
          [] r.op = "try"          -> Guarded(p, of)
          [] r.op = "if"           -> Unless(p, Branch(p, of))
          [] r.op \in {"call", "callApi"} -> Delegated(p, of)
          [] OTHER                 -> Means(run[p].result, {p})

meaning[p \in Ended] == Compose(p, [q \in Kids(p) \cap Ended |-> meaning[q]])

\* What the caller of an endpoint is told of a result.
Told(result) == IF result.status \in {"error", "reject"} THEN result.status ELSE "success"

\* However its parts interleave, a routine that has ended has run just the parts
\* its meaning runs, each of them once, and has answered what they mean; so has
\* every control, call and part in it that has ended; and a caller that waits for
\* the routine is told what it means: runRoutine, the controls and callEndpoint.
AnswersAsMeant ==
    /\ \A p \in Ended : meaning[p] = Means(run[p].result, Below(p))
    /\ answer \in {"success", "error", "reject"} => Root \in Ended /\ answer = Told(meaning[Root].result)
=============================================================================
