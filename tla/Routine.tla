------------------------------ MODULE Routine ------------------------------
(***************************************************************************)
(* How the server runs the routine of an API endpoint: steps and controls, *)
(* :parallel branches that interleave at every await, :try with :catch and *)
(* :finally, and calls of other endpoints.                                 *)
(*                                                                         *)
(* Each call of runRoutine is an activation, named by its path: the path   *)
(* of the activation that made it and its place there.  What a step        *)
(* answers and what a condition evaluates to is any of what it may be.     *)
(***************************************************************************)
EXTENDS Naturals, Sequences, FiniteSets

CONSTANTS
    Routines,       \* the routines, the parts of their controls included
    Programs,       \* those an endpoint may be called with
    Endpoints,      \* those of the endpoints that calls name
    MaxDepth,       \* endpoint calls in one another: 10 in invokeEndpoint
    MaxIterations   \* bound: iterations of a :while

ASSUME RoutineAssumption ==
    /\ MaxDepth \in Nat /\ MaxIterations \in Nat
    /\ Programs \subseteq Routines
    /\ \A r \in Routines :
          /\ r.op \in {"call", "callApi"} => Endpoints[r.endpoint] \in Routines
          /\ r.op \in {"seq", "if", "parallel"} => r.of \in Seq(Routines)
          /\ r.op \in {"for", "while", "parallel_for"} => r.do \in Routines
          /\ r.op \in {"for", "parallel_for"} => r.items \in Nat
          /\ r.op = "parallel_for" => r.limit \in Nat
          /\ r.op = "try" => r.try \in Routines /\ {r.catch, r.finally} \subseteq Seq(Routines)

VARIABLES
    run,     \* the activations so far: [routine, ctx, result]
    log,     \* what was logged of errors: [of, level, at]
    answer   \* what the caller was answered

vars == <<run, log, answer>>

Statuses == {"continue", "return", "error", "reject"}

\* The errors: a request's or service's, the author's, a refusal of authorization,
\* a fault of the app (config, operator, internal), and one of no Lowdefy class.
Faults == {"fault", "untyped"}
Classes == {"request", "user", "refusal"} \cup Faults

\* A result: its status, and the activation its response or error came from.
NoClass == "none"
Continue == [status |-> "continue", of |-> <<>>, class |-> NoClass]
Pending == [status |-> "pending", of |-> <<>>, class |-> NoClass]

\* The routine context.  steps and state are objects the whole endpoint call
\* shares: they are named by the activation that made them.
RootContext == [steps |-> <<>>, indices |-> <<>>, caught |-> FALSE, depth |-> 0]
Activation(r, ctx) == [routine |-> r, ctx |-> ctx, result |-> Pending]

Init ==
    /\ \E r \in Programs : run = [p \in {<<>>} |-> Activation(r, RootContext)]
    /\ log = {}
    /\ answer \in {"none", "async"}

-----------------------------------------------------------------------------
Known(p) == p \in DOMAIN run
Op(p) == run[p].routine.op
Settled(p) == run[p].result # Pending
Active(p, op) == Known(p) /\ ~Settled(p) /\ Op(p) = op

Place(q) == q[Len(q)]
Kids(p) == {q \in DOMAIN run : Len(q) = Len(p) + 1 /\ SubSeq(q, 1, Len(p)) = p}
Kid(p, i) == Append(p, i)
Done(p, i) == Known(Kid(p, i)) /\ Settled(Kid(p, i))
Result(p, i) == run[Kid(p, i)].result
Count(p) == Cardinality(Kids(p))
AllSettled(p) == \A q \in Kids(p) : Settled(q)

\* runRoutine is called for some parts of p at once: parts maps their places to
\* their activations.
Starts(p, parts) ==
    /\ run' = [q \in DOMAIN run \cup {Kid(p, i) : i \in DOMAIN parts} |->
                  IF Known(q) THEN run[q] ELSE parts[Place(q)]]
    /\ UNCHANGED <<log, answer>>

Start(p, i, r, ctx) == Starts(p, [j \in {i} |-> Activation(r, ctx)])

Ends(p, result) ==
    /\ run' = [run EXCEPT ![p].result = result]
    /\ UNCHANGED <<log, answer>>

\* The catch of runRoutine: an error is logged once, at a level that depends on
\* its class and on whether a :catch handles it.
Level(p, class) ==
    IF run[p].ctx.caught /\ class \in {"request", "user"} THEN "debug"
    ELSE IF class \in {"user", "refusal"} THEN "warn"
    ELSE "error"

\* mutant: handled is not kept with the error
HandledNever(of) == FALSE

Handled(of) == \E l \in log : l.of = of

Throws(p, of, class) ==
    /\ run' = [run EXCEPT ![p].result = [status |-> "error", of |-> of, class |-> class]]
    /\ log' = IF Handled(of) THEN log
                             ELSE log \cup {[of |-> of, level |-> Level(p, class), at |-> p]}
    /\ UNCHANGED answer

\* An operator of p throws when it is evaluated, or p is not what it must be: a
\* key is missing, an :in is no array, a :level no string.
Fails(p) == \E class \in Faults : Throws(p, p, class)

-----------------------------------------------------------------------------
(* The steps.                                                               *)

\* A request, or another step that calls out: it answers, or throws.
StepEnds(p) ==
    /\ Active(p, "step")
    /\ \/ Ends(p, Continue)
       \/ \E class \in Classes : Throws(p, p, class)

\* invokeEndpoint: a fresh routine context, one call deeper.
Called(p, caught) == [steps |-> p, indices |-> <<>>, caught |-> caught, depth |-> run[p].ctx.depth + 1]

\* An endpoint that is missing, or not to be called, or a payload that does not
\* validate, is an error of the call.
Invokes(p, caught) ==
    /\ Count(p) = 0
    /\ \/ Fails(p)
       \/ /\ run[p].ctx.depth < MaxDepth
          /\ \/ Throws(p, p, "refusal")
             \/ Start(p, 1, Endpoints[run[p].routine.endpoint], Called(p, caught))

\* An endpoint: step hands the called endpoint's error or reject on.
CallsEndpoint(p) ==
    /\ Active(p, "call")
    /\ \/ Invokes(p, run[p].ctx.caught)
       \/ /\ Done(p, 1)
          /\ Ends(p, IF Result(p, 1).status \in {"error", "reject"} THEN Result(p, 1) ELSE Continue)

\* callApi, which a connection type may call in a request: the called endpoint's
\* error or reject is thrown again in the request's step, and the request may fail
\* before.  An error of no Lowdefy class is wrapped in one of the request's own.
CallsApi(p) ==
    /\ Active(p, "callApi")
    /\ \/ Invokes(p, FALSE)
       \/ Count(p) = 0 /\ \E class \in {"request", "user"} : Throws(p, p, class)
       \/ /\ Done(p, 1)
          /\ CASE Result(p, 1).status = "error" /\ Result(p, 1).class = "untyped" -> Throws(p, p, "request")
               [] Result(p, 1).status = "error" /\ Result(p, 1).class # "untyped" ->
                     Throws(p, Result(p, 1).of, Result(p, 1).class)
               [] Result(p, 1).status = "reject" -> Ends(p, Result(p, 1))
               [] OTHER                          -> Ends(p, Continue)

\* :return, :reject and :throw evaluate what they answer, which may fail.
Returns(p) ==
    /\ Active(p, "return")
    /\ \/ Ends(p, [status |-> "return", of |-> p, class |-> NoClass])
       \/ Fails(p)

\* :reject and :throw log their error at once.
Logs(p, status) ==
    /\ run' = [run EXCEPT ![p].result = [status |-> status, of |-> p, class |-> "user"]]
    /\ log' = log \cup {[of |-> p, level |-> "warn", at |-> p]}
    /\ UNCHANGED answer

Rejects(p) == Active(p, "reject") /\ (Logs(p, "reject") \/ Fails(p))
ThrowsNew(p) == Active(p, "throw") /\ (Logs(p, "error") \/ Fails(p))

-----------------------------------------------------------------------------
(* The controls.                                                            *)

\* One part after another: the first that does not continue ends them all.
Stopped(p) == Count(p) > 0 /\ Result(p, Count(p)).status # "continue"

OneByOne(p, more, r, ctx) ==
    /\ AllSettled(p)
    /\ IF Stopped(p) THEN Ends(p, Result(p, Count(p)))
       ELSE IF more THEN Start(p, Count(p) + 1, r, ctx)
       ELSE Ends(p, Continue)

Sequence(p) ==
    /\ Active(p, "seq")
    /\ LET of == run[p].routine.of
           more == Count(p) < Len(of)
       IN  OneByOne(p, more, IF more THEN of[Count(p) + 1] ELSE of, run[p].ctx)

\* The body of a :for or :parallel_for writes its step results under the index.
ItemContext(p, i) == [run[p].ctx EXCEPT !.indices = Append(@, i)]

For(p) ==
    /\ Active(p, "for")
    /\ \/ Count(p) = 0 /\ Fails(p)
       \/ OneByOne(p, Count(p) < run[p].routine.items, run[p].routine.do, ItemContext(p, Count(p) + 1))

\* The condition is evaluated before every iteration, and may fail in any of them.
While(p) ==
    /\ Active(p, "while")
    /\ \/ AllSettled(p) /\ ~Stopped(p) /\ Fails(p)
       \/ \E holds \in BOOLEAN :
             /\ holds => Count(p) < MaxIterations
             /\ OneByOne(p, holds, run[p].routine.do, run[p].ctx)

\* :if, and :switch: the branch the condition picks, or none.
If(p) ==
    /\ Active(p, "if")
    /\ AllSettled(p)
    /\ IF Count(p) = 0
       THEN \/ Fails(p)
            \/ \E i \in 1..Len(run[p].routine.of) : Start(p, i, run[p].routine.of[i], run[p].ctx)
            \/ Ends(p, Continue)
       ELSE \E q \in Kids(p) : Ends(p, run[q].result)

\* The result of parallel parts: the first error, else the first reject, else
\* the first return, by their places.
First(p, status, n) ==
    CHOOSE i \in 1..n : /\ Result(p, i).status = status
                        /\ \A j \in 1..i-1 : Result(p, j).status # status

Joined(p, n) ==
    LET has(status) == \E i \in 1..n : Result(p, i).status = status
    IN  IF has("error") THEN Result(p, First(p, "error", n))
        ELSE IF has("reject") THEN Result(p, First(p, "reject", n))
        ELSE IF has("return") THEN Result(p, First(p, "return", n))
        ELSE Continue

\* mutant: the first part that fails answers for all
AllDoneOrFailed(p, n) ==
    /\ \A i \in 1..n : Known(Kid(p, i))
    /\ (\A i \in 1..n : Done(p, i)) \/ (\E i \in 1..n : Result(p, i).status = "error")

AllDone(p, n) == \A i \in 1..n : Done(p, i)

Parallel(p) ==
    /\ Active(p, "parallel")
    /\ LET of == run[p].routine.of
       IN  \/ Count(p) = 0 /\ Fails(p)
           \/ /\ Count(p) = 0 /\ of # <<>>
              /\ Starts(p, [i \in 1..Len(of) |-> Activation(of[i], run[p].ctx)])
           \/ /\ AllDone(p, Len(of))
              /\ Ends(p, Joined(p, Len(of)))

\* runLimited: a lane takes the next item when it has ended one.
Unsettled(p) == {q \in Kids(p) : ~Settled(q)}

\* mutant: a lane ends with its first item
FreeLanesOnce(p) == run[p].routine.limit - Count(p)

FreeLanes(p) == run[p].routine.limit - Cardinality(Unsettled(p))

ParallelFor(p) ==
    /\ Active(p, "parallel_for")
    /\ LET items == run[p].routine.items
           taken == {i \in Count(p) + 1 .. items : i <= Count(p) + FreeLanes(p)}
       IN  \/ Count(p) = 0 /\ Fails(p)
           \/ /\ taken # {}
              /\ Starts(p, [i \in taken |-> Activation(run[p].routine.do, ItemContext(p, i))])
           \/ /\ AllDone(p, items)
              /\ Ends(p, Joined(p, items))

\* :try, its :catch (an error only) and its :finally.
HasCatch(p) == Len(run[p].routine.catch) > 0
HasFinally(p) == Len(run[p].routine.finally) > 0

TryContext(p) == IF HasCatch(p) THEN [run[p].ctx EXCEPT !.caught = TRUE] ELSE run[p].ctx

\* mutant: a reject is caught too
CatchesReject(p) == HasCatch(p) /\ Done(p, 1) /\ Result(p, 1).status \in {"error", "reject"}

Catches(p) == HasCatch(p) /\ Done(p, 1) /\ Result(p, 1).status = "error"

\* The :try is over, and so is the :catch if it runs.
BodyDone(p) == Done(p, 1) /\ (Catches(p) => Done(p, 2))
BodyResult(p) == IF Catches(p) THEN Result(p, 2) ELSE Result(p, 1)

Try(p) ==
    /\ Active(p, "try")
    /\ \/ /\ Count(p) = 0
          /\ Start(p, 1, run[p].routine.try, TryContext(p))
       \/ /\ Catches(p) /\ ~Known(Kid(p, 2))
          /\ Start(p, 2, run[p].routine.catch[1], run[p].ctx)
       \/ /\ BodyDone(p) /\ HasFinally(p) /\ ~Known(Kid(p, 3))
          /\ Start(p, 3, run[p].routine.finally[1], run[p].ctx)
       \/ /\ BodyDone(p) /\ ~HasFinally(p)
          /\ Ends(p, BodyResult(p))
       \/ /\ Done(p, 3)
          /\ Ends(p, IF Result(p, 3).status = "continue" THEN BodyResult(p) ELSE Result(p, 3))

-----------------------------------------------------------------------------
(* The caller: callEndpoint awaits the routine, or accepts an async call at *)
(* once and leaves it to the background.                                    *)

Root == <<>>

Responds ==
    \/ /\ answer = "async"
       /\ answer' = "accepted"
       /\ UNCHANGED <<run, log>>
    \/ /\ answer = "none" /\ Settled(Root)
       /\ answer' = IF run[Root].result.status \in {"error", "reject"}
                    THEN run[Root].result.status ELSE "success"
       /\ UNCHANGED <<run, log>>

Step(p) ==
    \/ StepEnds(p) \/ CallsEndpoint(p) \/ CallsApi(p)
    \/ Returns(p) \/ Rejects(p) \/ ThrowsNew(p)
    \/ Sequence(p) \/ For(p) \/ While(p) \/ If(p)
    \/ Parallel(p) \/ ParallelFor(p) \/ Try(p)

Next == Responds \/ \E p \in DOMAIN run : Step(p)

Spec == Init /\ [][Next]_vars

\* The server's event loop goes on with whatever is ready, and a step answers
\* or throws in the end.
FairSpec == Spec /\ WF_vars(Next)

-----------------------------------------------------------------------------
RoutineTypeOK ==
    /\ \A p \in DOMAIN run :
          /\ run[p].result.status \in Statuses \cup {"pending"}
          /\ run[p].result.class \in Classes \cup {NoClass}
          /\ run[p].ctx.steps \in DOMAIN run /\ run[p].result.of \in DOMAIN run
          /\ run[p].ctx.caught \in BOOLEAN /\ run[p].ctx.depth \in 0..MaxDepth
    /\ \A l \in log : l.of \in DOMAIN run /\ l.at \in DOMAIN run /\ l.level \in {"debug", "warn", "error"}
    /\ answer \in {"none", "async", "accepted", "success", "error", "reject"}

\* An activation that has answered has nothing running below it: no branch of a
\* parallel control, no called endpoint and no :finally outlives the control
\* that started it, so a caller that is answered is answered for all of it.
NothingOutlives ==
    /\ \A p \in DOMAIN run : Settled(p) => AllSettled(p)
    /\ answer \notin {"none", "async", "accepted"} => \A p \in DOMAIN run : Settled(p)

\* The :try with a :catch that p runs in, through controls and endpoint: steps.
InTry(p) ==
    \E n \in 0..Len(p)-1 :
        LET t == SubSeq(p, 1, n)
        IN  /\ Op(t) = "try" /\ HasCatch(t) /\ p[n + 1] = 1
            /\ \A m \in n..Len(p)-1 : Op(SubSeq(p, 1, m)) # "callApi"

\* An error that ends an activation has been logged, and by no more than one
\* runRoutine: handled travels with it through calls and rethrows.  It is logged
\* at debug when a :catch handles it as an outcome, and only then: an outcome in
\* the :catch or :finally is logged as usual, and a fault even when it is caught.
LoggedOnce ==
    /\ \A p \in DOMAIN run : run[p].result.status = "error" => Handled(run[p].result.of)
    /\ \A l, m \in log : l.of = m.of => l = m
    /\ \A l \in log : l.level = "debug" <=> /\ InTry(l.at) /\ Op(l.at) \notin {"throw", "reject"}
                                            /\ run[l.at].result.class \in {"request", "user"}

\* Every endpoint call is answered, and its routine comes to an end.
RunsEnd == <>(Settled(Root) /\ answer \notin {"none", "async"})
=============================================================================
