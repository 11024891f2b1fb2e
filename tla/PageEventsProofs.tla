-------------------------- MODULE PageEventsProofs --------------------------
(* What events and requests promise, for any actions and debounces. *)
EXTENDS PageEvents, SequenceTheorems, TLAPS

Logs(n) == [call : 1..n, bounced : BOOLEAN]

\* The types, in parts.
CallsOK == calls \in Seq(Call) /\ Len(calls) <= MaxCalls
FlagsOK == /\ loading \in [Events -> BOOLEAN] /\ timeouts \subseteq Events
           /\ bouncer \in [Events -> 1..Len(calls) \cup {None}]
LogsOK == history \in [Events -> Seq(Logs(Len(calls)))]
FetchesOK == fetches \in [Requests -> Seq(Fetch)] /\ \A r \in Requests : Newest(r) <= MaxFetches
AwaitsOK == \A c \in DOMAIN calls : \A f \in calls[c].awaits :
    f[2] \in DOMAIN fetches[f[1]] /\ fetches[f[1]][f[2]].loading

LEMMA TypeParts == EventsTypeOK <=> CallsOK /\ FlagsOK /\ LogsOK /\ FetchesOK /\ AwaitsOK
    BY DEF EventsTypeOK, CallsOK, FlagsOK, LogsOK, FetchesOK, AwaitsOK, Logs

\* A call waits behind its event's bouncer, with nothing run and no later call of the
\* event; one that runs has begun; only one that runs awaits requests.
WaitsInv == \A c \in DOMAIN calls :
    /\ calls[c].stage = "timer" =>
          /\ calls[c].at = 0 /\ Debounce[calls[c].event] = "trailing"
          /\ bouncer[calls[c].event] = c
          /\ \A d \in DOMAIN calls : calls[d].event = calls[c].event => d <= c
    /\ calls[c].stage = "runs" => calls[c].at > 0
    /\ calls[c].awaits # {} => calls[c].stage = "runs"

BouncerInv == \A e \in Events : bouncer[e] # None =>
    bouncer[e] \in DOMAIN calls /\ calls[bouncer[e]].stage = "timer" /\ calls[bouncer[e]].event = e

\* A call is logged once, as it ran, when it has settled.
LoggedAsRun == \A e \in Events : \A i \in DOMAIN history[e] :
    LET c == history[e][i].call
    IN  /\ c \in DOMAIN calls /\ calls[c].event = e /\ calls[c].stage = "done"
        /\ history[e][i].bounced <=> calls[c].at = 0
LoggedOnce == \A e \in Events : \A i, j \in DOMAIN history[e] :
    history[e][i].call = history[e][j].call => i = j
SettledIsLogged == \A c \in DOMAIN calls : calls[c].stage = "done" =>
    \E i \in DOMAIN history[calls[c].event] : history[calls[c].event][i].call = c
LogInv == LoggedAsRun /\ LoggedOnce /\ SettledIsLogged

TypeInv == CallsOK /\ FlagsOK /\ LogsOK /\ FetchesOK /\ AwaitsOK
IInv == TypeInv /\ WaitsInv /\ BouncerInv /\ LogInv /\ LoadingIsBusy

LEMMA ListsOK ==
    ASSUME NEW e \in Events, NEW list \in {"try", "catch"}
    PROVE  Actions[e][list] \in Seq(Action)
<1>1. Actions[e] \in [try : Seq(Action), catch : Seq(Action)]
    BY EventsAssumption
<1>2. Actions[e].try \in Seq(Action) /\ Actions[e].catch \in Seq(Action)
    BY <1>1
<1>3. CASE list = "try"
    BY <1>2, <1>3
<1>4. CASE list = "catch"
    BY <1>2, <1>4
<1> QED
    BY <1>3, <1>4

LEMMA AwaitsTyped ==
    ASSUME NEW call \in Call, NEW f \in call.awaits
    PROVE  f[1] \in Requests /\ f[2] \in 1..MaxFetches
<1>1. call.awaits \in SUBSET (Requests \X (1..MaxFetches))
    BY DEF Call
<1> QED
    BY <1>1

LEMMA CallMoves ==
    ASSUME NEW call \in Call
    PROVE  /\ Running(call) \in Call /\ Bounced(call) \in Call
           /\ Onward(call) \in Call /\ Past(call) \in Call /\ Thrown(call) \in Call
<1>1. call.event \in Events /\ call.list \in {"try", "catch"} /\ call.at \in Nat
    BY DEF Call
<1>2. Actions[call.event][call.list] \in Seq(Action)
    BY <1>1, ListsOK
<1>3. Len(Actions[call.event][call.list]) + 1 \in Nat
    BY <1>2, LenProperties
<1>4. Running(call) \in Call
    BY <1>1 DEF Call, Running
<1>5. Bounced(call) \in Call
    BY <1>1 DEF Call, Bounced
<1>6. Onward(call) \in Call
    <2>1. call.at + 1 \in Nat
        BY <1>1
    <2> QED
        BY <1>1, <2>1 DEF Call, Onward
<1>7. Past(call) \in Call
    BY <1>1, <1>3 DEF Call, Past
<1>8. Thrown(call) \in Call
    BY <1>1, <1>7 DEF Call, Thrown
<1> QED
    BY <1>4, <1>5, <1>6, <1>7, <1>8

\* A sequence after one more, and the calls after one has moved.
LEMMA Appended ==
    ASSUME NEW S, NEW s \in Seq(S), NEW x \in S
    PROVE  /\ Append(s, x) \in Seq(S) /\ Len(s) \in Nat /\ Len(Append(s, x)) = Len(s) + 1
           /\ DOMAIN s = 1..Len(s) /\ DOMAIN Append(s, x) = 1..Len(s) + 1
           /\ \A i \in 1..Len(s) : Append(s, x)[i] = s[i]
           /\ Append(s, x)[Len(s) + 1] = x
    BY AppendProperties, LenProperties

LEMMA CallMoved ==
    ASSUME NEW cs \in Seq(Call), NEW c \in DOMAIN cs, NEW d \in Call
    PROVE  /\ [cs EXCEPT ![c] = d] \in Seq(Call) /\ Len([cs EXCEPT ![c] = d]) = Len(cs)
           /\ Len(cs) \in Nat
           /\ DOMAIN cs = 1..Len(cs) /\ DOMAIN [cs EXCEPT ![c] = d] = 1..Len(cs)
           /\ \A o \in 1..Len(cs) : [cs EXCEPT ![c] = d][o] = IF o = c THEN d ELSE cs[o]
           /\ cs[c] \in Call
    BY ExceptSeq, LenProperties

LEMMA CallsAnswered ==
    ASSUME calls \in Seq(Call), NEW f, NEW ok \in BOOLEAN
    PROVE  /\ AfterAnswer(f, ok) \in Seq(Call) /\ Len(AfterAnswer(f, ok)) = Len(calls)
           /\ DOMAIN calls = 1..Len(calls) /\ DOMAIN AfterAnswer(f, ok) = 1..Len(calls)
           /\ Len(calls) \in Nat
           /\ \A c \in 1..Len(calls) :
                 \/ f \notin calls[c].awaits /\ AfterAnswer(f, ok)[c] = calls[c]
                 \/ f \in calls[c].awaits /\ AfterAnswer(f, ok)[c] \in
                        {Thrown(calls[c]), Onward(calls[c]), [calls[c] EXCEPT !.awaits = @ \ {f}]}
<1>1. DOMAIN calls = 1..Len(calls) /\ Len(calls) \in Nat /\ \A c \in 1..Len(calls) : calls[c] \in Call
    BY LenProperties
<1>2. ASSUME NEW c \in 1..Len(calls) PROVE [calls[c] EXCEPT !.awaits = @ \ {f}] \in Call
    BY <1>1 DEF Call
<1>3. \A c \in 1..Len(calls) : AfterAnswer(f, ok)[c] \in Call
    BY <1>1, <1>2, CallMoves DEF AfterAnswer
<1>4. AfterAnswer(f, ok) \in Seq(Call) /\ Len(AfterAnswer(f, ok)) = Len(calls)
    BY <1>1, <1>3 DEF AfterAnswer
<1> QED
    BY <1>1, <1>4 DEF AfterAnswer

\* Logs of fewer calls are logs of more; a log of a call there is keeps the types.
LEMMA LogsStay ==
    ASSUME NEW m \in Nat, NEW n \in Nat, m <= n, NEW h \in [Events -> Seq(Logs(m))]
    PROVE  h \in [Events -> Seq(Logs(n))]
<1>1. Logs(m) \subseteq Logs(n)
    BY DEF Logs
<1> QED
    BY <1>1, SeqMonotonic

LEMMA LogsGrow ==
    ASSUME NEW n \in Nat, history \in [Events -> Seq(Logs(n))], NEW e \in Events, NEW c \in 1..n,
           NEW b \in BOOLEAN
    PROVE  /\ [history EXCEPT ![e] = Logged(e, c, b)] \in [Events -> Seq(Logs(n))]
           /\ Len(history[e]) \in Nat /\ DOMAIN history[e] = 1..Len(history[e])
           /\ DOMAIN Logged(e, c, b) = 1..Len(history[e]) + 1
           /\ \A i \in 1..Len(history[e]) : Logged(e, c, b)[i] = history[e][i]
           /\ Logged(e, c, b)[Len(history[e]) + 1] = [call |-> c, bounced |-> b]
<1>1. [call |-> c, bounced |-> b] \in Logs(n)
    BY DEF Logs
<1>2. history[e] \in Seq(Logs(n))
    OBVIOUS
<1>3. Logged(e, c, b) \in Seq(Logs(n))
    BY <1>1, <1>2, AppendProperties DEF Logged
<1> QED
    BY <1>1, <1>2, <1>3, AppendProperties, LenProperties DEF Logged

\* The run of some calls has gone on; all else that calls relate to is as it was.
Moves ==
    /\ calls' \in Seq(Call) /\ Len(calls') = Len(calls)
    /\ \A o \in 1..Len(calls) :
          \/ calls'[o] = calls[o]
          \/ /\ calls[o].stage = "runs" /\ calls'[o].stage = "runs"
             /\ calls'[o].event = calls[o].event /\ calls'[o].at > 0
    /\ UNCHANGED <<loading, timeouts, bouncer, history>>

LEMMA MovesKeep ==
    ASSUME IInv, Moves, FetchesOK', AwaitsOK'
    PROVE  IInv'
<1>1. calls \in Seq(Call) /\ Len(calls) <= MaxCalls
    BY DEF IInv, TypeInv, CallsOK
<1>2. DOMAIN calls = 1..Len(calls) /\ DOMAIN calls' = 1..Len(calls)
    BY <1>1, LenProperties DEF Moves
<1>3. CallsOK' /\ FlagsOK' /\ LogsOK'
    BY <1>1 DEF IInv, TypeInv, CallsOK, FlagsOK, LogsOK, Moves, Logs
<1>4. WaitsInv'
    BY <1>2 DEF IInv, WaitsInv, Moves
<1>5. BouncerInv'
    BY <1>2 DEF IInv, BouncerInv, Moves
<1>6. LogInv'
    <2>1. LoggedAsRun'
        BY <1>2 DEF IInv, LogInv, LoggedAsRun, Moves
    <2>2. LoggedOnce'
        BY DEF IInv, LogInv, LoggedOnce, Moves
    <2>3. SettledIsLogged'
        BY <1>2 DEF IInv, LogInv, SettledIsLogged, Moves
    <2> QED
        BY <2>1, <2>2, <2>3 DEF LogInv
<1>7. LoadingIsBusy'
    BY <1>2 DEF IInv, LoadingIsBusy, CallsOf, Moves
<1> QED
    BY <1>3, <1>4, <1>5, <1>6, <1>7 DEF IInv, TypeInv

LEMMA OneMoves ==
    ASSUME IInv, NEW c \in DOMAIN calls, NEW d \in Call, calls' = [calls EXCEPT ![c] = d],
           calls[c].stage = "runs", d.stage = "runs", d.event = calls[c].event, d.at > 0,
           UNCHANGED <<loading, timeouts, bouncer, history>>
    PROVE  Moves
<1>1. calls \in Seq(Call)
    BY DEF IInv, TypeInv, CallsOK
<1> QED
    BY <1>1, CallMoved DEF Moves

\* Where a call that runs may go.
LEMMA Steps ==
    ASSUME NEW call \in Call, call.stage = "runs",
           NEW d \in {Onward(call), Past(call), Thrown(call)}
    PROVE  d \in Call /\ d.stage = "runs" /\ d.event = call.event /\ d.at > 0 /\ d.awaits = {}
<1>1. call.event \in Events /\ call.list \in {"try", "catch"} /\ call.at \in Nat
    BY DEF Call
<1>2. Past(call).at > 0 /\ Past(call).at \in Nat
    <2>1. Past(call) \in Call
        BY CallMoves
    <2>2. Actions[call.event][call.list] \in Seq(Action)
        BY <1>1, ListsOK
    <2>3. Len(Actions[call.event][call.list]) \in Nat
        BY <2>2, LenProperties
    <2> QED
        BY <2>3 DEF Past, Call
<1>3. Past(call).stage = "runs" /\ Past(call).event = call.event /\ Past(call).awaits = {}
    BY DEF Past, Call
<1>4. CASE d = Onward(call)
    <2>1. call.at + 1 \in Nat /\ call.at + 1 > 0
        BY <1>1
    <2>2. /\ Onward(call).stage = "runs" /\ Onward(call).event = call.event
          /\ Onward(call).at = call.at + 1 /\ Onward(call).awaits = {}
        BY DEF Onward, Call
    <2> QED
        BY <1>4, <2>1, <2>2, CallMoves
<1>5. CASE d = Past(call)
    BY <1>2, <1>3, <1>5, CallMoves
<1>6. CASE d = Thrown(call)
    <2>1. CASE call.list = "try"
        <3>1. /\ Thrown(call).stage = "runs" /\ Thrown(call).event = call.event
              /\ Thrown(call).at = 1 /\ Thrown(call).awaits = {}
            BY <2>1 DEF Thrown, Call
        <3> QED
            BY <1>6, <3>1, CallMoves
    <2>2. CASE call.list # "try"
        BY <1>2, <1>3, <1>6, <2>2, CallMoves DEF Thrown
    <2> QED
        BY <2>1, <2>2
<1> QED
    BY <1>4, <1>5, <1>6

-----------------------------------------------------------------------------
LEMMA ActsKeeps ==
    ASSUME IInv, NEW c \in DOMAIN calls, Acts(c)
    PROVE  IInv'
<1>1. calls \in Seq(Call)
    BY DEF IInv, TypeInv, CallsOK
<1>2. calls[c] \in Call /\ DOMAIN calls = 1..Len(calls)
    BY <1>1, LenProperties
<1>3. PICK d \in {Onward(calls[c]), Past(calls[c]), Thrown(calls[c])} : calls' = [calls EXCEPT ![c] = d]
    BY DEF Acts
<1>4. calls[c].stage = "runs" /\ UNCHANGED <<loading, timeouts, bouncer, history, fetches>>
    BY DEF Acts, Acting
<1>5. d \in Call /\ d.stage = "runs" /\ d.event = calls[c].event /\ d.at > 0 /\ d.awaits = {}
    BY <1>2, <1>3, <1>4, Steps
<1>6. Moves
    BY <1>3, <1>4, <1>5, OneMoves
<1>7. FetchesOK'
    BY <1>4 DEF IInv, TypeInv, FetchesOK, Newest
<1>8. AwaitsOK'
    <2>1. \A o \in 1..Len(calls) : calls'[o] = IF o = c THEN d ELSE calls[o]
        BY <1>1, <1>3, <1>5, CallMoved
    <2>2. DOMAIN calls' = 1..Len(calls)
        BY <1>1, <1>3, <1>5, CallMoved
    <2> QED
        BY <1>2, <1>4, <1>5, <2>1, <2>2 DEF IInv, TypeInv, AwaitsOK
<1> QED
    BY <1>6, <1>7, <1>8, MovesKeep

\* The requests after some have been called.
LEMMA RequestsCalled ==
    ASSUME FetchesOK, NEW rs \in SUBSET Requests, NEW hold \in BOOLEAN,
           \A r \in rs : Newest(r) < MaxFetches, fetches' = Called(rs, hold)
    PROVE  /\ FetchesOK'
           /\ \A r \in Requests : /\ Newest(r) \in Nat /\ DOMAIN fetches[r] = 1..Newest(r)
                                  /\ DOMAIN fetches'[r] = 1..Newest(r)'
                                  /\ Newest(r)' = IF r \in rs THEN Newest(r) + 1 ELSE Newest(r)
                                  /\ \A n \in 1..Newest(r) : fetches'[r][n] = fetches[r][n]
                                  /\ r \notin rs => fetches'[r] = fetches[r]
           /\ \A r \in rs : fetches'[r][Newest(r) + 1] =
                                [loading |-> TRUE, response |-> IF hold THEN Shown(r) ELSE 0]
<1>1. \A r \in Requests : fetches[r] \in Seq(Fetch) /\ Newest(r) \in Nat /\ DOMAIN fetches[r] = 1..Newest(r)
    BY LenProperties DEF FetchesOK, Newest
<1>2. ASSUME NEW r \in Requests
      PROVE  [loading |-> TRUE, response |-> IF hold THEN Shown(r) ELSE 0] \in Fetch
    <2>1. MaxFetches \in Nat
        BY EventsAssumption
    <2>2. Shown(r) \in 0..MaxFetches
        <3>1. CASE Newest(r) = 0
            BY <2>1, <3>1 DEF Shown
        <3>2. CASE Newest(r) # 0
            <4>1. fetches[r][Newest(r)] \in Fetch
                BY <1>1, <3>2, ElementOfSeq DEF Newest
            <4> QED
                BY <3>2, <4>1 DEF Shown, Fetch
        <3> QED
            BY <3>1, <3>2
    <2> QED
        BY <2>1, <2>2 DEF Fetch
<1>3. ASSUME NEW r \in rs
      PROVE  LET f == [loading |-> TRUE, response |-> IF hold THEN Shown(r) ELSE 0]
             IN  fetches'[r] = Append(fetches[r], f) /\ f \in Fetch
    BY <1>2, <1>3 DEF Called
<1>4. ASSUME NEW r \in Requests, r \notin rs PROVE fetches'[r] = fetches[r]
    BY <1>4 DEF Called
<1>5. ASSUME NEW r \in rs
      PROVE  /\ fetches[r] \in Seq(Fetch) /\ fetches'[r] \in Seq(Fetch) /\ Len(fetches'[r]) = Newest(r) + 1
             /\ DOMAIN fetches'[r] = 1..Len(fetches'[r])
             /\ \A n \in 1..Newest(r) : fetches'[r][n] = fetches[r][n]
             /\ fetches'[r][Newest(r) + 1] = [loading |-> TRUE, response |-> IF hold THEN Shown(r) ELSE 0]
    <2>1. r \in Requests /\ fetches[r] \in Seq(Fetch)
        BY <1>1
    <2> DEFINE f == [loading |-> TRUE, response |-> IF hold THEN Shown(r) ELSE 0]
    <2>2. fetches'[r] = Append(fetches[r], f) /\ f \in Fetch
        BY <1>3
    <2> HIDE DEF f
    <2>3. /\ Append(fetches[r], f) \in Seq(Fetch) /\ Len(Append(fetches[r], f)) = Newest(r) + 1
          /\ DOMAIN Append(fetches[r], f) = 1..Newest(r) + 1
          /\ \A n \in 1..Newest(r) : Append(fetches[r], f)[n] = fetches[r][n]
          /\ Append(fetches[r], f)[Newest(r) + 1] = f
        BY <2>1, <2>2, Appended DEF Newest
    <2> QED
        BY <2>1, <2>2, <2>3 DEF f
<1>6. FetchesOK'
    <2>1. \A r \in Requests : fetches'[r] \in Seq(Fetch)
        BY <1>1, <1>4, <1>5
    <2>2. \A r \in Requests : Newest(r)' <= MaxFetches
        <3> SUFFICES ASSUME NEW r \in Requests PROVE Len(fetches'[r]) <= MaxFetches
            BY DEF Newest
        <3>1. CASE r \in rs
            <4>1. Newest(r) < MaxFetches /\ Newest(r) \in Nat /\ MaxFetches \in Nat
                BY <1>1, <3>1, EventsAssumption
            <4>2. Len(fetches'[r]) = Newest(r) + 1
                BY <1>5, <3>1
            <4> QED
                BY <4>1, <4>2
        <3>2. CASE r \notin rs
            BY <1>4, <3>2 DEF FetchesOK, Newest
        <3> QED
            BY <3>1, <3>2
    <2>3. fetches' = [r \in Requests |-> fetches'[r]]
        BY DEF Called
    <2> QED
        BY <2>1, <2>2, <2>3 DEF FetchesOK
<1> QED
    BY <1>1, <1>4, <1>5, <1>6 DEF Newest

LEMMA FetchesKeeps ==
    ASSUME IInv, NEW c \in DOMAIN calls, Fetches(c)
    PROVE  IInv'
<1>1. calls \in Seq(Call) /\ FetchesOK /\ AwaitsOK
    BY DEF IInv, TypeInv, CallsOK
<1>2. calls[c] \in Call /\ DOMAIN calls = 1..Len(calls)
    BY <1>1, LenProperties
<1>3. PICK rs \in SUBSET Current(c).requests :
          /\ fetches' = Called(rs, Current(c).hold)
          /\ calls' = [calls EXCEPT ![c] =
                          IF Current(c).async THEN Onward(@)
                          ELSE IF rs # Current(c).requests THEN Thrown(@)
                          ELSE [@ EXCEPT !.awaits = Handles(rs)]]
    BY DEF Fetches
<1>4. /\ calls[c].stage = "runs" /\ calls[c].at > 0 /\ calls[c].awaits = {}
      /\ UNCHANGED <<loading, timeouts, bouncer, history>>
      /\ \A r \in Current(c).requests : Newest(r) < MaxFetches
    BY DEF Fetches, Acting, IInv, WaitsInv
<1>5. Current(c) \in Action
    <2>1. calls[c].event \in Events /\ calls[c].list \in {"try", "catch"}
        BY <1>2 DEF Call
    <2>2. List(c) \in Seq(Action) /\ calls[c].at \in DOMAIN List(c)
        BY <2>1, ListsOK DEF List, Fetches, HasNext
    <2> QED
        BY <2>2, ElementOfSeq, LenProperties DEF Current
<1>6. rs \in SUBSET Requests /\ Current(c).hold \in BOOLEAN /\ \A r \in rs : Newest(r) < MaxFetches
    BY <1>3, <1>4, <1>5 DEF Action
<1>7. /\ FetchesOK'
      /\ \A r \in Requests : /\ Newest(r) \in Nat /\ DOMAIN fetches[r] = 1..Newest(r)
                             /\ DOMAIN fetches'[r] = 1..Newest(r)'
                             /\ Newest(r)' = IF r \in rs THEN Newest(r) + 1 ELSE Newest(r)
                             /\ \A n \in 1..Newest(r) : fetches'[r][n] = fetches[r][n]
      /\ \A r \in rs : fetches'[r][Newest(r) + 1].loading
    <2> DEFINE hold == Current(c).hold
    <2> HIDE DEF hold
    <2>1. fetches' = Called(rs, hold) /\ hold \in BOOLEAN
        BY <1>3, <1>6 DEF hold
    <2>2. /\ FetchesOK'
          /\ \A r \in Requests : /\ Newest(r) \in Nat /\ DOMAIN fetches[r] = 1..Newest(r)
                                 /\ DOMAIN fetches'[r] = 1..Newest(r)'
                                 /\ Newest(r)' = IF r \in rs THEN Newest(r) + 1 ELSE Newest(r)
                                 /\ \A n \in 1..Newest(r) : fetches'[r][n] = fetches[r][n]
                                 /\ r \notin rs => fetches'[r] = fetches[r]
          /\ \A r \in rs : fetches'[r][Newest(r) + 1] =
                               [loading |-> TRUE, response |-> IF hold THEN Shown(r) ELSE 0]
        BY <1>1, <1>6, <2>1, RequestsCalled
    <2>3. \A r \in rs : fetches'[r][Newest(r) + 1].loading
        <3> SUFFICES ASSUME NEW r \in rs PROVE fetches'[r][Newest(r) + 1].loading
            OBVIOUS
        <3> DEFINE shown == IF hold THEN Shown(r) ELSE 0
        <3>1. fetches'[r][Newest(r) + 1] = [loading |-> TRUE, response |-> shown]
            BY <2>2
        <3> HIDE DEF shown
        <3> QED
            BY <3>1
    <2> QED
        BY <2>2, <2>3
<1> DEFINE w == [calls[c] EXCEPT !.awaits = Handles(rs)]
<1>8. Handles(rs) \in SUBSET (Requests \X (1..MaxFetches))
    BY <1>6, <1>7, EventsAssumption DEF Handles
<1>9. w \in Call /\ w.stage = "runs" /\ w.event = calls[c].event /\ w.at > 0 /\ w.awaits = Handles(rs)
    BY <1>2, <1>4, <1>8 DEF Call
<1> HIDE DEF w
<1>10. PICK d : calls' = [calls EXCEPT ![c] = d] /\ d \in {Onward(calls[c]), Thrown(calls[c]), w}
    BY <1>1, <1>2, <1>3 DEF w
<1>11. /\ d \in Call /\ d.stage = "runs" /\ d.event = calls[c].event /\ d.at > 0
       /\ d.awaits = {} \/ d.awaits = Handles(rs)
    <2>1. CASE d = w
        BY <1>9, <2>1
    <2>2. CASE d \in {Onward(calls[c]), Thrown(calls[c])}
        BY <1>2, <1>4, <2>2, Steps
    <2> QED
        BY <1>10, <2>1, <2>2
<1>12. Moves
    BY <1>4, <1>10, <1>11, OneMoves
<1>13. AwaitsOK'
    <2>1. DOMAIN calls' = 1..Len(calls) /\ \A o \in 1..Len(calls) : calls'[o] = IF o = c THEN d ELSE calls[o]
        BY <1>1, <1>10, <1>11, CallMoved
    <2>2. ASSUME NEW o \in 1..Len(calls), NEW f \in calls[o].awaits
          PROVE  f[2] \in DOMAIN fetches'[f[1]] /\ fetches'[f[1]][f[2]].loading
        <3>1. f[1] \in Requests
            BY <1>1, LenProperties, AwaitsTyped
        <3>2. f[2] \in DOMAIN fetches[f[1]] /\ fetches[f[1]][f[2]].loading
            BY <1>1, <1>2 DEF AwaitsOK
        <3> QED
            BY <1>7, <3>1, <3>2
    <2>3. ASSUME NEW f \in Handles(rs)
          PROVE  f[2] \in DOMAIN fetches'[f[1]] /\ fetches'[f[1]][f[2]].loading
        <3>1. PICK r \in rs : f[1] = r /\ f[2] = Newest(r) + 1
            BY DEF Handles
        <3> QED
            BY <1>6, <1>7, <3>1
    <2> QED
        BY <1>2, <1>11, <2>1, <2>2, <2>3 DEF AwaitsOK
<1> QED
    BY <1>7, <1>12, <1>13, MovesKeep

LEMMA AnswersKeeps ==
    ASSUME IInv, NEW r \in Requests, NEW n \in DOMAIN fetches[r], Answers(r, n)
    PROVE  IInv'
<1>1. calls \in Seq(Call) /\ FetchesOK /\ AwaitsOK
    BY DEF IInv, TypeInv, CallsOK
<1> DEFINE f == <<r, n>>
<1>2. PICK ok \in BOOLEAN :
          /\ fetches' = [fetches EXCEPT ![r][n] = [loading |-> FALSE,
                                                  response |-> IF ok THEN n ELSE @.response]]
          /\ calls' = AfterAnswer(f, ok)
    BY DEF Answers
<1>3. UNCHANGED <<loading, timeouts, bouncer, history>>
    BY DEF Answers
<1>4. /\ fetches[r] \in Seq(Fetch) /\ Len(fetches[r]) \in Nat /\ DOMAIN fetches[r] = 1..Len(fetches[r])
      /\ Len(fetches[r]) <= MaxFetches /\ MaxFetches \in Nat /\ fetches[r][n] \in Fetch /\ n \in 1..MaxFetches
    BY <1>1, LenProperties, ElementOfSeq, EventsAssumption DEF FetchesOK, Newest
<1> DEFINE g == [loading |-> FALSE, response |-> IF ok THEN n ELSE fetches[r][n].response]
<1>5. g \in Fetch
    <2>1. fetches[r][n].response \in 0..MaxFetches /\ n \in 0..MaxFetches
        BY <1>4 DEF Fetch
    <2> QED
        BY <2>1 DEF Fetch
<1>6. fetches' = [fetches EXCEPT ![r] = [fetches[r] EXCEPT ![n] = g]]
    BY <1>1, <1>2 DEF FetchesOK
<1> HIDE DEF g, f
<1>7. /\ fetches'[r] \in Seq(Fetch) /\ Len(fetches'[r]) = Len(fetches[r])
      /\ DOMAIN fetches'[r] = DOMAIN fetches[r] /\ \A m \in DOMAIN fetches[r] : m # n => fetches'[r][m] = fetches[r][m]
      /\ \A s \in Requests : s # r => fetches'[s] = fetches[s]
    BY <1>1, <1>4, <1>5, <1>6, ExceptSeq, LenProperties DEF FetchesOK
<1>8. FetchesOK'
    <2>1. \A s \in Requests : fetches'[s] \in Seq(Fetch) /\ Newest(s)' <= MaxFetches
        BY <1>1, <1>7 DEF FetchesOK, Newest
    <2> QED
        BY <1>1, <1>6, <2>1 DEF FetchesOK
<1>9. /\ AfterAnswer(f, ok) \in Seq(Call) /\ Len(AfterAnswer(f, ok)) = Len(calls)
      /\ DOMAIN calls = 1..Len(calls) /\ DOMAIN AfterAnswer(f, ok) = 1..Len(calls)
      /\ \A c \in 1..Len(calls) :
            \/ f \notin calls[c].awaits /\ AfterAnswer(f, ok)[c] = calls[c]
            \/ f \in calls[c].awaits /\ AfterAnswer(f, ok)[c] \in
                   {Thrown(calls[c]), Onward(calls[c]), [calls[c] EXCEPT !.awaits = @ \ {f}]}
    BY <1>1, CallsAnswered
<1>10. ASSUME NEW c \in 1..Len(calls), f \in calls[c].awaits
       PROVE  /\ calls[c].stage = "runs" /\ calls'[c].stage = "runs"
              /\ calls'[c].event = calls[c].event /\ calls'[c].at > 0
              /\ calls'[c].awaits \in {{}, calls[c].awaits \ {f}}
    <2>1. calls[c] \in Call /\ calls[c].stage = "runs" /\ calls[c].at > 0
        BY <1>1, <1>9, <1>10, ElementOfSeq DEF IInv, WaitsInv
    <2>2. CASE calls'[c] \in {Thrown(calls[c]), Onward(calls[c])}
        BY <2>1, <2>2, Steps
    <2>3. CASE calls'[c] = [calls[c] EXCEPT !.awaits = @ \ {f}]
        BY <2>1, <2>3 DEF Call
    <2> QED
        BY <1>2, <1>9, <1>10, <2>2, <2>3
<1>11. \A c \in 1..Len(calls) : f \notin calls[c].awaits => calls'[c] = calls[c]
    BY <1>2, <1>9
<1>12. calls' \in Seq(Call) /\ Len(calls') = Len(calls) /\ DOMAIN calls' = 1..Len(calls)
    BY <1>2, <1>9
<1>13. Moves
    BY <1>3, <1>10, <1>11, <1>12 DEF Moves
<1>14. AwaitsOK'
    <2> SUFFICES ASSUME NEW c \in 1..Len(calls), NEW h \in calls'[c].awaits
                 PROVE  h[2] \in DOMAIN fetches'[h[1]] /\ fetches'[h[1]][h[2]].loading
        BY <1>12 DEF AwaitsOK
    <2>1. h \in calls[c].awaits /\ h # f
        BY <1>10, <1>11
    <2>2. h[1] \in Requests /\ h = <<h[1], h[2]>>
        <3>1. calls[c].awaits \in SUBSET (Requests \X (1..MaxFetches))
            <4>1. calls[c] \in Call
                BY <1>1, <1>9, ElementOfSeq
            <4> QED
                BY <4>1 DEF Call
        <3> QED
            BY <2>1, <3>1
    <2>3. h[2] \in DOMAIN fetches[h[1]] /\ fetches[h[1]][h[2]].loading
        BY <1>1, <1>9, <2>1 DEF AwaitsOK
    <2>4. h[1] # r \/ h[2] # n
        BY <2>1, <2>2 DEF f
    <2>5. CASE h[1] # r
        BY <1>7, <2>2, <2>3, <2>5
    <2>6. CASE h[1] = r /\ h[2] # n
        <3>1. fetches'[r][h[2]] = fetches[r][h[2]] /\ h[2] \in DOMAIN fetches'[r]
            BY <1>7, <2>3, <2>6
        <3> QED
            BY <2>3, <2>6, <3>1
    <2> QED
        BY <2>4, <2>5, <2>6
<1> QED
    BY <1>8, <1>13, <1>14, MovesKeep

-----------------------------------------------------------------------------
\* Logs stay true while no call settles, and when one settles and is logged.
LEMMA UnloggedKeeps ==
    ASSUME IInv, calls' \in Seq(Call), Len(calls) <= Len(calls'), history' = history,
           \A o \in 1..Len(calls) : calls[o].stage = "done" => calls'[o] = calls[o],
           \A o \in 1..Len(calls') : calls'[o].stage = "done" => o <= Len(calls) /\ calls[o].stage = "done"
    PROVE  LogsOK' /\ LogInv'
<1>1. calls \in Seq(Call) /\ Len(calls) \in Nat /\ Len(calls') \in Nat
    BY LenProperties DEF IInv, TypeInv, CallsOK
<1>2. DOMAIN calls = 1..Len(calls) /\ DOMAIN calls' = 1..Len(calls')
    BY <1>1, LenProperties
<1>3. LogsOK'
    BY <1>1, LogsStay DEF IInv, TypeInv, LogsOK
<1>4. LoggedAsRun'
    BY <1>1, <1>2 DEF IInv, LogInv, LoggedAsRun
<1>5. LoggedOnce'
    BY DEF IInv, LogInv, LoggedOnce
<1>6. SettledIsLogged'
    BY <1>1, <1>2 DEF IInv, LogInv, SettledIsLogged
<1> QED
    BY <1>3, <1>4, <1>5, <1>6 DEF LogInv

LEMMA LoggedKeeps ==
    ASSUME IInv, calls' \in Seq(Call), Len(calls) <= Len(calls'),
           NEW e \in Events, NEW c \in 1..Len(calls'), NEW bounced \in BOOLEAN,
           history' = [history EXCEPT ![e] = Logged(e, c, bounced)],
           c <= Len(calls) => calls[c].stage # "done",
           calls'[c].event = e, calls'[c].stage = "done", bounced <=> calls'[c].at = 0,
           \A o \in 1..Len(calls) : calls[o].stage = "done" => calls'[o] = calls[o],
           \A o \in 1..Len(calls') : o # c /\ calls'[o].stage = "done" =>
                                        o <= Len(calls) /\ calls[o].stage = "done"
    PROVE  LogsOK' /\ LogInv'
<1>1. calls \in Seq(Call) /\ Len(calls) \in Nat /\ Len(calls') \in Nat
    BY LenProperties DEF IInv, TypeInv, CallsOK
<1>2. DOMAIN calls = 1..Len(calls) /\ DOMAIN calls' = 1..Len(calls')
    BY <1>1, LenProperties
<1>3. history \in [Events -> Seq(Logs(Len(calls')))]
    BY <1>1, LogsStay DEF IInv, TypeInv, LogsOK
<1>4. /\ history' \in [Events -> Seq(Logs(Len(calls')))]
      /\ Len(history[e]) \in Nat /\ DOMAIN history[e] = 1..Len(history[e])
      /\ DOMAIN history'[e] = 1..Len(history[e]) + 1
      /\ \A i \in 1..Len(history[e]) : history'[e][i] = history[e][i]
      /\ history'[e][Len(history[e]) + 1] = [call |-> c, bounced |-> bounced]
    <2>1. history'[e] = Logged(e, c, bounced)
        BY <1>3
    <2> DEFINE n == Len(calls')
    <2>2. n \in Nat /\ history \in [Events -> Seq(Logs(n))] /\ c \in 1..n
        BY <1>1, <1>3
    <2> HIDE DEF n
    <2>3. /\ [history EXCEPT ![e] = Logged(e, c, bounced)] \in [Events -> Seq(Logs(n))]
          /\ Len(history[e]) \in Nat /\ DOMAIN history[e] = 1..Len(history[e])
          /\ DOMAIN Logged(e, c, bounced) = 1..Len(history[e]) + 1
          /\ \A i \in 1..Len(history[e]) : Logged(e, c, bounced)[i] = history[e][i]
          /\ Logged(e, c, bounced)[Len(history[e]) + 1] = [call |-> c, bounced |-> bounced]
        BY <2>2, LogsGrow
    <2> QED
        BY <2>1, <2>3 DEF n
<1>5. \A x \in Events : x # e => history'[x] = history[x]
    BY <1>3
<1>6. LoggedAsRun /\ LoggedOnce /\ SettledIsLogged
    BY DEF IInv, LogInv
<1>7. \A x \in Events : \A i \in DOMAIN history[x] : history[x][i].call # c /\ history[x][i].call \in 1..Len(calls)
    BY <1>2, <1>6 DEF LoggedAsRun
<1>8. LoggedAsRun'
    <2> SUFFICES ASSUME NEW x \in Events, NEW i \in DOMAIN history'[x]
                 PROVE  LET o == history'[x][i].call
                        IN  /\ o \in DOMAIN calls' /\ calls'[o].event = x /\ calls'[o].stage = "done"
                            /\ history'[x][i].bounced <=> calls'[o].at = 0
        BY DEF LoggedAsRun
    <2>1. CASE x = e /\ i = Len(history[e]) + 1
        BY <1>2, <1>4, <2>1
    <2>2. CASE ~(x = e /\ i = Len(history[e]) + 1)
        <3>1. i \in DOMAIN history[x] /\ history'[x][i] = history[x][i]
            BY <1>4, <1>5, <2>2
        <3> QED
            BY <1>1, <1>2, <1>6, <3>1 DEF LoggedAsRun
    <2> QED
        BY <2>1, <2>2
<1>9. LoggedOnce'
    <2> SUFFICES ASSUME NEW x \in Events, NEW i \in DOMAIN history'[x], NEW j \in DOMAIN history'[x],
                        history'[x][i].call = history'[x][j].call
                 PROVE  i = j
        BY DEF LoggedOnce
    <2>1. CASE x # e
        BY <1>5, <1>6, <2>1 DEF LoggedOnce
    <2>2. CASE x = e
        <3>1. \A k \in DOMAIN history'[e] :
                  \/ k \in DOMAIN history[e] /\ history'[e][k] = history[e][k]
                  \/ k = Len(history[e]) + 1 /\ history'[e][k].call = c
            BY <1>4
        <3> QED
            BY <1>6, <1>7, <2>2, <3>1 DEF LoggedOnce
    <2> QED
        BY <2>1, <2>2
<1>10. SettledIsLogged'
    <2> SUFFICES ASSUME NEW o \in 1..Len(calls'), calls'[o].stage = "done"
                 PROVE  \E i \in DOMAIN history'[calls'[o].event] : history'[calls'[o].event][i].call = o
        BY <1>2 DEF SettledIsLogged
    <2>1. CASE o = c
        BY <1>4, <2>1
    <2>2. CASE o # c
        <3>1. o \in 1..Len(calls) /\ calls[o].stage = "done" /\ calls'[o] = calls[o]
            BY <1>1, <2>2
        <3>2. PICK i \in DOMAIN history[calls[o].event] : history[calls[o].event][i].call = o
            BY <1>2, <1>6, <3>1 DEF SettledIsLogged
        <3>3. calls[o].event \in Events
            <4>1. calls[o] \in Call
                BY <1>1, <3>1, ElementOfSeq
            <4> QED
                BY <4>1 DEF Call
        <3>4. i \in DOMAIN history'[calls[o].event] /\ history'[calls[o].event][i] = history[calls[o].event][i]
            BY <1>4, <1>5, <3>3
        <3> QED
            BY <3>1, <3>2, <3>4
    <2> QED
        BY <2>1, <2>2
<1> QED
    BY <1>4, <1>8, <1>9, <1>10 DEF LogsOK, LogInv

LEMMA AwaitsKept ==
    ASSUME AwaitsOK, UNCHANGED fetches,
           \A o \in DOMAIN calls' : \/ calls'[o].awaits = {}
                                    \/ o \in DOMAIN calls /\ calls'[o].awaits = calls[o].awaits
    PROVE  AwaitsOK'
    BY DEF AwaitsOK

LEMMA TrailingTimeoutKeeps ==
    ASSUME IInv, NEW c \in DOMAIN calls, TrailingTimeout(c)
    PROVE  IInv'
<1>1. calls \in Seq(Call) /\ Len(calls) <= MaxCalls
    BY DEF IInv, TypeInv, CallsOK
<1>2. /\ calls[c].stage = "timer" /\ calls' = [calls EXCEPT ![c] = Running(calls[c])]
      /\ bouncer' = [bouncer EXCEPT ![calls[c].event] = None]
      /\ UNCHANGED <<loading, timeouts, history, fetches>>
    BY DEF TrailingTimeout
<1>3. calls[c] \in Call /\ Running(calls[c]) \in Call
    <2>1. calls[c] \in Call
        BY <1>1, ElementOfSeq, LenProperties
    <2> QED
        BY <2>1, CallMoves
<1>4. /\ Running(calls[c]).stage = "runs" /\ Running(calls[c]).at = 1
      /\ Running(calls[c]).event = calls[c].event /\ Running(calls[c]).awaits = calls[c].awaits
      /\ calls[c].event \in Events
    BY <1>3 DEF Running, Call
<1>5. /\ calls' \in Seq(Call) /\ Len(calls') = Len(calls) /\ Len(calls) \in Nat
      /\ DOMAIN calls = 1..Len(calls) /\ DOMAIN calls' = 1..Len(calls)
      /\ \A o \in 1..Len(calls) : calls'[o] = IF o = c THEN Running(calls[c]) ELSE calls[o]
    BY <1>1, <1>2, <1>3, CallMoved
<1>6. CallsOK' /\ FlagsOK'
    BY <1>1, <1>2, <1>5 DEF IInv, TypeInv, CallsOK, FlagsOK
<1>7. FetchesOK' /\ AwaitsOK'
    <2>1. FetchesOK'
        BY <1>2 DEF IInv, TypeInv, FetchesOK, Newest
    <2>2. AwaitsOK
        BY DEF IInv, TypeInv
    <2> QED
        BY <1>2, <1>4, <1>5, <2>1, <2>2, AwaitsKept
<1>8. LogsOK' /\ LogInv'
    BY <1>2, <1>4, <1>5, UnloggedKeeps
<1>9. WaitsInv'
    BY <1>2, <1>4, <1>5 DEF IInv, TypeInv, FlagsOK, WaitsInv
<1>10. BouncerInv'
    BY <1>2, <1>4, <1>5 DEF IInv, TypeInv, FlagsOK, BouncerInv
<1>11. LoadingIsBusy'
    BY <1>2, <1>4, <1>5 DEF IInv, LoadingIsBusy, CallsOf
<1> QED
    BY <1>6, <1>7, <1>8, <1>9, <1>10, <1>11 DEF IInv, TypeInv

LEMMA EndsKeeps ==
    ASSUME IInv, NEW c \in DOMAIN calls, Ends(c)
    PROVE  IInv'
<1> DEFINE e == calls[c].event
           d == [calls[c] EXCEPT !.stage = "done"]
<1>1. calls \in Seq(Call) /\ Len(calls) <= MaxCalls
    BY DEF IInv, TypeInv, CallsOK
<1>2. calls[c] \in Call /\ e \in Events
    <2>1. calls[c] \in Call
        BY <1>1, ElementOfSeq, LenProperties
    <2> QED
        BY <2>1 DEF Call
<1>3. /\ calls[c].stage = "runs" /\ calls[c].awaits = {} /\ calls[c].at > 0
      /\ calls' = [calls EXCEPT ![c] = d]
      /\ history' = [history EXCEPT ![e] = Logged(e, c, FALSE)]
      /\ loading' = [loading EXCEPT ![e] = FALSE]
      /\ UNCHANGED <<timeouts, bouncer, fetches>>
    BY <1>1 DEF Ends, Acting, IInv, WaitsInv
<1>4. d \in Call /\ d.stage = "done" /\ d.event = e /\ d.awaits = {} /\ d.at = calls[c].at
    BY <1>2, <1>3 DEF Call
<1> HIDE DEF d
<1>5. /\ calls' \in Seq(Call) /\ Len(calls') = Len(calls) /\ Len(calls) \in Nat
      /\ DOMAIN calls = 1..Len(calls) /\ DOMAIN calls' = 1..Len(calls)
      /\ \A o \in 1..Len(calls) : calls'[o] = IF o = c THEN d ELSE calls[o]
    BY <1>1, <1>3, <1>4, CallMoved
<1>6. calls[c].at \in Nat
    BY <1>2 DEF Call
<1>7. CallsOK' /\ FlagsOK'
    BY <1>1, <1>2, <1>3, <1>5 DEF IInv, TypeInv, CallsOK, FlagsOK
<1>8. FetchesOK' /\ AwaitsOK'
    <2>1. FetchesOK'
        BY <1>3 DEF IInv, TypeInv, FetchesOK, Newest
    <2>2. AwaitsOK
        BY DEF IInv, TypeInv
    <2> QED
        BY <1>3, <1>4, <1>5, <2>1, <2>2, AwaitsKept
<1>9. LogsOK' /\ LogInv'
    <2> DEFINE bounced == FALSE
    <2>1. bounced \in BOOLEAN /\ (bounced <=> calls'[c].at = 0)
        BY <1>3, <1>4, <1>5, <1>6
    <2>2. history' = [history EXCEPT ![e] = Logged(e, c, bounced)]
        BY <1>3
    <2> HIDE DEF bounced, e
    <2>3. c \in 1..Len(calls') /\ calls'[c].event = e /\ calls'[c].stage = "done" /\ calls[c].stage # "done"
        BY <1>3, <1>4, <1>5
    <2>4. /\ \A o \in 1..Len(calls) : calls[o].stage = "done" => calls'[o] = calls[o]
          /\ \A o \in 1..Len(calls') : o # c /\ calls'[o].stage = "done" =>
                                       o <= Len(calls) /\ calls[o].stage = "done"
          /\ Len(calls) <= Len(calls')
        BY <1>3, <1>4, <1>5
    <2> QED
        BY <1>2, <1>5, <2>1, <2>2, <2>3, <2>4, LoggedKeeps
<1>10. WaitsInv'
    BY <1>3, <1>4, <1>5 DEF IInv, WaitsInv
<1>11. BouncerInv'
    BY <1>3, <1>4, <1>5 DEF IInv, BouncerInv
<1>12. LoadingIsBusy'
    <2> SUFFICES ASSUME NEW x \in Events, Debounce[x] # "leading", loading'[x]
                 PROVE  \E o \in DOMAIN calls' : calls'[o].event = x /\ calls'[o].stage # "done"
        BY DEF LoadingIsBusy, CallsOf
    <2>1. x # e /\ loading[x]
        BY <1>2, <1>3 DEF IInv, TypeInv, FlagsOK
    <2>2. PICK o \in DOMAIN calls : calls[o].event = x /\ calls[o].stage # "done"
        BY <2>1 DEF IInv, LoadingIsBusy, CallsOf
    <2> QED
        BY <1>5, <2>1, <2>2
<1> QED
    BY <1>7, <1>8, <1>9, <1>10, <1>11, <1>12 DEF IInv, TypeInv

LEMMA NewCalls ==
    ASSUME NEW e \in Events
    PROVE  /\ Waiting(e) \in Call /\ Running(Waiting(e)) \in Call /\ Bounced(Waiting(e)) \in Call
           /\ Waiting(e).stage = "timer" /\ Waiting(e).at = 0
           /\ Running(Waiting(e)).stage = "runs" /\ Running(Waiting(e)).at = 1
           /\ Bounced(Waiting(e)).stage = "done" /\ Bounced(Waiting(e)).at = 0
           /\ \A d \in {Waiting(e), Running(Waiting(e)), Bounced(Waiting(e))} : d.event = e /\ d.awaits = {}
<1>1. Waiting(e) \in Call
    BY DEF Waiting, Call
<1>2. Running(Waiting(e)) \in Call /\ Bounced(Waiting(e)) \in Call
    BY <1>1, CallMoves
<1>3. Waiting(e).stage = "timer" /\ Waiting(e).at = 0 /\ Waiting(e).event = e /\ Waiting(e).awaits = {}
    BY DEF Waiting
<1>4. /\ Running(Waiting(e)).stage = "runs" /\ Running(Waiting(e)).at = 1
      /\ Running(Waiting(e)).event = e /\ Running(Waiting(e)).awaits = {}
    BY DEF Waiting, Running
<1>5. /\ Bounced(Waiting(e)).stage = "done" /\ Bounced(Waiting(e)).at = 0
      /\ Bounced(Waiting(e)).event = e /\ Bounced(Waiting(e)).awaits = {}
    BY DEF Waiting, Bounced
<1> QED
    BY <1>1, <1>2, <1>3, <1>4, <1>5

\* The types after a call is added, and earlier ones at most bounced.
LEMMA CallAdded ==
    ASSUME IInv, NEW e \in Events, NEW cs \in Seq(Call), Len(cs) = Len(calls), Len(calls) < MaxCalls,
           NEW d \in Call, d.awaits = {}, calls' = Append(cs, d), UNCHANGED fetches,
           \A o \in 1..Len(calls) : cs[o].awaits = calls[o].awaits
    PROVE  /\ CallsOK' /\ FetchesOK' /\ AwaitsOK' /\ Len(calls) \in Nat /\ Len(calls') = Len(calls) + 1
           /\ DOMAIN calls = 1..Len(calls) /\ DOMAIN calls' = 1..Len(calls) + 1
           /\ \A o \in 1..Len(calls) : calls'[o] = cs[o]
           /\ calls'[Len(calls) + 1] = d
<1>1. calls \in Seq(Call) /\ AwaitsOK /\ MaxCalls \in Nat
    BY EventsAssumption DEF IInv, TypeInv, CallsOK
<1>2. /\ calls' \in Seq(Call) /\ Len(cs) \in Nat /\ Len(calls') = Len(cs) + 1
      /\ DOMAIN calls' = 1..Len(cs) + 1 /\ \A o \in 1..Len(cs) : calls'[o] = cs[o]
      /\ calls'[Len(cs) + 1] = d
    BY Appended
<1>3. DOMAIN calls = 1..Len(calls)
    BY <1>1, LenProperties
<1>4. FetchesOK'
    BY DEF IInv, TypeInv, FetchesOK, Newest
<1>5. AwaitsOK'
    <2>1. \A o \in DOMAIN calls' : \/ calls'[o].awaits = {}
                                   \/ o \in DOMAIN calls /\ calls'[o].awaits = calls[o].awaits
        BY <1>2, <1>3
    <2> QED
        BY <1>1, <2>1 DEF AwaitsOK
<1> QED
    BY <1>1, <1>2, <1>3, <1>4, <1>5 DEF CallsOK

LEMMA TriggerRunsKeeps ==
    ASSUME IInv, NEW e \in Events, Len(calls) < MaxCalls, Debounce[e] # "trailing",
           calls' = Append(calls, Running(Waiting(e))), timeouts' \subseteq Events,
           loading' = [loading EXCEPT ![e] = TRUE], UNCHANGED <<bouncer, history, fetches>>
    PROVE  IInv'
<1> DEFINE d == Running(Waiting(e))
<1>1. calls \in Seq(Call)
    BY DEF IInv, TypeInv, CallsOK
<1>2. d \in Call /\ d.stage = "runs" /\ d.at = 1 /\ d.event = e /\ d.awaits = {}
    BY NewCalls
<1> HIDE DEF d
<1>3. calls' = Append(calls, d)
    BY DEF d
<1>4. /\ CallsOK' /\ FetchesOK' /\ AwaitsOK' /\ Len(calls) \in Nat /\ Len(calls') = Len(calls) + 1
      /\ DOMAIN calls = 1..Len(calls) /\ DOMAIN calls' = 1..Len(calls) + 1
      /\ \A o \in 1..Len(calls) : calls'[o] = calls[o]
      /\ calls'[Len(calls) + 1] = d
    BY <1>1, <1>2, <1>3, CallAdded
<1>5. FlagsOK'
    BY <1>4 DEF IInv, TypeInv, FlagsOK
<1>6. LogsOK' /\ LogInv'
    BY <1>2, <1>4, UnloggedKeeps DEF CallsOK
<1>7. WaitsInv'
    BY <1>2, <1>4 DEF IInv, WaitsInv
<1>8. BouncerInv'
    BY <1>2, <1>4 DEF IInv, BouncerInv
<1>9. LoadingIsBusy'
    <2> SUFFICES ASSUME NEW x \in Events, Debounce[x] # "leading", loading'[x]
                 PROVE  \E o \in DOMAIN calls' : calls'[o].event = x /\ calls'[o].stage # "done"
        BY DEF LoadingIsBusy, CallsOf
    <2>1. CASE x = e
        BY <1>2, <1>4, <2>1
    <2>2. CASE x # e
        <3>1. loading[x]
            BY <2>2 DEF IInv, TypeInv, FlagsOK
        <3>2. PICK o \in DOMAIN calls : calls[o].event = x /\ calls[o].stage # "done"
            BY <3>1 DEF IInv, LoadingIsBusy, CallsOf
        <3> QED
            BY <1>4, <3>2
    <2> QED
        BY <2>1, <2>2
<1> QED
    BY <1>4, <1>5, <1>6, <1>7, <1>8, <1>9 DEF IInv, TypeInv

LEMMA TriggerBouncedKeeps ==
    ASSUME IInv, NEW e \in Events, Trigger(e), Debounce[e] = "leading", e \in timeouts
    PROVE  IInv'
<1> DEFINE d == Bounced(Waiting(e))
<1>0. /\ Len(calls) < MaxCalls
      /\ calls' = Append(calls, Bounced(Waiting(e))) /\ loading' = [loading EXCEPT ![e] = TRUE]
      /\ UNCHANGED <<timeouts, bouncer, fetches>>
    BY DEF Trigger, TriggerNow, TriggerLeading, TriggerTrailing
<1>1. calls \in Seq(Call)
    BY DEF IInv, TypeInv, CallsOK
<1>2. d \in Call /\ d.stage = "done" /\ d.at = 0 /\ d.event = e /\ d.awaits = {}
    BY NewCalls
<1> HIDE DEF d
<1>3. calls' = Append(calls, d)
    BY <1>0 DEF d
<1>4. /\ CallsOK' /\ FetchesOK' /\ AwaitsOK' /\ Len(calls) \in Nat /\ Len(calls') = Len(calls) + 1
      /\ DOMAIN calls = 1..Len(calls) /\ DOMAIN calls' = 1..Len(calls) + 1
      /\ \A o \in 1..Len(calls) : calls'[o] = calls[o]
      /\ calls'[Len(calls) + 1] = d
    BY <1>0, <1>1, <1>2, <1>3, CallAdded
<1>5. FlagsOK'
    BY <1>0, <1>4 DEF IInv, TypeInv, FlagsOK
<1>6. LogsOK' /\ LogInv'
    <2> DEFINE bounced == TRUE
    <2>0. PICK c : c = Len(calls')
        OBVIOUS
    <2>1. bounced \in BOOLEAN /\ (bounced <=> calls'[c].at = 0)
        BY <1>2, <1>4, <2>0
    <2>2. history' = [history EXCEPT ![e] = Logged(e, c, bounced)]
        BY <2>0 DEF Trigger, TriggerNow, TriggerLeading, TriggerTrailing
    <2>3. c \in 1..Len(calls') /\ (c <= Len(calls) => calls[c].stage # "done") /\ calls'[c].event = e /\ calls'[c].stage = "done"
        BY <1>2, <1>4, <2>0
    <2>4. /\ \A o \in 1..Len(calls) : calls[o].stage = "done" => calls'[o] = calls[o]
          /\ \A o \in 1..Len(calls') : o # c /\ calls'[o].stage = "done" =>
                                       o <= Len(calls) /\ calls[o].stage = "done"
          /\ Len(calls) <= Len(calls') /\ calls' \in Seq(Call)
        BY <1>4, <2>0 DEF CallsOK
    <2> HIDE DEF bounced
    <2> QED
        BY <2>1, <2>2, <2>3, <2>4, LoggedKeeps
<1>7. WaitsInv'
    BY <1>0, <1>2, <1>4 DEF IInv, WaitsInv
<1>8. BouncerInv'
    BY <1>0, <1>2, <1>4 DEF IInv, BouncerInv
<1>9. LoadingIsBusy'
    <2> SUFFICES ASSUME NEW x \in Events, Debounce[x] # "leading", loading'[x]
                 PROVE  \E o \in DOMAIN calls' : calls'[o].event = x /\ calls'[o].stage # "done"
        BY DEF LoadingIsBusy, CallsOf
    <2>1. x # e /\ loading[x]
        BY <1>0 DEF IInv, TypeInv, FlagsOK
    <2>2. PICK o \in DOMAIN calls : calls[o].event = x /\ calls[o].stage # "done"
        BY <2>1 DEF IInv, LoadingIsBusy, CallsOf
    <2> QED
        BY <1>4, <2>2
<1> QED
    BY <1>4, <1>5, <1>6, <1>7, <1>8, <1>9 DEF IInv, TypeInv

LEMMA TriggerTrailingKeeps ==
    ASSUME IInv, NEW e \in Events, Trigger(e), Debounce[e] = "trailing"
    PROVE  IInv'
<1> DEFINE d == Waiting(e)
           cs == BouncedCalls(e)
           b == bouncer[e]
<1>1. /\ Len(calls) < MaxCalls /\ calls' = Append(cs, d) /\ loading' = [loading EXCEPT ![e] = TRUE]
      /\ bouncer' = [bouncer EXCEPT ![e] = Len(calls')] /\ UNCHANGED <<timeouts, fetches>>
    BY DEF Trigger, TriggerNow, TriggerLeading, TriggerTrailing
<1>2. /\ b = None => history' = history
      /\ b # None => history' = [history EXCEPT ![e] = Logged(e, b, TRUE)]
    BY DEF Trigger, TriggerNow, TriggerLeading, TriggerTrailing
<1>3. calls \in Seq(Call) /\ Len(calls) \in Nat /\ DOMAIN calls = 1..Len(calls)
    BY LenProperties DEF IInv, TypeInv, CallsOK
<1>4. /\ d \in Call /\ d.stage = "timer" /\ d.at = 0 /\ d.event = e /\ d.awaits = {}
    BY NewCalls
<1>5. b # None => /\ b \in 1..Len(calls) /\ calls[b].stage = "timer" /\ calls[b].event = e
                  /\ calls[b].at = 0 /\ calls[b] \in Call
    BY <1>3, ElementOfSeq DEF IInv, TypeInv, FlagsOK, BouncerInv, WaitsInv
<1>6. b # None => LET s == Bounced(calls[b])
                  IN  s \in Call /\ s.stage = "done" /\ s.at = 0 /\ s.event = e /\ s.awaits = calls[b].awaits
    <2> SUFFICES ASSUME b # None
                 PROVE  LET s == Bounced(calls[b])
                        IN  s \in Call /\ s.stage = "done" /\ s.at = 0 /\ s.event = e /\ s.awaits = calls[b].awaits
        OBVIOUS
    <2>1. Bounced(calls[b]) \in Call
        BY <1>5, CallMoves
    <2>2. /\ Bounced(calls[b]).stage = "done" /\ Bounced(calls[b]).at = calls[b].at
          /\ Bounced(calls[b]).event = calls[b].event /\ Bounced(calls[b]).awaits = calls[b].awaits
        BY <1>5 DEF Bounced, Call
    <2> QED
        BY <1>5, <2>1, <2>2
<1>7. /\ cs \in Seq(Call) /\ Len(cs) = Len(calls)
      /\ \A o \in 1..Len(calls) : cs[o] = IF o = b THEN Bounced(calls[b]) ELSE calls[o]
    <2>1. CASE b = None
        BY <1>3, <2>1, EventsAssumption DEF BouncedCalls
    <2>2. CASE b # None
        <3>1. cs = [calls EXCEPT ![b] = Bounced(calls[b])]
            BY <1>3, <1>5, <2>2 DEF BouncedCalls
        <3>2. b \in DOMAIN calls /\ Bounced(calls[b]) \in Call
            BY <1>3, <1>5, <1>6, <2>2
        <3> QED
            BY <1>3, <3>1, <3>2, CallMoved
    <2> QED
        BY <2>1, <2>2
<1>8. b \in 1..Len(calls) => b # None
    BY EventsAssumption
<1>9. \A o \in 1..Len(calls) : cs[o].awaits = calls[o].awaits
    BY <1>6, <1>7, <1>8
<1> HIDE DEF d, cs
<1>10. /\ CallsOK' /\ FetchesOK' /\ AwaitsOK' /\ Len(calls') = Len(calls) + 1
       /\ DOMAIN calls' = 1..Len(calls) + 1
       /\ \A o \in 1..Len(calls) : calls'[o] = IF o = b THEN Bounced(calls[b]) ELSE calls[o]
       /\ calls'[Len(calls) + 1] = d
    BY <1>1, <1>4, <1>7, <1>9, CallAdded
<1> HIDE DEF b
<1>11. FlagsOK'
    BY <1>1, <1>3, <1>10 DEF IInv, TypeInv, FlagsOK
<1>12. LogsOK' /\ LogInv'
    <2>1. /\ \A o \in 1..Len(calls) : calls[o].stage = "done" => calls'[o] = calls[o]
          /\ \A o \in 1..Len(calls') : o # b /\ calls'[o].stage = "done" =>
                                       o <= Len(calls) /\ calls[o].stage = "done"
          /\ Len(calls) <= Len(calls') /\ calls' \in Seq(Call)
        BY <1>3, <1>4, <1>5, <1>8, <1>10 DEF CallsOK
    <2>2. CASE b = None
        <3>1. \A o \in 1..Len(calls') : o # b
            BY <1>3, <1>10, <2>2, EventsAssumption
        <3> QED
            BY <1>2, <2>1, <2>2, <3>1, UnloggedKeeps
    <2>3. CASE b # None
        <3>1. PICK c : c = b
            OBVIOUS
        <3> DEFINE bounced == TRUE
        <3>2. bounced \in BOOLEAN /\ (bounced <=> calls'[c].at = 0)
            BY <1>5, <1>6, <1>10, <2>3, <3>1
        <3>3. history' = [history EXCEPT ![e] = Logged(e, c, bounced)]
            BY <1>2, <2>3, <3>1
        <3>4. /\ c \in 1..Len(calls') /\ calls'[c].event = e /\ calls'[c].stage = "done"
              /\ c <= Len(calls) => calls[c].stage # "done"
            BY <1>3, <1>5, <1>6, <1>10, <2>3, <3>1
        <3>5. \A o \in 1..Len(calls') : o # c /\ calls'[o].stage = "done" =>
                                       o <= Len(calls) /\ calls[o].stage = "done"
            BY <2>1, <3>1
        <3> HIDE DEF bounced
        <3> QED
            BY <2>1, <3>2, <3>3, <3>4, <3>5, LoggedKeeps
    <2> QED
        BY <2>2, <2>3
<1>13. WaitsInv'
    <2>1. \A o \in 1..Len(calls) : calls[o].stage = "timer" /\ calls[o].event = e => o = b
        BY <1>3 DEF IInv, WaitsInv, b
    <2>2. \A o \in 1..Len(calls) : o # b => calls'[o] = calls[o]
        BY <1>10
    <2>3. \A o \in 1..Len(calls) : calls'[o].event = calls[o].event
        BY <1>5, <1>6, <1>8, <1>10
    <2>4. bouncer'[e] = Len(calls) + 1 /\ \A x \in Events : x # e => bouncer'[x] = bouncer[x]
        BY <1>1, <1>10 DEF IInv, TypeInv, FlagsOK
    <2>5. b \in 1..Len(calls) => calls'[b].stage = "done" /\ calls'[b].awaits = calls[b].awaits /\ calls[b].stage = "timer"
        BY <1>5, <1>6, <1>8, <1>10
    <2>6. \A o \in 1..Len(calls) : calls[o].event \in Events
        <3>1. \A o \in 1..Len(calls) : calls[o] \in Call
            BY <1>3, ElementOfSeq
        <3> QED
            BY <3>1 DEF Call
    <2> SUFFICES ASSUME NEW c \in DOMAIN calls'
                 PROVE  /\ calls'[c].stage = "timer" =>
                               /\ calls'[c].at = 0 /\ Debounce[calls'[c].event] = "trailing"
                               /\ bouncer'[calls'[c].event] = c
                               /\ \A o \in DOMAIN calls' : calls'[o].event = calls'[c].event => o <= c
                        /\ calls'[c].stage = "runs" => calls'[c].at > 0
                        /\ calls'[c].awaits # {} => calls'[c].stage = "runs"
        BY DEF WaitsInv
    <2>7. CASE c = Len(calls) + 1
        BY <1>3, <1>4, <1>10, <2>4, <2>7
    <2>8. CASE c \in 1..Len(calls) /\ c = b
        BY <1>3, <2>5, <2>8 DEF IInv, WaitsInv
    <2>9. CASE c \in 1..Len(calls) /\ c # b
        <3>1. calls'[c] = calls[c]
            BY <2>2, <2>9
        <3>2. calls[c].stage = "timer" => calls[c].event # e
            BY <2>1, <2>9
        <3> QED
            BY <1>3, <1>4, <1>10, <2>3, <2>4, <2>6, <2>9, <3>1, <3>2 DEF IInv, WaitsInv
    <2> QED
        BY <1>3, <1>10, <2>7, <2>8, <2>9
<1>14. BouncerInv'
    BY <1>1, <1>3, <1>4, <1>5, <1>10 DEF IInv, TypeInv, FlagsOK, BouncerInv
<1>15. LoadingIsBusy'
    <2> SUFFICES ASSUME NEW x \in Events, Debounce[x] # "leading", loading'[x]
                 PROVE  \E o \in DOMAIN calls' : calls'[o].event = x /\ calls'[o].stage # "done"
        BY DEF LoadingIsBusy, CallsOf
    <2>1. CASE x = e
        BY <1>3, <1>4, <1>10, <2>1
    <2>2. CASE x # e
        <3>1. loading[x]
            BY <1>1, <2>2 DEF IInv, TypeInv, FlagsOK
        <3>2. PICK o \in DOMAIN calls : calls[o].event = x /\ calls[o].stage # "done"
            BY <3>1 DEF IInv, LoadingIsBusy, CallsOf
        <3> QED
            BY <1>3, <1>5, <1>8, <1>10, <2>2, <3>2
    <2> QED
        BY <2>1, <2>2
<1> QED
    BY <1>10, <1>11, <1>12, <1>13, <1>14, <1>15 DEF IInv, TypeInv

LEMMA TriggerKeeps ==
    ASSUME IInv, NEW e \in Events, Trigger(e)
    PROVE  IInv'
<1>1. Debounce[e] \in {"none", "leading", "trailing"} /\ timeouts \subseteq Events
    BY EventsAssumption DEF IInv, TypeInv, FlagsOK
<1>2. CASE Debounce[e] = "trailing"
    BY <1>2, TriggerTrailingKeeps
<1>3. CASE Debounce[e] = "leading" /\ e \in timeouts
    BY <1>3, TriggerBouncedKeeps
<1>4. ASSUME Debounce[e] # "trailing", Debounce[e] = "leading" => e \notin timeouts PROVE IInv'
    <2>1. /\ Len(calls) < MaxCalls /\ calls' = Append(calls, Running(Waiting(e)))
          /\ timeouts' \subseteq Events /\ loading' = [loading EXCEPT ![e] = TRUE]
          /\ UNCHANGED <<bouncer, history, fetches>>
        BY <1>1, <1>4 DEF Trigger, TriggerNow, TriggerLeading, TriggerTrailing
    <2> QED
        BY <1>4, <2>1, TriggerRunsKeeps
<1>5. CASE e \in timeouts
    BY <1>1, <1>2, <1>3, <1>4, <1>5
<1>6. CASE e \notin timeouts
    BY <1>2, <1>4, <1>6
<1> QED
    BY <1>5, <1>6

LEMMA LeadingTimeoutKeeps ==
    ASSUME IInv, NEW e \in Events, LeadingTimeout(e)
    PROVE  IInv'
<1>1. timeouts' \subseteq Events /\ UNCHANGED <<calls, loading, bouncer, history, fetches>>
    BY DEF LeadingTimeout, IInv, TypeInv, FlagsOK
<1>2. TypeInv'
    BY <1>1 DEF IInv, TypeInv, CallsOK, FlagsOK, LogsOK, FetchesOK, AwaitsOK, Newest, Logs
<1>3. WaitsInv' /\ BouncerInv' /\ LoadingIsBusy'
    BY <1>1 DEF IInv, WaitsInv, BouncerInv, LoadingIsBusy, CallsOf
<1>4. LogInv'
    BY <1>1 DEF IInv, LogInv, LoggedAsRun, LoggedOnce, SettledIsLogged
<1> QED
    BY <1>2, <1>3, <1>4 DEF IInv

LEMMA StutterKeeps == IInv /\ UNCHANGED vars => IInv'
<1> SUFFICES ASSUME IInv, UNCHANGED vars PROVE IInv'
    OBVIOUS
<1>1. TypeInv'
    BY DEF vars, IInv, TypeInv, CallsOK, FlagsOK, LogsOK, FetchesOK, AwaitsOK, Newest, Logs
<1>2. WaitsInv' /\ BouncerInv' /\ LoadingIsBusy'
    BY DEF vars, IInv, WaitsInv, BouncerInv, LoadingIsBusy, CallsOf
<1>3. LogInv'
    BY DEF vars, IInv, LogInv, LoggedAsRun, LoggedOnce, SettledIsLogged
<1> QED
    BY <1>1, <1>2, <1>3 DEF IInv

LEMMA StepKeeps == IInv /\ [Next]_vars => IInv'
<1> SUFFICES ASSUME IInv, [Next]_vars PROVE IInv'
    OBVIOUS
<1>1. ASSUME NEW e \in Events, Trigger(e) PROVE IInv'
    BY <1>1, TriggerKeeps
<1>2. ASSUME NEW e \in Events, LeadingTimeout(e) PROVE IInv'
    BY <1>2, LeadingTimeoutKeeps
<1>3. ASSUME NEW c \in DOMAIN calls, TrailingTimeout(c) PROVE IInv'
    BY <1>3, TrailingTimeoutKeeps
<1>4. ASSUME NEW c \in DOMAIN calls, Acts(c) PROVE IInv'
    BY <1>4, ActsKeeps
<1>5. ASSUME NEW c \in DOMAIN calls, Fetches(c) PROVE IInv'
    BY <1>5, FetchesKeeps
<1>6. ASSUME NEW c \in DOMAIN calls, Ends(c) PROVE IInv'
    BY <1>6, EndsKeeps
<1>7. ASSUME NEW r \in Requests, NEW n \in DOMAIN fetches[r], Answers(r, n) PROVE IInv'
    BY <1>7, AnswersKeeps
<1>8. CASE UNCHANGED vars
    BY <1>8, StutterKeeps
<1> QED
    BY <1>1, <1>2, <1>3, <1>4, <1>5, <1>6, <1>7, <1>8 DEF Next, RunStep

LEMMA InitHolds == Init => IInv
<1> SUFFICES ASSUME Init PROVE IInv
    OBVIOUS
<1>1. calls = <<>> /\ Len(calls) = 0 /\ DOMAIN calls = {} /\ MaxCalls \in Nat /\ MaxFetches \in Nat
    BY EventsAssumption DEF Init
<1>2. TypeInv
    <2>1. \A r \in Requests : fetches[r] = <<>> /\ Newest(r) = 0
        BY DEF Init, Newest
    <2>2. CallsOK /\ FlagsOK /\ AwaitsOK
        BY <1>1 DEF Init, CallsOK, FlagsOK, AwaitsOK
    <2>3. LogsOK
        BY DEF Init, LogsOK
    <2>4. FetchesOK
        BY <1>1, <2>1 DEF Init, FetchesOK
    <2> QED
        BY <2>2, <2>3, <2>4 DEF TypeInv
<1>3. WaitsInv /\ BouncerInv /\ LoadingIsBusy
    BY <1>1 DEF Init, WaitsInv, BouncerInv, LoadingIsBusy
<1>4. LogInv
    BY <1>1 DEF Init, LogInv, LoggedAsRun, LoggedOnce, SettledIsLogged
<1> QED
    BY <1>2, <1>3, <1>4 DEF IInv

LEMMA Invariant == Spec => []IInv
    BY InitHolds, StepKeeps, PTL DEF Spec

-----------------------------------------------------------------------------
\* Calls, records, logs and flags keep their types; a run awaits only fetches that load.
THEOREM EventTypes == Spec => []EventsTypeOK
<1>1. IInv => EventsTypeOK
    BY TypeParts DEF IInv, TypeInv
<1> QED
    BY Invariant, <1>1, PTL

\* Whoever triggers an event is settled at most once, and the event's history says
\* truly whether the call ran or was bounced.
THEOREM CallsAreLogged == Spec => []SettledAsItRan
<1>1. IInv => SettledAsItRan
    <2> SUFFICES ASSUME IInv, NEW e \in Events, NEW c \in CallsOf(e)
                 PROVE  /\ calls[c].stage = "done" <=> LogsOf(e, c) # {}
                        /\ \A i, j \in LogsOf(e, c) : i = j
                        /\ \A i \in LogsOf(e, c) : history[e][i].bounced <=> calls[c].at = 0
        BY DEF SettledAsItRan
    <2>1. c \in DOMAIN calls /\ calls[c].event = e
        BY DEF CallsOf
    <2> QED
        BY <2>1 DEF IInv, LogInv, LoggedAsRun, LoggedOnce, SettledIsLogged, LogsOf
<1> QED
    BY Invariant, <1>1, PTL

\* A debounced event keeps one timer, that of the last call of the burst.
THEOREM LastCallWaits == Spec => []OnlyTheLastWaits
<1>1. IInv => OnlyTheLastWaits
    BY DEF IInv, WaitsInv, OnlyTheLastWaits, CallsOf
<1> QED
    BY Invariant, <1>1, PTL

\* An event that shows as loading has a call that is still to settle.
THEOREM LoadingHasARun == Spec => []LoadingIsBusy
<1>1. IInv => LoadingIsBusy
    BY DEF IInv
<1> QED
    BY Invariant, <1>1, PTL

\* A late answer of an older call of a request never replaces what the newest call shows.
THEOREM NewestIsShown == Spec => ShownByTheNewest
<1>1. ASSUME IInv, [Next]_vars, NEW r \in Requests, Shown(r)' # Shown(r)
      PROVE  (Newest(r)' > Newest(r) /\ Shown(r)' = 0) \/ Shown(r)' = Newest(r)
    <2>1. FetchesOK
        BY <1>1 DEF IInv, TypeInv
    <2>2. ASSUME NEW c \in DOMAIN calls, Fetches(c) PROVE Newest(r)' > Newest(r) /\ Shown(r)' = 0
        <3>1. PICK rs \in SUBSET Current(c).requests : fetches' = Called(rs, Current(c).hold)
            BY <2>2 DEF Fetches
        <3> DEFINE f == [loading |-> TRUE, response |-> IF Current(c).hold THEN Shown(r) ELSE 0]
        <3>2. r \in rs
            BY <1>1, <3>1 DEF Called, Shown, Newest
        <3>3. fetches'[r] = Append(fetches[r], f)
            BY <3>1, <3>2 DEF Called
        <3>4. Len(fetches[r]) \in Nat /\ fetches[r] \in Seq(Fetch)
            BY <2>1, LenProperties DEF FetchesOK
        <3>5. f.response = IF Current(c).hold THEN Shown(r) ELSE 0
            OBVIOUS
        <3> HIDE DEF f
        <3>6. fetches[r] \in Seq(Fetch \cup {f}) /\ f \in Fetch \cup {f}
            BY <3>4, SeqMonotonic
        <3>7. Len(fetches'[r]) = Len(fetches[r]) + 1 /\ fetches'[r][Len(fetches[r]) + 1] = f
            BY <3>3, <3>6, Appended
        <3>8. Shown(r)' = f.response /\ Newest(r)' > Newest(r)
            BY <3>4, <3>7 DEF Shown, Newest
        <3> QED
            BY <1>1, <3>5, <3>8
    <2>3. ASSUME NEW s \in Requests, NEW n \in DOMAIN fetches[s], Answers(s, n)
          PROVE  Shown(r)' = Newest(r)
        <3>1. PICK ok \in BOOLEAN :
                 fetches' = [fetches EXCEPT ![s][n] = [loading |-> FALSE,
                                                      response |-> IF ok THEN n ELSE @.response]]
            BY <2>3 DEF Answers
        <3> DEFINE g == [loading |-> FALSE, response |-> IF ok THEN n ELSE fetches[s][n].response]
        <3>2. g.response = IF ok THEN n ELSE fetches[s][n].response
            OBVIOUS
        <3>3. fetches' = [fetches EXCEPT ![s] = [fetches[s] EXCEPT ![n] = g]]
            BY <2>1, <3>1 DEF FetchesOK
        <3> HIDE DEF g
        <3>4. r = s
            BY <1>1, <2>1, <3>3 DEF FetchesOK, Shown, Newest
        <3>5. /\ fetches[r] \in Seq(Fetch) /\ Len(fetches[r]) \in Nat
              /\ DOMAIN fetches[r] = 1..Len(fetches[r]) /\ n \in 1..Len(fetches[r])
            BY <2>1, <3>4, LenProperties DEF FetchesOK
        <3>6. fetches'[r] = [fetches[r] EXCEPT ![n] = g]
            BY <2>1, <3>3, <3>4 DEF FetchesOK
        <3>7. fetches[r] \in Seq(Fetch \cup {g}) /\ g \in Fetch \cup {g}
            BY <3>5, SeqMonotonic
        <3>8. /\ Len(fetches'[r]) = Len(fetches[r]) /\ fetches'[r][n] = g
              /\ \A m \in 1..Len(fetches[r]) : m # n => fetches'[r][m] = fetches[r][m]
            BY <3>5, <3>6, <3>7, ExceptSeq
        <3>9. n = Len(fetches[r])
            BY <1>1, <3>5, <3>8 DEF Shown, Newest
        <3>10. Shown(r)' = g.response /\ Shown(r) = fetches[r][n].response
            BY <3>5, <3>8, <3>9 DEF Shown, Newest
        <3> QED
            BY <1>1, <3>2, <3>4, <3>9, <3>10 DEF Newest
    <2>4. UNCHANGED fetches => Shown(r)' = Shown(r)
        BY DEF Shown, Newest
    <2> QED
        BY <1>1, <2>2, <2>3, <2>4 DEF Next, RunStep, Trigger, LeadingTimeout, TrailingTimeout, Acts, Ends, vars
<1>2. IInv /\ [Next]_vars => [\A r \in Requests : Shown(r)' # Shown(r) =>
          \/ Newest(r)' > Newest(r) /\ Shown(r)' = 0
          \/ Shown(r)' = Newest(r)]_vars
    BY <1>1
<1> QED
    BY Invariant, <1>2, PTL DEF Spec, ShownByTheNewest
=============================================================================
