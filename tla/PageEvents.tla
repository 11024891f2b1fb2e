----------------------------- MODULE PageEvents -----------------------------
(***************************************************************************)
(* The events of a page's blocks (Events, Actions) and the requests their  *)
(* actions call (Requests).  An event may be triggered while a run of it   *)
(* is under way; a debounced one bounces calls.  A run awaits its actions  *)
(* one after the other, but for the async ones, and requests may answer in *)
(* any order.                                                              *)
(*                                                                         *)
(* Controls (:if, :switch, :return) are seen as actions: what they choose  *)
(* depends on data, and :return ends the list as an action that navigates  *)
(* away does.                                                              *)
(***************************************************************************)
EXTENDS Naturals, Sequences

CONSTANTS
    Events, Requests, None,
    Debounce,   \* each event's debounce: "none", "leading" (immediate) or "trailing"
    Actions,    \* each event's actions and catch actions: [try, catch : Seq(Action)]
    MaxCalls,   \* bound: calls of triggerEvent
    MaxFetches  \* bound: calls of a request

Action == [requests : SUBSET Requests, hold : BOOLEAN, async : BOOLEAN]

ASSUME EventsAssumption ==
    /\ Debounce \in [Events -> {"none", "leading", "trailing"}]
    /\ Actions \in [Events -> [try : Seq(Action), catch : Seq(Action)]]
    /\ MaxCalls \in Nat /\ MaxFetches \in Nat
    /\ None \notin Nat

VARIABLES
    calls,    \* the calls of triggerEvent, in order
    loading,  \* eventDescription.loading
    timeouts, \* the events whose leading-edge timeout runs
    bouncer,  \* the call that waits behind each trailing event's timer
    history,  \* what each event has logged, the latest last: [call, bounced]
    fetches   \* the calls of each request, the latest last

vars == <<calls, loading, timeouts, bouncer, history, fetches>>

Call == [event : Events, stage : {"timer", "runs", "done"}, list : {"try", "catch"}, at : Nat,
         awaits : SUBSET (Requests \X (1..MaxFetches))]
Fetch == [loading : BOOLEAN, response : 0..MaxFetches]  \* 0: null; n: the answer of the n-th call

Init ==
    /\ calls = <<>>
    /\ loading = [e \in Events |-> FALSE]
    /\ timeouts = {}
    /\ bouncer = [e \in Events |-> None]
    /\ history = [e \in Events |-> <<>>]
    /\ fetches = [r \in Requests |-> <<>>]

-----------------------------------------------------------------------------
Logged(e, c, bounced) == Append(history[e], [call |-> c, bounced |-> bounced])

\* A call, before its actions run (at = 0) and when they begin.
Waiting(e) == [event |-> e, stage |-> "timer", list |-> "try", at |-> 0, awaits |-> {}]
Running(call) == [call EXCEPT !.stage = "runs", !.at = 1]
Bounced(call) == [call EXCEPT !.stage = "done"]

\* The bouncer of a call that waits: its timer is cleared, and it settles.
BouncedCalls(e) == IF bouncer[e] = None THEN calls ELSE [calls EXCEPT ![bouncer[e]] = Bounced(@)]

TriggerNow(e) ==
    /\ Debounce[e] = "none"
    /\ calls' = Append(calls, Running(Waiting(e)))
    /\ UNCHANGED <<timeouts, bouncer, history>>

TriggerLeading(e) ==
    /\ Debounce[e] = "leading"
    /\ IF e \in timeouts
       THEN /\ calls' = Append(calls, Bounced(Waiting(e)))
            /\ history' = [history EXCEPT ![e] = Logged(e, Len(calls'), TRUE)]
            /\ UNCHANGED <<timeouts, bouncer>>
       ELSE /\ calls' = Append(calls, Running(Waiting(e)))
            /\ timeouts' = timeouts \cup {e}
            /\ UNCHANGED <<bouncer, history>>

TriggerTrailing(e) ==
    /\ Debounce[e] = "trailing"
    /\ calls' = Append(BouncedCalls(e), Waiting(e))
    /\ history' = IF bouncer[e] = None THEN history
                  ELSE [history EXCEPT ![e] = Logged(e, bouncer[e], TRUE)]
    /\ bouncer' = [bouncer EXCEPT ![e] = Len(calls')]
    /\ UNCHANGED timeouts

\* triggerEvent, of an event the block has and no inner block has claimed.
Trigger(e) ==
    /\ Len(calls) < MaxCalls
    /\ loading' = [loading EXCEPT ![e] = TRUE]
    /\ TriggerNow(e) \/ TriggerLeading(e) \/ TriggerTrailing(e)
    /\ UNCHANGED fetches

LeadingTimeout(e) ==
    /\ e \in timeouts
    /\ timeouts' = timeouts \ {e}
    /\ UNCHANGED <<calls, loading, bouncer, history, fetches>>

\* mutant: the bouncer of a call stays when its actions begin
TrailingKeepsBouncer(c) ==
    /\ calls[c].stage = "timer"
    /\ calls' = [calls EXCEPT ![c] = Running(@)]
    /\ UNCHANGED <<loading, timeouts, bouncer, history, fetches>>

TrailingTimeout(c) ==
    /\ calls[c].stage = "timer"
    /\ calls' = [calls EXCEPT ![c] = Running(@)]
    /\ bouncer' = [bouncer EXCEPT ![calls[c].event] = None]
    /\ UNCHANGED <<loading, timeouts, history, fetches>>

-----------------------------------------------------------------------------
List(c) == Actions[calls[c].event][calls[c].list]
Acting(c) == calls[c].stage = "runs" /\ calls[c].awaits = {}
HasNext(c) == calls[c].at \in DOMAIN List(c)
Current(c) == List(c)[calls[c].at]

\* Where a call goes: to the next action, past the list, or to the catch actions.
Onward(call) == [call EXCEPT !.at = @ + 1, !.awaits = {}]
Past(call) == [call EXCEPT !.at = Len(Actions[call.event][call.list]) + 1, !.awaits = {}]
Thrown(call) == IF call.list = "try" THEN [call EXCEPT !.list = "catch", !.at = 1, !.awaits = {}]
                                     ELSE Past(call)

Newest(r) == Len(fetches[r])
Shown(r) == IF Newest(r) = 0 THEN 0 ELSE fetches[r][Newest(r)].response

\* callRequest, for a set of requests: the new record shows nothing, or what was shown.
Called(rs, hold) ==
    [r \in Requests |->
        IF r \in rs THEN Append(fetches[r], [loading |-> TRUE,
                                             response |-> IF hold THEN Shown(r) ELSE 0])
                    ELSE fetches[r]]
Handles(rs) == {<<r, Newest(r) + 1>> : r \in rs}

\* An action that calls no request ends, throws, or ends the list; any may be skipped.
Acts(c) ==
    /\ Acting(c) /\ HasNext(c)
    /\ \E next \in {Onward(calls[c]), Past(calls[c]), Thrown(calls[c])} :
          /\ Current(c).async \/ Current(c).requests # {} => next = Onward(calls[c])
          /\ calls' = [calls EXCEPT ![c] = next]
    /\ UNCHANGED <<loading, timeouts, bouncer, history, fetches>>

\* A Request action: some payloads may fail to be evaluated; the others are fetched,
\* and awaited unless one failed or the action is async.
Fetches(c) ==
    /\ Acting(c) /\ HasNext(c) /\ Current(c).requests # {}
    /\ \A r \in Current(c).requests : Newest(r) < MaxFetches
    /\ \E rs \in SUBSET Current(c).requests :
          /\ fetches' = Called(rs, Current(c).hold)
          /\ calls' = [calls EXCEPT ![c] =
                          IF Current(c).async THEN Onward(@)
                          ELSE IF rs # Current(c).requests THEN Thrown(@)
                          ELSE [@ EXCEPT !.awaits = Handles(rs)]]
    /\ UNCHANGED <<loading, timeouts, bouncer, history>>

\* mutant: an answer that a later call has superseded is dropped
AfterNewestAnswer(f, ok) ==
    [c \in DOMAIN calls |->
        IF f \notin calls[c].awaits \/ f[2] # Newest(f[1]) THEN calls[c]
        ELSE IF ~ok THEN Thrown(calls[c])
        ELSE IF calls[c].awaits = {f} THEN Onward(calls[c])
        ELSE [calls[c] EXCEPT !.awaits = @ \ {f}]]

\* The calls after the fetch f has answered (Promise.all: the first error throws).
AfterAnswer(f, ok) ==
    [c \in DOMAIN calls |->
        IF f \notin calls[c].awaits THEN calls[c]
        ELSE IF ~ok THEN Thrown(calls[c])
        ELSE IF calls[c].awaits = {f} THEN Onward(calls[c])
        ELSE [calls[c] EXCEPT !.awaits = @ \ {f}]]

\* mutant: the answer is written to the newest call of the request
AnswersNewest(r, n) ==
    /\ fetches[r][n].loading
    /\ \E ok \in BOOLEAN :
          /\ fetches' = [fetches EXCEPT ![r][n].loading = FALSE,
                                        ![r][Newest(r)].response = IF ok THEN n ELSE @]
          /\ calls' = AfterAnswer(<<r, n>>, ok)
    /\ UNCHANGED <<loading, timeouts, bouncer, history>>

\* fetch: each call writes its own record, also when a later one is shown.
Answers(r, n) ==
    /\ fetches[r][n].loading
    /\ \E ok \in BOOLEAN :
          /\ fetches' = [fetches EXCEPT ![r][n] = [loading |-> FALSE,
                                                   response |-> IF ok THEN n ELSE @.response]]
          /\ calls' = AfterAnswer(<<r, n>>, ok)
    /\ UNCHANGED <<loading, timeouts, bouncer, history>>

\* mutant: a run that failed leaves the event loading
EndsWell(c) ==
    /\ Acting(c) /\ ~HasNext(c)
    /\ calls' = [calls EXCEPT ![c].stage = "done"]
    /\ LET e == calls[c].event
       IN  /\ history' = [history EXCEPT ![e] = Logged(e, c, FALSE)]
           /\ loading' = [loading EXCEPT ![e] = @ /\ calls[c].list = "catch"]
    /\ UNCHANGED <<timeouts, bouncer, fetches>>

\* callActions returns: the run is logged, and the event loads no longer.
Ends(c) ==
    /\ Acting(c) /\ ~HasNext(c)
    /\ calls' = [calls EXCEPT ![c].stage = "done"]
    /\ LET e == calls[c].event
       IN  /\ history' = [history EXCEPT ![e] = Logged(e, c, FALSE)]
           /\ loading' = [loading EXCEPT ![e] = FALSE]
    /\ UNCHANGED <<timeouts, bouncer, fetches>>

RunStep(c) == Acts(c) \/ Fetches(c) \/ Ends(c)

Next ==
    \/ \E e \in Events : Trigger(e) \/ LeadingTimeout(e)
    \/ \E c \in DOMAIN calls : TrailingTimeout(c) \/ RunStep(c)
    \/ \E r \in Requests : \E n \in DOMAIN fetches[r] : Answers(r, n)

Spec == Init /\ [][Next]_vars

\* Timers fire, actions end and requests answer.
FairSpec == /\ Spec
            /\ \A c \in 1..MaxCalls : WF_vars(c \in DOMAIN calls /\ (TrailingTimeout(c) \/ RunStep(c)))
            /\ \A r \in Requests : \A n \in 1..MaxFetches :
                  WF_vars(n \in DOMAIN fetches[r] /\ Answers(r, n))

-----------------------------------------------------------------------------
EventsTypeOK ==
    /\ calls \in Seq(Call) /\ Len(calls) <= MaxCalls
    /\ loading \in [Events -> BOOLEAN] /\ timeouts \subseteq Events
    /\ bouncer \in [Events -> 1..Len(calls) \cup {None}]
    /\ history \in [Events -> Seq([call : 1..Len(calls), bounced : BOOLEAN])]
    /\ fetches \in [Requests -> Seq(Fetch)]
    /\ \A r \in Requests : Newest(r) <= MaxFetches
    /\ \A c \in DOMAIN calls : \A f \in calls[c].awaits :
          f[2] \in DOMAIN fetches[f[1]] /\ fetches[f[1]][f[2]].loading

CallsOf(e) == {c \in DOMAIN calls : calls[c].event = e}
LogsOf(e, c) == {i \in DOMAIN history[e] : history[e][i].call = c}

\* A call settles once, and is logged as it ran: a bounced one ran no action.
SettledAsItRan == \A e \in Events : \A c \in CallsOf(e) :
    /\ calls[c].stage = "done" <=> LogsOf(e, c) # {}
    /\ \A i, j \in LogsOf(e, c) : i = j
    /\ \A i \in LogsOf(e, c) : history[e][i].bounced <=> calls[c].at = 0

\* Of a burst of calls only the last may still run: no earlier one keeps its timer.
OnlyTheLastWaits == \A e \in Events : \A c \in CallsOf(e) :
    calls[c].stage = "timer" => bouncer[e] = c /\ \A d \in CallsOf(e) : d <= c

\* An event that loads has a run, or a call whose timer will start one.  (Left out are
\* leading-edge events: a call they bounce sets loading and nothing clears it.)
LoadingIsBusy == \A e \in Events : Debounce[e] # "leading" /\ loading[e] =>
    \E c \in CallsOf(e) : calls[c].stage # "done"

\* What a request shows is changed by a call of it, which shows nothing or holds what was
\* shown, and by the answer of its newest call: a late answer of an older one is not shown.
ShownByTheNewest == [][\A r \in Requests : Shown(r)' # Shown(r) =>
    \/ Newest(r)' > Newest(r) /\ Shown(r)' = 0
    \/ Shown(r)' = Newest(r)]_vars

\* Whoever triggers an event gets its result, bounced, failed or not, also when the
\* requests its run awaits were called again meanwhile.
CallsSettle == \A c \in 1..MaxCalls : c \in DOMAIN calls ~> c \in DOMAIN calls /\ calls[c].stage = "done"
=============================================================================
