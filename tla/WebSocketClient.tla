--------------------------- MODULE WebSocketClient ---------------------------
(***************************************************************************)
(* The websocket client of a tab                                           *)
(* (packages/client-core/src/websocket/createWebSocketClient.js) with the  *)
(* connections it opens to a FeedServer.                                   *)
(*                                                                         *)
(* One socket is shared by every feed.  It opens on the first subscribe or *)
(* publish, closes when it has been idle, and is opened again after it was *)
(* lost, when everything is resubscribed.  Subscribe and publish promises  *)
(* wait for the server's reply under a timer.                              *)
(*                                                                         *)
(* Subscription objects have identities, since a timer or a promise may    *)
(* outlive the entry of the subscriptions map; an identity nothing refers  *)
(* to is used again, and so is a requestId.  The callers' handlers are     *)
(* called by reporting in `told` what each step tells them.                *)
(***************************************************************************)
EXTENDS Naturals, Sequences, FiniteSets, SequencesExt

CONSTANTS
    Feed, Payload, NoPayload,
    Handlers,        \* the callers that subscribe
    SubId,           \* subscription objects
    PubId,           \* publishes and their requestIds
    SubRequest,      \* requestIds of subscribe frames
    NoSub, NoRequest,
    Ages,            \* bound: how old a connection may get, see `age`
    MaxAttempt,      \* the reconnectAttempt from which the delay is capped
    MaxTimers,       \* bound: armed reconnect timers
    MaxUp, MaxDown   \* bounds: frames of one feed on their way when the caller
                     \* or the source sends another

\* The values that stand for none are none, publishes and subscribes share no
\* requestId, and the feeds never use up those of subscribes.
ASSUME ClientAssumption ==
    /\ NoSub \notin Feed \cup SubId /\ NoPayload \notin Payload
    /\ NoRequest \notin SubRequest \cup PubId /\ SubRequest \cap PubId = {}
    /\ \A used \in [Feed -> SubRequest \cup {NoRequest}] :
          \E r \in SubRequest : \A f \in Feed : used[f] # r
    /\ IsFiniteSet(PubId) /\ MaxAttempt \in Nat /\ MaxTimers \in Nat

VARIABLES
    up, down, handling, serving,  \* the connection, see FeedServer
    conn,             \* "none", "connecting", "open", or "closing" while the
                      \* closing handshake runs and the close event is due
    subscriptions,    \* websocketId -> subscription object
    subscription,     \* the subscription objects
    publishes,        \* pendingPublishes: requestId -> publish
    idleTimer, reconnectTimers,
    reconnectAttempt, reconnectingAfterCallerChange,
    age,              \* of the connection: "fresh", "stable" after
                      \* STABLE_CONNECTION_MS, "old" after CALLER_CHANGE_REPEAT_MS
    quickReconnects,  \* history: the reconnects scheduled one after the other
                      \* with the shortest delay, no connection in between
                      \* having been stable, or closed because it was idle;
                      \* counted to 3
    told              \* handler calls and rejections made by the last step

serverVars == <<up, down, handling, serving>>
backoffVars == <<reconnectTimers, reconnectAttempt, reconnectingAfterCallerChange, age,
                 quickReconnects>>
clientVars == <<conn, subscriptions, subscription, publishes, idleTimer,
                backoffVars, told>>
vars == <<serverVars, clientVars>>

Server == INSTANCE FeedServer WITH Request <- SubRequest \cup PubId

-----------------------------------------------------------------------------
(* ackTimer is 0 when cleared.  Arming it again starts another 10 seconds,   *)
(* which the change from 1 to 2, or back, shows.                             *)
Subscription == [feed : Feed \cup {NoSub}, payload : Payload \cup {NoPayload},
                 handlers : Handlers \cup {NoSub},
                 request : SubRequest \cup {NoRequest},
                 ackTimer : 0 .. 2, pending : BOOLEAN]

(* An object nothing refers to any more                                      *)
Forgotten == [feed |-> NoSub, payload |-> NoPayload, handlers |-> NoSub,
              request |-> NoRequest, ackTimer |-> 0, pending |-> FALSE]

Armed(timer) == IF timer = 1 THEN 2 ELSE 1

Publish == [feed : Feed \cup {NoSub}, state : {"none", "unsent", "sent"}]
NoPublish == [feed |-> NoSub, state |-> "none"]

Mapped == {subscriptions[f] : f \in Feed} \ {NoSub}
FreeSub(id) == subscription[id] = Forgotten
FreePub(p) ==
    publishes[p].state = "none" /\ p \notin Server!RequestsInFlight

(* A requestId that names no other subscribe of the feed                     *)
UsedRequests(f) ==
    {fr.request : fr \in Range(up[f]) \cup Range(down[f])}
      \cup {subscription[id].request : id \in Mapped}
Fresh(f) == CHOOSE r \in SubRequest : r \notin UsedRequests(f)
CanSend(f) == Len(up[f]) < MaxUp /\ ~(SubRequest \subseteq UsedRequests(f))

isIdle(subs, pubs) ==
    /\ \A f \in Feed : subs[f] = NoSub
    /\ \A p \in PubId : pubs[p].state = "none"
scheduleIdleClose == idleTimer' = isIdle(subscriptions', publishes')

Tell(what, id, payload) ==
    [what |-> what, feed |-> subscription[id].feed,
     handlers |-> subscription[id].handlers, payload |-> payload]

(* connect: one connection at a time                                         *)
connect ==
    IF conn = "none" THEN conn' = "connecting" /\ idleTimer' = FALSE
                     ELSE UNCHANGED <<conn, idleTimer>>

-----------------------------------------------------------------------------
Init ==
    /\ Server!ServerInit
    /\ conn = "none"
    /\ subscriptions = [f \in Feed |-> NoSub]
    /\ subscription = [id \in SubId |-> Forgotten]
    /\ publishes = [p \in PubId |-> NoPublish]
    /\ idleTimer = FALSE
    /\ reconnectTimers = 0
    /\ reconnectAttempt = 0
    /\ reconnectingAfterCallerChange = FALSE
    /\ age = "fresh"
    /\ quickReconnects = 0
    /\ told = {}

(* subscribe: the subscription the feed had is released, its promise settled. *)
releaseSubscription(id) == [subscription EXCEPT ![id] = Forgotten]

Released(f) == IF subscriptions[f] = NoSub
                 THEN subscription ELSE releaseSubscription(subscriptions[f])

New(h, f, payload, request) ==
    [feed |-> f, payload |-> payload, handlers |-> h, request |-> request,
     ackTimer |-> 1, pending |-> TRUE]

Subscribe(h, f, payload) ==
    /\ \E id \in SubId : FreeSub(id)
    /\ LET id == CHOOSE id \in SubId : FreeSub(id)
       IN  /\ subscriptions' = [subscriptions EXCEPT ![f] = id]
           /\ IF conn = "open"
                THEN /\ CanSend(f)
                     /\ subscription' = [Released(f) EXCEPT
                                           ![id] = New(h, f, payload, Fresh(f))]
                     /\ Server!SendOn(f, Server!SubscribeFrame(Fresh(f), payload))
                     /\ idleTimer' = FALSE
                     /\ UNCHANGED conn
                ELSE /\ subscription' = [Released(f) EXCEPT
                                           ![id] = New(h, f, payload, NoRequest)]
                     /\ conn' = IF conn = "none" THEN "connecting" ELSE conn
                     /\ idleTimer' = FALSE
                     /\ UNCHANGED up
    /\ told' = {}
    /\ UNCHANGED <<down, handling, serving, publishes, backoffVars>>

SendIfOpen(f, frame) ==
    IF conn = "open" THEN Server!SendOn(f, frame) ELSE UNCHANGED up

Unsubscribe(f) ==
    /\ subscriptions[f] # NoSub
    /\ Len(up[f]) < MaxUp
    /\ subscription' = releaseSubscription(subscriptions[f])
    /\ subscriptions' = [subscriptions EXCEPT ![f] = NoSub]
    /\ SendIfOpen(f, Server!UnsubscribeFrame)
    /\ UNCHANGED publishes
    /\ scheduleIdleClose
    /\ told' = {}
    /\ UNCHANGED <<down, handling, serving, conn, backoffVars>>

(* publish: a publish made while disconnected waits for the connection.       *)
PublishTo(f, p) ==
    /\ FreePub(p)
    /\ Len(up[f]) < MaxUp
    /\ publishes' = [publishes EXCEPT ![p] =
         [feed |-> f, state |-> IF conn = "open" THEN "sent" ELSE "unsent"]]
    /\ SendIfOpen(f, Server!PublishFrame(p))
    /\ conn' = IF conn = "none" THEN "connecting" ELSE conn
    /\ idleTimer' = FALSE
    /\ told' = {}
    /\ UNCHANGED <<down, handling, serving, subscriptions, subscription, backoffVars>>

-----------------------------------------------------------------------------
\* mutant: the server is not told
giveUpSilently(f) == UNCHANGED up

giveUp(f) == SendIfOpen(f, Server!UnsubscribeFrame)

(* handleAckTimeout.  A subscribe whose caller waits is given up, on the      *)
(* server too; a resubscribe on reconnect reports the error and stays.        *)
AckTimeout(id, armed) ==
    LET f == subscription[id].feed IN
    /\ armed # 0
    /\ subscription[id].ackTimer = armed
    /\ IF subscription[id].pending
         THEN /\ subscription' = [subscription EXCEPT ![id] = Forgotten]
              /\ subscriptions' = [subscriptions EXCEPT ![f] = NoSub]
              /\ giveUp(f)
              /\ UNCHANGED publishes
              /\ scheduleIdleClose
              /\ told' = {Tell("rejected", id, NoPayload)}
         ELSE /\ subscription' = [subscription EXCEPT ![id].ackTimer = 0]
              /\ told' = {Tell("error", id, NoPayload)}
              /\ UNCHANGED <<subscriptions, up, publishes, idleTimer>>
    /\ UNCHANGED <<down, handling, serving, conn, backoffVars>>

\* mutant: no scheduleIdleClose
settleQuietly(p) ==
    /\ publishes' = [publishes EXCEPT ![p] = NoPublish]
    /\ UNCHANGED <<subscriptions, idleTimer>>

(* settlePublish                                                              *)
settlePublish(p) ==
    /\ publishes' = [publishes EXCEPT ![p] = NoPublish]
    /\ UNCHANGED subscriptions
    /\ scheduleIdleClose

\* mutant: the timer of a publish starts when it is sent
SentPublishTimeout(p) ==
    /\ publishes[p].state = "sent"
    /\ settlePublish(p)
    /\ told' = {}
    /\ UNCHANGED <<serverVars, conn, subscription, backoffVars>>

PublishTimeout(p) ==
    /\ publishes[p].state # "none"
    /\ settlePublish(p)
    /\ told' = {}
    /\ UNCHANGED <<serverVars, conn, subscription, backoffVars>>

(* The idle timer fires: an idle socket is closed and detached.               *)
IdleTimeout ==
    /\ idleTimer
    /\ idleTimer' = FALSE
    /\ IF isIdle(subscriptions, publishes) /\ conn \in {"open", "closing"}
         THEN /\ conn' = "none"
              /\ reconnectingAfterCallerChange' = FALSE
              /\ quickReconnects' = 0
              /\ Server!Disconnect
         ELSE UNCHANGED <<serverVars, conn, reconnectingAfterCallerChange, quickReconnects>>
    /\ told' = {}
    /\ UNCHANGED <<subscriptions, subscription, publishes, reconnectTimers,
                   reconnectAttempt, age>>

(* The connection gets older; stableTimer resets the backoff.                 *)
Ageing ==
    /\ conn \in {"open", "closing"}
    /\ \E older \in Ages :
         /\ <<age, older>> \in {<<"fresh", "stable">>, <<"stable", "old">>}
         /\ age' = older
         /\ IF older = "stable"
              THEN reconnectAttempt' = 0 /\ quickReconnects' = 0
              ELSE UNCHANGED <<reconnectAttempt, quickReconnects>>
    /\ told' = {}
    /\ UNCHANGED <<serverVars, conn, subscriptions, subscription, publishes,
                   idleTimer, reconnectTimers, reconnectingAfterCallerChange>>

-----------------------------------------------------------------------------
(* ws.onopen: everything is subscribed again, unsent publishes are sent.      *)
Unsent(f) == {p \in PubId : publishes[p].state = "unsent" /\ publishes[p].feed = f}

resubscribeAll ==
    subscription' = [id \in SubId |->
        IF id \in Mapped
          THEN [subscription[id] EXCEPT !.request = Fresh(subscription[id].feed),
                                        !.ackTimer = Armed(@)]
          ELSE subscription[id]]

OpeningFrames(f) ==
    (IF subscriptions[f] = NoSub THEN <<>>
       ELSE <<Server!SubscribeFrame(Fresh(f), subscription[subscriptions[f]].payload)>>)
    \o [i \in DOMAIN SetToSeq(Unsent(f)) |-> Server!PublishFrame(SetToSeq(Unsent(f))[i])]

Opens ==
    /\ conn = "connecting"
    /\ conn' = "open"
    /\ age' = "fresh"
    /\ resubscribeAll
    /\ Server!Send([f \in Feed |-> OpeningFrames(f)])
    /\ publishes' = [p \in PubId |-> [publishes[p] EXCEPT !.state =
                                         IF @ = "unsent" THEN "sent" ELSE @]]
    /\ UNCHANGED subscriptions
    /\ scheduleIdleClose
    /\ told' = {}
    /\ UNCHANGED <<down, handling, serving, reconnectTimers, reconnectAttempt,
                   reconnectingAfterCallerChange, quickReconnects>>

(* The server's closing handshake has begun: nothing more is received.        *)
Closing ==
    /\ conn = "open"
    /\ conn' = "closing"
    /\ Server!Disconnect
    /\ told' = {}
    /\ UNCHANGED <<subscriptions, subscription, publishes, idleTimer, backoffVars>>

(* handleClose.  With something left to do, a reconnect is scheduled; its      *)
(* delay grows with every attempt.  A connection lost to a change of caller    *)
(* starts the backoff again, unless the one before was lost so too and this    *)
(* one soon after it opened.                                                   *)
HasUnsentPublishes == \E p \in PubId : publishes[p].state = "unsent"

\* mutant: the subscriptions are no reason to reconnect
NeedsForPublishes == HasUnsentPublishes

NeedsConnection == Mapped # {} \/ HasUnsentPublishes

\* mutant: every change of caller starts the backoff again
neverRepeated == FALSE

repeated == reconnectingAfterCallerChange /\ age # "old"

Backoff(code) ==
    LET attempt == IF code = "caller-changed" /\ ~repeated THEN 0 ELSE reconnectAttempt
    IN  /\ reconnectTimers < MaxTimers
        /\ reconnectTimers' = reconnectTimers + 1
        /\ reconnectAttempt' = IF attempt < MaxAttempt THEN attempt + 1 ELSE attempt
        /\ reconnectingAfterCallerChange' = (code = "caller-changed")
        /\ quickReconnects' = IF attempt # 0 \/ MaxAttempt = 0 THEN 0
                              ELSE IF quickReconnects < 3 THEN quickReconnects + 1 ELSE 3

resubscribeTimersCleared ==
    [id \in SubId |-> IF id \in Mapped /\ ~subscription[id].pending
                        THEN [subscription[id] EXCEPT !.ackTimer = 0]
                        ELSE subscription[id]]

handleClose(code) ==
    /\ conn' = "none"
    /\ age' = "fresh"
    /\ subscription' = resubscribeTimersCleared
    /\ told' = {Tell("disconnected", id, NoPayload) : id \in Mapped}
    /\ Server!Disconnect
    /\ IF NeedsConnection THEN Backoff(code)
         ELSE UNCHANGED <<reconnectTimers, reconnectAttempt, reconnectingAfterCallerChange,
                          quickReconnects>>
    /\ UNCHANGED <<subscriptions, publishes, idleTimer>>

(* The close event, of a connection that was open or never opened             *)
Closed(code) == conn \in {"open", "closing"} /\ handleClose(code)
ConnectFails == conn = "connecting" /\ handleClose("other")

Reconnect ==
    /\ reconnectTimers > 0
    /\ reconnectTimers' = reconnectTimers - 1
    /\ connect
    /\ told' = {}
    /\ UNCHANGED <<serverVars, subscriptions, subscription, publishes, reconnectAttempt,
                   reconnectingAfterCallerChange, age, quickReconnects>>

-----------------------------------------------------------------------------
(* handleFrame, for the next frame of a feed                                  *)
Arrives(f, type) == conn = "open" /\ down[f] # <<>> /\ Head(down[f]).type = type
Consume(f) ==
    /\ down' = [down EXCEPT ![f] = Tail(@)]
    /\ UNCHANGED <<up, handling, serving, conn, backoffVars>>

\* mutant: any subscribed or error reply of the feed will do
answersFeed(f, request) == subscriptions[f] # NoSub

(* A reply to a subscribe that a newer one replaced answers nobody.            *)
answersSubscription(f, request) ==
    subscriptions[f] # NoSub /\ request = subscription[subscriptions[f]].request

ReceiveMessage(f) ==
    /\ Arrives(f, "message")
    /\ Consume(f)
    /\ told' = IF subscriptions[f] = NoSub THEN {}
                 ELSE {Tell("message", subscriptions[f], Head(down[f]).payload)}
    /\ UNCHANGED <<subscriptions, subscription, publishes, idleTimer>>

ReceiveSubscribed(f) ==
    LET id == subscriptions[f] IN
    /\ Arrives(f, "subscribed")
    /\ Consume(f)
    /\ IF answersSubscription(f, Head(down[f]).request)
         THEN /\ subscription' = [subscription EXCEPT ![id].ackTimer = 0,
                                                      ![id].pending = FALSE]
              /\ told' = {Tell("connected", id, NoPayload)}
         ELSE told' = {} /\ UNCHANGED subscription
    /\ UNCHANGED <<subscriptions, publishes, idleTimer>>

ReceivePublished(f) ==
    LET p == Head(down[f]).request IN
    /\ \/ Arrives(f, "published")
       \/ Arrives(f, "error") /\ p \in PubId
    /\ Consume(f)
    /\ IF publishes[p].state # "none" THEN settlePublish(p)
         ELSE UNCHANGED <<subscriptions, publishes, idleTimer>>
    /\ told' = {}
    /\ UNCHANGED subscription

(* A broadcast from the feed's source carries no requestId.                    *)
ReceiveBroadcastError(f) ==
    /\ Arrives(f, "error")
    /\ Head(down[f]).request = NoRequest
    /\ Consume(f)
    /\ told' = IF subscriptions[f] = NoSub THEN {}
                 ELSE {Tell("error", subscriptions[f], NoPayload)}
    /\ UNCHANGED <<subscriptions, subscription, publishes, idleTimer>>

ReceiveRefusal(f) ==
    LET id == subscriptions[f] IN
    /\ Arrives(f, "error")
    /\ Head(down[f]).request \in SubRequest
    /\ Consume(f)
    /\ UNCHANGED publishes
    /\ IF ~answersSubscription(f, Head(down[f]).request)
         THEN told' = {} /\ UNCHANGED <<subscriptions, subscription, idleTimer>>
         ELSE /\ IF subscription[id].pending
                   THEN /\ subscription' = [subscription EXCEPT ![id] = Forgotten]
                        /\ subscriptions' = [subscriptions EXCEPT ![f] = NoSub]
                        /\ scheduleIdleClose
                        /\ told' = {Tell("rejected", id, NoPayload)}
                   ELSE /\ subscription' = [subscription EXCEPT ![id].ackTimer = 0]
                        /\ told' = {Tell("error", id, NoPayload)}
                        /\ UNCHANGED <<subscriptions, idleTimer>>

ServerStep ==
    /\ conn = "open"
    /\ Server!ServerStep
    /\ told' = {}
    /\ UNCHANGED <<conn, subscriptions, subscription, publishes, idleTimer, backoffVars>>

-----------------------------------------------------------------------------
Receive(f) ==
    \/ ReceiveMessage(f) \/ ReceiveSubscribed(f) \/ ReceivePublished(f)
    \/ ReceiveBroadcastError(f) \/ ReceiveRefusal(f)

CallerStep ==
    \E f \in Feed :
        \/ \E h \in Handlers, payload \in Payload : Subscribe(h, f, payload)
        \/ Unsubscribe(f)
        \/ \E p \in PubId : PublishTo(f, p)

TimerStep ==
    \/ \E id \in SubId, armed \in {1, 2} : AckTimeout(id, armed)
    \/ \E p \in PubId : PublishTimeout(p)
    \/ IdleTimeout \/ Reconnect \/ Ageing

NetworkStep ==
    \/ Opens \/ ConnectFails \/ Closing
    \/ \E code \in {"other", "caller-changed"} : Closed(code)
    \/ \E f \in Feed : Receive(f)

Next == CallerStep \/ TimerStep \/ NetworkStep \/ ServerStep

(* Timers fire when they are left armed, a connection attempt ends one way    *)
(* or the other and a closing handshake in a close event.  The network and    *)
(* the server owe nothing else.                                               *)
Fairness ==
    /\ \A id \in SubId, armed \in {1, 2} : WF_vars(AckTimeout(id, armed))
    /\ \A p \in PubId : WF_vars(PublishTimeout(p))
    /\ WF_vars(IdleTimeout)
    /\ WF_vars(Reconnect)
    /\ WF_vars(Opens \/ ConnectFails)
    /\ WF_vars(conn = "closing" /\ \E code \in {"other", "caller-changed"} : Closed(code))

Spec == Init /\ [][Next]_vars /\ Fairness

-----------------------------------------------------------------------------
Event == [what : {"connected", "disconnected", "message", "error", "rejected"},
          feed : Feed, handlers : Handlers, payload : Payload \cup {NoPayload}]

TypeOK ==
    /\ Server!ServerTypeOK
    /\ conn \in {"none", "connecting", "open", "closing"}
    /\ subscriptions \in [Feed -> SubId \cup {NoSub}]
    /\ subscription \in [SubId -> Subscription]
    /\ publishes \in [PubId -> Publish]
    /\ idleTimer \in BOOLEAN
    /\ reconnectTimers \in 0 .. MaxTimers
    /\ reconnectAttempt \in 0 .. MaxAttempt
    /\ reconnectingAfterCallerChange \in BOOLEAN
    /\ age \in {"fresh", "stable", "old"}
    /\ quickReconnects \in 0 .. 3
    /\ told \subseteq Event

(* An ack timer that can still fire, and a promise somebody still waits for,  *)
(* belong to a subscription in the map; and who waits has a timer running     *)
(* (startAckTimer's comment).                                                 *)
WaitingIsTimed ==
    \A id \in SubId :
        /\ subscription[id] # Forgotten => subscriptions[subscription[id].feed] = id
        /\ subscription[id].pending => subscription[id].ackTimer # 0

Outstanding == Mapped # {} \/ \E p \in PubId : publishes[p].state = "unsent"

(* Feeds to subscribe and publishes to send have a connection, or one coming. *)
WantsConnection ==
    Outstanding => conn # "none" \/ reconnectTimers > 0

(* An idle open socket is going to be closed (scheduleIdleClose).              *)
IdleSocketIsTimed ==
    conn = "open" /\ isIdle(subscriptions, publishes) => idleTimer

(* When nothing is on its way, the server serves no feed the client does not   *)
(* want, and none with another payload than the client asked for last.         *)
QuietAgreement ==
    \A f \in Feed :
        conn = "open" /\ up[f] = <<>> /\ serving[f] # NoPayload =>
            /\ subscriptions[f] # NoSub
            /\ subscription[subscriptions[f]].payload = serving[f]

(* A server that drops connections before they are stable, for a change of     *)
(* caller or for other reasons in any order, is not reconnected to in a tight  *)
(* loop: at most two reconnects in a row have the shortest delay, the second   *)
(* of them after a change of caller (CALLER_CHANGE_REPEAT_MS).                 *)
NoReconnectLoop == quickReconnects <= 2

(* Every promise settles: a publish is answered or times out, and so does a   *)
(* subscribe, unless connections keep opening, each of which starts its timer  *)
(* again.                                                                      *)
PromisesSettle ==
    /\ \A p \in PubId : (publishes[p].state # "none") ~> (publishes[p].state = "none")
    /\ \A id \in SubId : []<>(~subscription[id].pending) \/ []<><<Opens>>_vars

(* What was lost with a connection is connected again, or given up.            *)
Reconnects ==
    Outstanding ~> (conn \in {"connecting", "open"} \/ ~Outstanding)

(* An idle socket is closed, or put to use.                                    *)
IdleSocketCloses ==
    (conn = "open" /\ isIdle(subscriptions, publishes))
      ~> (conn # "open" \/ ~isIdle(subscriptions, publishes))

=============================================================================
