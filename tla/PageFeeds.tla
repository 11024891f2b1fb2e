------------------------------ MODULE PageFeeds ------------------------------
(***************************************************************************)
(* The feeds of pages: the engine's WebSockets class                       *)
(* (packages/engine/src/WebSockets.js), one instance per page context,     *)
(* composed with the tab's WebSocketClient and its FeedServer.             *)
(*                                                                         *)
(* A page context is shown on screens.  The browser mounts one page at a   *)
(* time; a native shell keeps the pages under the top of its stacks        *)
(* mounted, and may show one context on two screens.  Mounting subscribes, *)
(* unmounting unsubscribes.  The Subscribe and Unsubscribe actions may run *)
(* at any time: a chain of actions goes on after its page unmounted, and   *)
(* onInit runs before it mounts.  A page's feeds do not touch each other's *)
(* state, so each context has one.                                         *)
(*                                                                         *)
(* A message is known by the payload whose channel sent it: what the page  *)
(* keeps is the set of payloads it holds messages of.                      *)
(***************************************************************************)
EXTENDS Naturals, Sequences, FiniteSets

CONSTANTS
    Feed, Payload, NoPayload, SubId, SubRequest, NoSub, NoRequest,
    MaxTimers, MaxUp, MaxDown,   \* see WebSocketClient
    Context,     \* page contexts
    Screen,      \* where pages are shown
    FeedShown,   \* context -> the websocketId of its subscription
    Stacked      \* whether several screens can be mounted, as in a native shell

\* The values that stand for none are none, and the feeds never use up the
\* requestIds of subscribes.
ASSUME PageFeedsAssumption ==
    /\ NoSub \notin Feed \cup SubId \cup Context /\ NoPayload \notin Payload
    /\ NoRequest \notin SubRequest
    /\ \A used \in [Feed -> SubRequest \cup {NoRequest}] :
          \E r \in SubRequest : \A f \in Feed : used[f] # r
    /\ MaxTimers \in Nat
    /\ FeedShown \in [Context -> Feed] /\ Stacked \in BOOLEAN

VARIABLES
    up, down, handling, serving, conn, subscriptions, subscription, publishes,
    idleTimer, reconnectTimers, reconnectAttempt, reconnectingAfterCallerChange,
    age, told,
    shown,     \* screen -> the mounted context, or NoSub
    active,    \* contexts whose feed is in `active`
    payload,   \* payloads[websocketId], NoPayload when deleted
    replacing, \* contexts whose feed is in `replacing`
    state,     \* context.websockets[websocketId]
    buffer,    \* messages not rendered yet
    flushTimer,\* the throttle window is open
    overtaken  \* history: the active contexts whose feed another page has
               \* subscribed to, or unsubscribed from, since they did

clientVars == <<up, down, handling, serving, conn, subscriptions, subscription,
                publishes, idleTimer, reconnectTimers, reconnectAttempt,
                reconnectingAfterCallerChange, age, told>>
channelVars == <<active, payload, replacing, state, buffer, flushTimer, overtaken>>
vars == <<clientVars, shown, channelVars>>

(* Publishing and the growth of the backoff are WebSocketClient's own affair. *)
Client == INSTANCE WebSocketClient
            WITH Handlers <- Context, PubId <- {}, Ages <- {}, MaxAttempt <- 0, quickReconnects <- 0

-----------------------------------------------------------------------------
ChannelState == [connected : BOOLEAN, error : BOOLEAN, messages : SUBSET Payload]

(* initChannelState                                                          *)
EmptyState == [connected |-> FALSE, error |-> FALSE, messages |-> {}]

Init ==
    /\ Client!Init
    /\ shown = [s \in Screen |-> NoSub]
    /\ active = {}
    /\ payload = [x \in Context |-> NoPayload]
    /\ replacing = {}
    /\ state = [x \in Context |-> EmptyState]
    /\ buffer = [x \in Context |-> {}]
    /\ flushTimer = [x \in Context |-> FALSE]
    /\ overtaken = {}

(* The client has one subscription for a feed, and what a page does to it it  *)
(* does to that of the others.                                                *)
Overtakes(x) ==
    overtaken' = (overtaken \cup {y \in active : FeedShown[y] = FeedShown[x]}) \ {x}

(* clearChannel                                                              *)
clearChannel(x) ==
    /\ flushTimer' = [flushTimer EXCEPT ![x] = FALSE]
    /\ buffer' = [buffer EXCEPT ![x] = {}]
    /\ state' = [state EXCEPT ![x] = EmptyState]

(* subscribe.  With an unchanged payload it does nothing; with a changed one  *)
(* the open channel is cleared, and replaced by the client.                   *)
Unchanged(x, p) == x \in active /\ payload[x] = p

subscribe(x, p) ==
    /\ ~Unchanged(x, p)
    /\ Client!Subscribe(x, FeedShown[x], p)
    /\ IF x \in active
         THEN clearChannel(x) /\ replacing' = replacing \cup {x}
         ELSE /\ buffer' = [buffer EXCEPT ![x] = {}]
              /\ UNCHANGED <<replacing, state, flushTimer>>
    /\ active' = active \cup {x}
    /\ payload' = [payload EXCEPT ![x] = p]
    /\ Overtakes(x)

\* mutant: the client is not told
clientUntold(f) == UNCHANGED clientVars

(* unsubscribe                                                                *)
clientUnsubscribe(f) ==
    IF subscriptions[f] = NoSub THEN UNCHANGED clientVars ELSE Client!Unsubscribe(f)

unsubscribe(x) ==
    IF x \notin active THEN UNCHANGED <<clientVars, channelVars>>
    ELSE /\ active' = active \ {x}
         /\ replacing' = replacing \ {x}
         /\ payload' = [payload EXCEPT ![x] = NoPayload]
         /\ clearChannel(x)
         /\ clientUnsubscribe(FeedShown[x])
         /\ Overtakes(x)

-----------------------------------------------------------------------------
(* WebSocketsEffect: subscribeAll when the page mounts, unsubscribeAll when   *)
(* it unmounts.                                                               *)
Mount(s, x, p) ==
    /\ shown[s] = NoSub
    /\ Stacked \/ \A t \in Screen : shown[t] = NoSub
    /\ shown' = [shown EXCEPT ![s] = x]
    /\ IF Unchanged(x, p) THEN UNCHANGED <<clientVars, channelVars>> ELSE subscribe(x, p)

Unmount(s) ==
    /\ shown[s] # NoSub
    /\ shown' = [shown EXCEPT ![s] = NoSub]
    /\ unsubscribe(shown[s])

(* The page's Subscribe and Unsubscribe actions, mounted or not               *)
SubscribeAction(x, p) == subscribe(x, p) /\ UNCHANGED shown
UnsubscribeAction(x) == x \in active /\ unsubscribe(x) /\ UNCHANGED shown

-----------------------------------------------------------------------------
(* What the client tells the page: its handlers, and the catch of subscribe    *)

Told(x, what) == \E e \in told' : e.handlers = x /\ e.what = what

\* mutant: messages are taken while a changed subscribe waits for its ack
AcceptedAnyway(x) ==
    IF x \in active
      THEN {e.payload : e \in {m \in told' : m.handlers = x /\ m.what = "message"}}
      ELSE {}

(* handleMessage: dropped unless active and not replacing; the first message   *)
(* of a throttle window is rendered at once, later ones wait.                  *)
Accepted(x) ==
    IF x \in active \ replacing
      THEN {e.payload : e \in {m \in told' : m.handlers = x /\ m.what = "message"}}
      ELSE {}
RenderedNow(x) == IF flushTimer[x] THEN {} ELSE Accepted(x)

React ==
    /\ active' = {x \in active : ~Told(x, "rejected")}
    /\ replacing' = {x \in replacing : ~Told(x, "rejected") /\ ~Told(x, "connected")}
    /\ payload' = [x \in Context |->
                     IF Told(x, "rejected") THEN NoPayload ELSE payload[x]]
    /\ state' = [x \in Context |->
         [connected |-> (state[x].connected /\ ~Told(x, "disconnected")) \/ Told(x, "connected"),
          error |-> (state[x].error /\ ~Told(x, "connected"))
                      \/ Told(x, "error") \/ Told(x, "rejected"),
          messages |-> state[x].messages \cup RenderedNow(x)]]
    /\ buffer' = [x \in Context |-> buffer[x] \cup (Accepted(x) \ RenderedNow(x))]
    /\ flushTimer' = [x \in Context |-> flushTimer[x] \/ Accepted(x) # {}]
    /\ overtaken' = {x \in overtaken : ~Told(x, "rejected")}
    /\ UNCHANGED shown

ClientStep ==
    (Client!TimerStep \/ Client!NetworkStep \/ Client!ServerStep) /\ React

(* The throttle window closes: what came in it is rendered, and another opens. *)
Flush(x) ==
    /\ flushTimer[x]
    /\ state' = [state EXCEPT ![x].messages = @ \cup buffer[x]]
    /\ buffer' = [buffer EXCEPT ![x] = {}]
    /\ flushTimer' = [flushTimer EXCEPT ![x] = buffer[x] # {}]
    /\ UNCHANGED <<clientVars, shown, active, payload, replacing, overtaken>>

Next ==
    \/ \E s \in Screen : Unmount(s) \/ \E x \in Context, p \in Payload : Mount(s, x, p)
    \/ \E x \in Context :
         UnsubscribeAction(x) \/ Flush(x) \/ \E p \in Payload : SubscribeAction(x, p)
    \/ ClientStep

Spec == Init /\ [][Next]_vars

-----------------------------------------------------------------------------
TypeOK ==
    /\ Client!TypeOK
    /\ shown \in [Screen -> Context \cup {NoSub}]
    /\ active \subseteq Context
    /\ payload \in [Context -> Payload \cup {NoPayload}]
    /\ replacing \subseteq Context
    /\ state \in [Context -> ChannelState]
    /\ buffer \in [Context -> SUBSET Payload]
    /\ flushTimer \in [Context -> BOOLEAN]
    /\ overtaken \subseteq active

EntryOf(x) == subscriptions[FeedShown[x]]

HasClient(x) == EntryOf(x) # NoSub /\ subscription[EntryOf(x)].handlers = x

(* The page the client tells about a feed holds it for open, with the payload  *)
(* it evaluated last.  A page that holds its feed for open is that one, unless *)
(* another page has subscribed to the feed or unsubscribed from it since:      *)
(* timeouts, refusals, late acks and lost connections leave nobody untold.     *)
ActiveIsSubscribed ==
    \A x \in Context :
        /\ HasClient(x) => x \in active /\ subscription[EntryOf(x)].payload = payload[x]
        /\ x \in active => HasClient(x) \/ x \in overtaken

(* From a changed Subscribe until its ack the channel state stays empty.       *)
ReplacingIsEmpty ==
    \A x \in replacing : x \in active /\ state[x].messages = {} /\ buffer[x] = {}
                           /\ ~state[x].connected

(* Whatever a connected page receives was sent for its current payload.        *)
ConnectedHearsItsOwn ==
    [][\A e \in told' :
         e.what = "message" /\ state[e.handlers].connected =>
             e.payload = payload[e.handlers]]_vars

=============================================================================
